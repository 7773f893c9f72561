------------------------------- MODULE TrxRetry -------------------------------
(***************************************************************************)
(* trx_retry_db: transactions that the node sends again until they are in  *)
(* a block that is deep enough, or irreversible.  An entry has the number  *)
(* of the transaction's block, 0 if it is in none, and num_blocks, the     *)
(* depth its sender asked for, or lib_totem.  When a transaction is sent   *)
(* again depends on the clock only and is left out.                        *)
(***************************************************************************)
EXTENDS Naturals

CONSTANT lib_totem  \* the sender waits for irreversibility

NothingTracked == <<>>

track_transaction(tracked, t, num_blocks) ==
  [u \in DOMAIN tracked \cup {t} |->
     IF u \in DOMAIN tracked THEN tracked[u] ELSE [block_num |-> 0, num_blocks |-> num_blocks]]

\* on_applied_transaction, for an executed transaction of a block that was received.
InBlock(tracked, t, block_num) ==
  [u \in DOMAIN tracked |-> IF u = t THEN [tracked[u] EXCEPT !.block_num = block_num] ELSE tracked[u]]

\* Mutant: a block of the same number is not rolled back.
Mut_rollback_to(tracked, block_num) ==
  [u \in DOMAIN tracked |->
     IF tracked[u].block_num > block_num THEN [tracked[u] EXCEPT !.block_num = 0] ELSE tracked[u]]

\* Called on block_start, for the number of the block that starts.
rollback_to(tracked, block_num) ==
  [u \in DOMAIN tracked |->
     IF tracked[u].block_num >= block_num THEN [tracked[u] EXCEPT !.block_num = 0] ELSE tracked[u]]

\* Mutant: the block that includes the transaction counts too.
Mut_ReadyByNum(tracked, block_num) ==
  {u \in DOMAIN tracked : /\ tracked[u].block_num # 0 /\ tracked[u].num_blocks # lib_totem
                          /\ tracked[u].block_num + tracked[u].num_blocks <= block_num + 1}

\* ack_ready_trxs_by_block_num
ReadyByNum(tracked, block_num) ==
  {u \in DOMAIN tracked : /\ tracked[u].block_num # 0 /\ tracked[u].num_blocks # lib_totem
                          /\ tracked[u].block_num + tracked[u].num_blocks <= block_num}

\* ack_ready_trxs_by_lib
ReadyByLib(tracked, block_num) ==
  {u \in DOMAIN tracked : tracked[u].block_num # 0 /\ tracked[u].block_num <= block_num}

Untrack(tracked, trxs) == [u \in DOMAIN tracked \ trxs |-> tracked[u]]
===============================================================================
