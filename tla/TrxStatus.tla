------------------------------- MODULE TrxStatus -------------------------------
(***************************************************************************)
(* trx_finality_status_processing: the block that each transaction was     *)
(* seen in.  s.storage has the entries, s.head and s.last_proc are         *)
(* _head_block_id and _last_proc_block_num, s.speculative is               *)
(* _speculative_trxs, and s.assertion says whether the assertion of        *)
(* signal_accepted_block held so far (its exception is logged and          *)
(* dropped).                                                               *)
(* status_expiry_of_trxs and ensure_storage remove the entries that are    *)
(* old; which ones are, depends on the clock and on sizes and is left      *)
(* open: they are the parameter old.                                       *)
(***************************************************************************)
EXTENDS Naturals

CONSTANTS
  NoBlock,  \* the empty block_id
  Num(_)    \* num_from_id

NewStatus(genesis) ==
  [storage |-> <<>>, head |-> genesis, last_proc |-> 0, speculative |-> {}, assertion |-> "held"]

Seen(s, trxs, block) ==
  [s EXCEPT !.storage = [t \in DOMAIN s.storage \cup trxs |->
                           IF t \in trxs THEN [block |-> block, forked_out |-> FALSE] ELSE s.storage[t]]]

Forget(s, old) == [s EXCEPT !.storage = [t \in DOMAIN s.storage \ old |-> s.storage[t]]]

is_in_block(e) == ~ e.forked_out /\ e.block # NoBlock

\* Mutant: the transactions of the replaced block itself stay.
Mut_handle_rollback(s, num) ==
  [s EXCEPT !.storage = [t \in DOMAIN s.storage |->
     [s.storage[t] EXCEPT !.forked_out = @ \/ (s.storage[t].block # NoBlock /\ Num(s.storage[t].block) > num)]]]

handle_rollback(s, num) ==
  [s EXCEPT !.storage = [t \in DOMAIN s.storage |->
     [s.storage[t] EXCEPT !.forked_out = @ \/ (s.storage[t].block # NoBlock /\ Num(s.storage[t].block) >= num)]]]

\* A block with this id is the head now: what was seen from its number on is forked out.
NewHead(s, block) ==
  LET s1 == [s EXCEPT !.head = block]
  IN IF s.head # block /\ Num(block) <= s.last_proc THEN handle_rollback(s1, Num(block)) ELSE s1

Processed(s, block) == [s EXCEPT !.last_proc = Num(block)]

signal_block_start(s) == [s EXCEPT !.speculative = {}]

\* signal_applied_transaction, in a block that was received; trxs is {} for onblock.
AppliedInBlock(s, trxs, block, old) ==
  Seen(Forget(Processed(NewHead(s, block), block), old), trxs, block)

\* signal_applied_transaction, in a speculative block.
AppliedSpeculatively(s, t, old) ==
  Seen(Forget([s EXCEPT !.speculative = @ \cup {t}], old), {t}, NoBlock)

\* until is what the loop over _speculative_trxs reached when its assertion fails; after
\* the loop _speculative_trxs is cleared, as signal_block_start does.
signal_accepted_block(s, block, old, until) ==
  LET s1 == Forget(NewHead(s, block), old)
  IN IF block = s.head THEN s
     ELSE IF s.speculative \subseteq DOMAIN s1.storage
     THEN Processed(signal_block_start(Seen(s1, s.speculative, block)), block)
     ELSE [Seen(s1, until, block) EXCEPT !.assertion = "failed"]
===============================================================================
