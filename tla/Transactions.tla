----------------------------- MODULE Transactions -----------------------------
(***************************************************************************)
(* The transactions of a node while its head moves between branches: the   *)
(* queue of transactions to execute again (producer_plugin), the           *)
(* transactions whose senders wait for them to be in a block, and the      *)
(* status of transactions (both chain_plugin), all of which follow the     *)
(* chain by the controller's signals block_start, applied_transaction,     *)
(* accepted_block and irreversible_block.  The controller calls them on    *)
(* the main thread, in the order they are connected in.  Which branch is   *)
(* best is left open: ForkSwitch is about that.                            *)
(***************************************************************************)
EXTENDS Naturals, Sequences, UnappliedQueue

CONSTANTS
  Trx,         \* transactions
  Block,       \* blocks that may arrive or be produced
  Own,         \* the ones that this node may produce
  Genesis,
  Path,        \* Path[b]: the blocks from the one after Genesis to b
  Expiration,  \* of each transaction, in block times
  NumBlocks,   \* the depths that senders ask for
  lib_totem, NoBlock,
  MaxTime      \* bound: the latest time of a block

\* A block's path ends with the block, and the path of a block on it is the part up to it.
ASSUME PathAssumption ==
  /\ Genesis \notin Block /\ NoBlock \notin Block \cup {Genesis} /\ Own \subseteq Block
  /\ Path \in [Block \cup {Genesis} -> Seq(Block)]
  /\ Path[Genesis] = <<>>
  /\ \A b \in Block : /\ Len(Path[b]) > 0 /\ Path[b][Len(Path[b])] = b
                      /\ \A i \in 1 .. Len(Path[b]) :
                           /\ Len(Path[Path[b][i]]) = i
                           /\ \A j \in 1 .. i : Path[Path[b][i]][j] = Path[b][j]

ASSUME TrxAssumption ==
  /\ Expiration \in [Trx -> Nat] /\ MaxTime \in Nat
  /\ \A n \in NumBlocks : n # lib_totem => n \in Nat

Num(b) == Len(Path[b])

R == INSTANCE TrxRetry
S == INSTANCE TrxStatus

VARIABLES
  producer,  \* the node has a producer name, which rules out retrying
  body,      \* the transactions of each block
  head, lib,
  valid,     \* blocks that were applied once
  removed,   \* blocks that failed, and what is built on them
  task,      \* what maybe_switch_forks is doing: blocks to apply, and what to return to
  building,  \* the block that is being applied, produced or executed speculatively
  queue,     \* _unapplied_transactions
  tracked,   \* _tracked_trxs
  answer,    \* the answer to the sender of a tracked transaction
  status,    \* trx_finality_status_processing_impl
  kept       \* history: what was executed here or forked out, and not dropped since

chain == <<producer, head, lib, valid, removed>>
vars == <<chain, body, task, building, queue, tracked, answer, status, kept>>

OnBranch(b) == {Path[b][i] : i \in 1 .. Num(b)}
Included(b) == UNION {body[c] : c \in OnBranch(b)}
Stored == DOMAIN status.storage

NoBuilding == [at |-> "none", block |-> NoBlock, left |-> {}, done |-> {}, time |-> 0]
Done == [todo |-> <<>>, old |-> <<>>, fork |-> Genesis]
Idle == task = Done /\ building.at # "apply"
Aborted == IF building.at \in {"speculative", "producing"} THEN building.done ELSE {}

\* What the blocks that arrive may contain; the others have nothing yet.
Bodies ==
  {f \in [Block \cup {Genesis} -> SUBSET Trx] : \A b \in Own \cup {Genesis} : f[b] = {}}

Init ==
  /\ producer \in BOOLEAN /\ body \in Bodies
  /\ head = Genesis /\ lib = Genesis /\ valid = {Genesis} /\ removed = {}
  /\ task = Done /\ building = NoBuilding
  /\ queue = EmptyQueue /\ tracked = R!NothingTracked /\ answer = [t \in Trx |-> "none"]
  /\ status = S!NewStatus(Genesis) /\ kept = {}

-------------------------------------------------------------------------------
\* A transaction executes in the pending block: it is not expired, and no duplicate.
CanExecute(t) ==
  building.time <= Expiration[t] /\ t \notin Included(head) /\ t \notin building.done

(* maybe_switch_forks, after the pending block is aborted.                   *)
CommonAncestor(a, b) ==
  LET common == {Genesis} \cup (OnBranch(a) \cap OnBranch(b))
  IN CHOOSE c \in common : \A d \in common : Num(d) <= Num(c)

From(fork, b) == SubSeq(Path[b], Num(fork) + 1, Num(b))

BodiesOf(blocks) == UNION {body[blocks[i]] : i \in 1 .. Len(blocks)}

\* on_incoming_block, or start_block, with a new best branch
SwitchForks(b) ==
  LET fork == CommonAncestor(head, b)
      old  == From(fork, head)
  IN /\ Idle /\ building.at # "producing"
     /\ b \notin removed /\ b \notin OnBranch(head)
     /\ OnBranch(b) \cap Own \subseteq valid  \* nothing is built on a block before it is produced
     /\ Num(lib) <= Num(fork)
     /\ head' = fork
     /\ task' = [todo |-> From(fork, b), old |-> old, fork |-> fork]
     /\ building' = NoBuilding
     /\ queue' = add_forked(add_aborted(queue, Aborted), BodiesOf(old))
     /\ kept' = kept \cup BodiesOf(old)
     /\ UNCHANGED <<producer, lib, valid, removed, body, tracked, answer, status>>

\* apply_block: start_block and the onblock transaction.
StartApply(old) ==
  LET b == Head(task.todo)
  IN /\ task.todo # <<>> /\ building = NoBuilding
     /\ building' = [at |-> "apply", block |-> b, left |-> body[b], done |-> {}, time |-> Num(b)]
     /\ tracked' = R!rollback_to(tracked, Num(head) + 1)
     /\ status' = S!AppliedInBlock(S!signal_block_start(status), {}, b, old)
     /\ UNCHANGED <<chain, body, task, queue, answer, kept>>

ApplyTrx(t, old) ==
  /\ building.at = "apply" /\ t \in building.left /\ CanExecute(t)
  /\ building' = [building EXCEPT !.left = @ \ {t}]
  /\ tracked' = R!InBlock(tracked, t, Num(building.block))
  /\ status' = S!AppliedInBlock(status, {t}, building.block, old)
  /\ UNCHANGED <<chain, body, task, queue, answer, kept>>

Answered(acked, expired) ==
  [t \in Trx |-> IF t \in acked THEN "in_block" ELSE IF t \in expired THEN "expired" ELSE answer[t]]

\* accepted_block, for block b with these transactions, which is the head now
Accepted(b, trxs, old, until) ==
  LET acked == R!ReadyByNum(tracked, Num(b))
  IN /\ head' = b /\ valid' = valid \cup {b}
     /\ queue' = clear_applied(queue, trxs)
     /\ tracked' = R!Untrack(tracked, acked)
     /\ answer' = Answered(acked, {})
     /\ status' = S!signal_accepted_block(status, b, old, until)
     /\ building' = NoBuilding
     /\ UNCHANGED <<producer, lib, removed>>

Remaining(todo) == IF todo = <<>> THEN Done ELSE [task EXCEPT !.todo = todo]

\* commit_block; the status follows applied_transaction, so accepted_block adds nothing.
CommitApplied ==
  /\ building.at = "apply" /\ building.left = {}
  /\ Accepted(building.block, body[building.block], {}, {})
  /\ task' = Remaining(Tail(task.todo))
  /\ UNCHANGED <<body, kept>>

\* A block that was not applied before is invalid: it is removed, what was applied of
\* its branch is popped, down to the irreversible block, and its transactions are
\* discarded; then the old branch is applied again.
Fails(b) ==
  LET back == IF Num(lib) > Num(task.fork) THEN lib ELSE task.fork
  IN /\ b \notin valid
     /\ removed' = removed \cup {c \in Block : b \in OnBranch(c)}
     /\ head' = back
     /\ kept' = kept \ BodiesOf(From(back, head))
     /\ task' = IF back = task.fork /\ task.old # <<>>
                THEN [todo |-> task.old, old |-> <<>>, fork |-> back] ELSE Done
     /\ building' = NoBuilding
     /\ UNCHANGED <<producer, lib, valid, body, queue, answer>>

FailApply == building.at = "apply" /\ Fails(building.block) /\ UNCHANGED <<tracked, status>>

\* It may fail before its first transaction.
FailStart ==
  /\ task.todo # <<>> /\ building = NoBuilding
  /\ Fails(Head(task.todo))
  /\ tracked' = R!rollback_to(tracked, Num(head) + 1)
  /\ status' = S!signal_block_start(status)

\* log_irreversible emits irreversible_block for one block after the other.
LogIrreversible ==
  LET b       == Path[head][Num(lib) + 1]
      acked   == R!ReadyByLib(tracked, Num(b))
      expired == {t \in DOMAIN tracked \ acked : Expiration[t] <= Num(b)}
  IN /\ building = NoBuilding /\ Num(lib) < Num(head)
     /\ lib' = b
     /\ tracked' = R!Untrack(tracked, acked \cup expired)
     /\ answer' = Answered(acked, expired)
     /\ UNCHANGED <<producer, head, valid, removed, body, task, building, queue, status, kept>>

-------------------------------------------------------------------------------
(* producer_plugin: the block that is produced or executed speculatively.    *)
\* start_block; expired: what clear_expired removed before it was interrupted
StartBlock(mode, time, expired) ==
  LET q == add_aborted(queue, Aborted)
  IN /\ Idle /\ (mode = "producing" => producer)
     /\ expired \subseteq {t \in DOMAIN q : Expiration[t] <= time}
     /\ building' = [at |-> mode, block |-> NoBlock, left |-> {}, done |-> {}, time |-> time]
     /\ queue' = clear_expired(q, expired)
     /\ kept' = kept \ expired
     /\ tracked' = R!rollback_to(tracked, Num(head) + 1)
     /\ status' = S!signal_block_start(status)
     /\ UNCHANGED <<chain, body, task, answer>>

Execute(t, old) ==
  /\ building' = [building EXCEPT !.done = @ \cup {t}]
  /\ status' = S!AppliedSpeculatively(status, t, old)
  /\ kept' = kept \cup {t}

\* The sender of an executed transaction waits for it (send_transaction_gen, retry_trx)
\* for one of num_blocks, or does not wait.
Track(t, num_blocks) ==
  IF num_blocks = {} \/ t \in DOMAIN tracked THEN UNCHANGED <<tracked, answer>>
  ELSE \E n \in num_blocks : /\ ~ producer
                             /\ tracked' = R!track_transaction(tracked, t, n)
                             /\ answer' = [answer EXCEPT ![t] = "none"]

\* process_unapplied_trxs, process_incoming_trxs: one that does not fit stays.
ProcessQueued(t, old, num_blocks) ==
  /\ building.at \in {"speculative", "producing"}
  /\ t \in Processable(queue, building.at = "producing")
  /\ num_blocks # {} => queue[t] = "incoming"
  /\ queue' = Erase(queue, {t})
  /\ \/ CanExecute(t) /\ Execute(t, old) /\ Track(t, num_blocks)
     \/ kept' = kept \ ({t} \ building.done) /\ UNCHANGED <<building, status, tracked, answer>>
  /\ UNCHANGED <<chain, body, task>>

Enqueue(t) == queue' = add_incoming(queue, t) /\ UNCHANGED <<building, status, kept, tracked, answer>>

\* process_incoming_transaction_async: it is executed, fails, or did not fit.
Incoming(t, old, num_blocks) ==
  /\ Idle /\ t \notin Included(head) \cup building.done
  /\ \/ building = NoBuilding /\ Num(head) <= Expiration[t] /\ Enqueue(t)
     \/ building # NoBuilding /\ CanExecute(t) /\ (Enqueue(t) \/ (Execute(t, old) /\ Track(t, num_blocks) /\ UNCHANGED queue))
  /\ UNCHANGED <<chain, body, task>>

\* produce_block
Produce(b, old, until) ==
  /\ building.at = "producing"
  /\ b \in Own \ valid /\ Path[b] = Append(Path[head], b)
  /\ body' = [body EXCEPT ![b] = building.done]
  /\ Accepted(b, building.done, old, until)
  /\ UNCHANGED <<task, kept>>

\* How a sender may wait for a transaction.
Waits == {{}} \cup {{n} : n \in NumBlocks}

Next ==
  \/ \E b \in Block : SwitchForks(b)
  \/ FailStart
  \/ FailApply
  \/ CommitApplied
  \/ LogIrreversible
  \/ \E mode \in {"speculative", "producing"}, time \in Num(head) + 1 .. MaxTime, expired \in SUBSET Trx :
       StartBlock(mode, time, expired)
  \/ \E old \in SUBSET Stored : StartApply(old)
  \/ \E old \in SUBSET Stored, t \in Trx : ApplyTrx(t, old)
  \/ \E old \in SUBSET Stored, t \in Trx, num_blocks \in Waits : ProcessQueued(t, old, num_blocks)
  \/ \E old \in SUBSET Stored, t \in Trx, num_blocks \in Waits : Incoming(t, old, num_blocks)
  \/ \E old \in SUBSET Stored, b \in Own : \E until \in SUBSET ((status.speculative \cap Stored) \ old) :
       Produce(b, old, until)

Spec == Init /\ [][Next]_vars

-------------------------------------------------------------------------------
\* The answer of this step to the sender of t is so.
RightAnswer(t) ==
  /\ answer'[t] = "in_block" /\ answer[t] # "in_block" =>
       \E b \in OnBranch(head') :
          /\ t \in body[b]
          /\ \/ Num(b) <= Num(lib')
             \/ tracked[t].num_blocks # lib_totem /\ Num(b) + tracked[t].num_blocks <= Num(head')
  /\ answer'[t] = "expired" /\ answer[t] # "expired" => t \notin Included(head')

\* What a sender is told is so: an acknowledged transaction is in the chain, as deep
\* as the sender asked for or irreversible, and one that is reported as expired is not
\* in the chain, whatever was forked out before.
AnswersAreRight == [][\A t \in Trx : RightAnswer(t)]_vars

\* Between two tasks of the main thread a tracked transaction that is in the chain has
\* the number of its block, and one that is not has none that counts: it is sent again,
\* or its block failed and the next block_start resets it.
TrackedFollowsChain ==
  Idle => \A t \in DOMAIN tracked :
            LET n == tracked[t].block_num
            IN \/ \E b \in OnBranch(head) : t \in body[b] /\ n = Num(b)
               \/ t \notin Included(head) /\ (n = 0 \/ n > Num(head))

\* The status of a transaction names the block of the current branch that it is in, and
\* no other up to the head, whatever branches were tried; as long as the assertion in
\* signal_accepted_block held.
StatusFollowsChain ==
  Idle /\ status.assertion = "held" =>
    \A t \in Stored :
      LET e == status.storage[t]
      IN \/ S!is_in_block(e) /\ e.block \in OnBranch(head) /\ t \in body[e.block]
         \/ /\ t \notin Included(head)
            /\ S!is_in_block(e) => Num(e.block) > Num(head)

\* A transaction that was executed here, or forked out, is in the chain, in the pending
\* block or in the queue, until it expires or fails.  Those of the blocks that a failed
\* switch pops are the exception: maybe_switch_forks discards them.
NoTransactionIsLost ==
  Idle => kept \subseteq Included(head) \cup building.done \cup DOMAIN queue
===============================================================================
