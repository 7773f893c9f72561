------------------------------ MODULE ForkSwitch ------------------------------
(***************************************************************************)
(* How the controller follows the fork database in Savanna (read mode head *)
(* or speculative): the main thread applies blocks, switches forks and     *)
(* makes blocks irreversible, while other threads verify headers and add   *)
(* blocks to the fork database.                                            *)
(*                                                                         *)
(* c is the chain: db (the fork database), head (chain_head), state (the   *)
(* block whose effects the chain database holds last), committed (the last *)
(* block it can not undo) and blog (the head of the block log).  Applying  *)
(* a block is one step: it runs on the main thread, and what it reads from *)
(* the fork database the other threads do not change.                      *)
(***************************************************************************)
EXTENDS ForkDatabase

CONSTANTS
  Invalids,         \* the sets of blocks that may turn out to be invalid
  MaxRepeats,       \* bound: how often a block arrives that arrived before
  MaxAppendFails    \* bound: how often appending to the block log fails

VARIABLES
  c,
  invalid,          \* the blocks whose execution fails
  creating,         \* blocks whose headers are being verified (create_block_state_i)
  handles,          \* block handles on their way to the main thread
  task,             \* what the main thread is doing
  lost_sync,        \* an assertion that "_should_ never fail" failed
  quit,             \* check_shutdown()
  arrived, repeats, append_fails

vars == <<c, invalid, creating, handles, task, lost_sync, quit, arrived, repeats, append_fails>>

\* at: "idle", "apply" or "reapply"; single: the new head is built on chain_head; todo:
\* blocks to apply; done: how many were applied; second: the branch switched from,
\* oldest block first.
Idle == [at |-> "idle", single |-> TRUE, todo |-> <<>>, done |-> 0, second |-> <<>>]

Init ==
  /\ c = [db |-> NewDb, head |-> Genesis, state |-> Genesis, committed |-> Genesis, blog |-> Genesis]
  /\ invalid \in Invalids
  /\ creating = {} /\ handles = {}
  /\ task = Idle /\ lost_sync = FALSE /\ quit = FALSE
  /\ arrived = {} /\ repeats = 0 /\ append_fails = 0

-------------------------------------------------------------------------------
\* Mutant: the whole validated branch becomes irreversible.
Mut_ToProcess(e) == fetch_branch(e.db, e.head, e.head) \cap e.db.valid

\* The blocks log_irreversible processes: those of the branch of chain_head up to the
\* pending one that are validated without a gap.
ToProcess(e) ==
  LET branch == fetch_branch(e.db, e.head, e.db.pending)
  IN  {b \in branch : num[e.db.pending] > num[e.blog] /\ \A a \in branch : num[a] <= num[b] => a \in e.db.valid}

\* Mutant: the root stays where it is when appending to the block log fails.
Mut_AfterFailure(e, last) == [e EXCEPT !.blog = last, !.committed = last]

\* The exception handler advances the root to the last block that was appended.
AfterFailure(e, last) ==
  [e EXCEPT !.blog = last, !.committed = last,
            !.db = IF last = e.db.root THEN @ ELSE advance_root(@, last)]

Highest(S, default) == IF S = {} THEN default ELSE CHOOSE b \in S : \A a \in S : num[a] <= num[b]

log_irreversible(e) ==
  LET done == ToProcess(e)
      last == Highest(done, e.blog)
  IN  IF done = {} THEN e
      ELSE [e EXCEPT !.blog = last, !.committed = last, !.db = advance_root(@, last)]

\* The outcomes of log_irreversible when an append throws: the last block appended may
\* be any below the last one.
FailedLogs(e) ==
  LET done == ToProcess(e)
  IN  {AfterFailure(e, last) : last \in IF done = {} THEN {} ELSE (done \cup {e.db.root}) \ {Highest(done, e.blog)}}

\* db.undo()
Undo(e) == [e EXCEPT !.state = IF @ = e.committed THEN @ ELSE previous[@]]

\* Mutant: the chain database keeps the block.
Mut_pop_block(e) == [e EXCEPT !.head = previous[@]]

pop_block(e) == Undo([e EXCEPT !.head = previous[@]])

CanPop(e) == e.head # Genesis /\ get_block(e.db, previous[e.head])

\* n calls of pop_block; the first that throws ends them.
Pop(e, n) ==
  LET after[i \in 0..n] == IF i = 0 THEN e
                           ELSE IF CanPop(after[i - 1]) THEN pop_block(after[i - 1]) ELSE after[i - 1]
  IN  after[n]

Popped(e, n) == num[Pop(e, n).head] = num[e.head] - n

-------------------------------------------------------------------------------
\* start_block's assertion and the execution of the block
Applies(e, b) == e.state = e.head /\ b \notin invalid

Validated(e, b) == [e EXCEPT !.head = b, !.state = b, !.db.valid = @ \cup {b}]

\* commit_block
Applied(e, b) == log_irreversible(Validated(e, b))

\* commit_block when log_irreversible throws: the block's session is undone.
FailedApplies(e, b) == {Undo(f) : f \in FailedLogs(Validated(e, b))}

\* Mutant: a block that can not be applied stays in the fork database.
Mut_Rejected(e, b) == e

Rejected(e, b) == [e EXCEPT !.db = remove(@, b)]

\* Mutant: one of the blocks that were applied is not popped.
Mut_ToUndo(t) == IF t.done = 0 THEN 0 ELSE t.done - 1

\* Blocks of the bad fork to pop: those that were applied.
ToUndo(t) == t.done

Switching(t) == t.second # <<>>

\* The blocks applied are popped, and then the old branch, if any, is applied again.
RollBack(t, e) ==
  LET f    == Pop(e, ToUndo(t))
      sync == Switching(t) => f.head = previous[t.second[1]]
  IN  /\ c' = f
      /\ IF Popped(e, ToUndo(t)) /\ sync /\ Switching(t)
         THEN task' = [t EXCEPT !.at = "reapply", !.todo = t.second]
         ELSE task' = Idle
      /\ lost_sync' = (lost_sync \/ (Popped(e, ToUndo(t)) /\ ~ sync))

\* An exception from apply_block(b) in maybe_switch_forks.
Thrown(e, b) ==
  IF task.single
  THEN c' = Rejected(e, b) /\ task' = Idle /\ UNCHANGED lost_sync
  ELSE RollBack(task, Rejected(e, b))

MainOnly == UNCHANGED <<invalid, creating, handles, quit, arrived, repeats>>

\* One block of the new branch.
ApplyNext ==
  /\ task.at = "apply"
  /\ LET b == Head(task.todo)
     IN  \/ /\ Applies(c, b)
            /\ c' = Applied(c, b)
            /\ task' = IF Len(task.todo) = 1 \/ (quit /\ ~ Switching(task)) THEN Idle
                       ELSE [task EXCEPT !.todo = Tail(@), !.done = @ + 1]
            /\ UNCHANGED <<lost_sync, append_fails>>
         \/ ~ Applies(c, b) /\ Thrown(c, b) /\ UNCHANGED append_fails
         \/ /\ Applies(c, b) /\ append_fails < MaxAppendFails
            /\ append_fails' = append_fails + 1
            /\ \E e \in FailedApplies(c, b) : Thrown(e, b)
  /\ MainOnly

\* One block of the old branch, after the new one failed.
ReapplyNext ==
  /\ task.at = "reapply"
  /\ LET b == Head(task.todo)
     IN  \/ /\ Applies(c, b)
            /\ c' = Applied(c, b)
            /\ task' = IF Len(task.todo) = 1 THEN Idle ELSE [task EXCEPT !.todo = Tail(@)]
            /\ UNCHANGED append_fails
         \/ ~ Applies(c, b) /\ task' = Idle /\ UNCHANGED <<c, append_fails>>
         \/ /\ Applies(c, b) /\ append_fails < MaxAppendFails
            /\ append_fails' = append_fails + 1
            /\ c' \in FailedApplies(c, b) /\ task' = Idle
  /\ UNCHANGED lost_sync /\ MainOnly

-------------------------------------------------------------------------------
\* The blocks of the old branch are popped.
StartSwitch(e, new_head) ==
  LET branches == fetch_branch_from(new_head, e.head)
      second   == branches.second
      n        == Len(second)
      sync     == n > 0 => Pop(e, n).head = previous[second[1]]
  IN  /\ c' = Pop(e, n)
      /\ task' = IF Popped(e, n) /\ sync
                 THEN [at |-> "apply", single |-> FALSE, todo |-> branches.first, done |-> 0, second |-> second]
                 ELSE Idle
      /\ lost_sync' = (lost_sync \/ (Popped(e, n) /\ ~ sync))

\* maybe_switch_forks, up to the first apply_block
maybe_switch_forks(e, new_head) ==
  \/ /\ previous[new_head] = e.head
     /\ c' = e
     /\ task' = [Idle EXCEPT !.at = "apply", !.todo = <<new_head>>]
     /\ UNCHANGED <<lost_sync, append_fails>>
  \/ /\ previous[new_head] # e.head /\ new_head # e.head
     /\ IF get_block(e.db, e.head) THEN StartSwitch(e, new_head)
        ELSE c' = e /\ UNCHANGED <<task, lost_sync>>
     /\ UNCHANGED append_fails
  \/ /\ new_head = e.head
     /\ c' = log_irreversible(e)
     /\ UNCHANGED <<task, lost_sync, append_fails>>
  \/ /\ new_head = e.head /\ append_fails < MaxAppendFails
     /\ append_fails' = append_fails + 1
     /\ c' \in FailedLogs(e)
     /\ UNCHANGED <<task, lost_sync>>

Ready == task = Idle /\ ~ quit

\* A block that arrived is pushed: on_incoming_block drops one that is validated
\* already, and one that is not linkable any more throws.
PushBlock(b) ==
  /\ Ready /\ b \in handles
  /\ handles' = handles \ {b}
  /\ IF b \in c.db.valid \/ ~ Linkable(c.db, b)
     THEN UNCHANGED <<c, task, lost_sync, append_fails>>
     ELSE LET e == [c EXCEPT !.db = add(@, b)] IN maybe_switch_forks(e, head(e.db))
  /\ UNCHANGED <<invalid, creating, quit, arrived, repeats>>

\* While the node produces, blocks that arrive are only kept.
AcceptBlock(b) ==
  /\ Ready /\ b \in handles
  /\ handles' = handles \ {b}
  /\ c' = IF Linkable(c.db, b) THEN [c EXCEPT !.db = add(@, b)] ELSE c
  /\ UNCHANGED <<invalid, creating, task, lost_sync, quit, arrived, repeats, append_fails>>

\* The producer's loop moves to the best branch before it starts a block.
SwitchForks ==
  /\ Ready /\ c.head # head(c.db)
  /\ maybe_switch_forks(c, head(c.db))
  /\ MainOnly

\* A block comes to the node for the first time or again.
Arrives(b) ==
  \/ b \notin arrived /\ arrived' = arrived \cup {b} /\ UNCHANGED repeats
  \/ b \in arrived /\ repeats < MaxRepeats /\ repeats' = repeats + 1 /\ UNCHANGED arrived

\* The node produces a block on its head: it is added to the fork database as valid.
Produce(b) ==
  /\ Ready /\ previous[b] = c.head /\ b \notin c.db.index
  /\ Applies(c, b) /\ Linkable(c.db, b) /\ Arrives(b)
  /\ LET e == [c EXCEPT !.db = add(@, b)]
     IN  \/ c' = Applied(e, b) /\ UNCHANGED append_fails
         \/ /\ append_fails < MaxAppendFails
            /\ append_fails' = append_fails + 1
            /\ c' \in FailedApplies(e, b)
  /\ UNCHANGED <<invalid, creating, handles, task, lost_sync, quit>>

-------------------------------------------------------------------------------
\* Other threads.  A header is verified against its parent, and the block is added
\* if the parent is still there.
CreateBlock(b) ==
  /\ b # Genesis /\ b \notin creating
  /\ Linkable(c.db, b) /\ Arrives(b)
  /\ creating' = creating \cup {b}
  /\ UNCHANGED <<c, invalid, handles, task, lost_sync, quit, append_fails>>

AddBlock(b) ==
  /\ b \in creating
  /\ creating' = creating \ {b}
  /\ IF Linkable(c.db, b)
     THEN c' = [c EXCEPT !.db = add(@, b)] /\ handles' = handles \cup {b}
     ELSE UNCHANGED <<c, handles>>
  /\ UNCHANGED <<invalid, task, lost_sync, quit, arrived, repeats, append_fails>>

Quit ==
  /\ ~ quit
  /\ quit' = TRUE
  /\ UNCHANGED <<c, invalid, creating, handles, task, lost_sync, arrived, repeats, append_fails>>

MainThread == ApplyNext \/ ReapplyNext \/ SwitchForks

Next ==
  \/ MainThread
  \/ \E b \in Blk : PushBlock(b) \/ AcceptBlock(b) \/ Produce(b) \/ CreateBlock(b) \/ AddBlock(b)
  \/ Quit

\* The main thread runs, and its production loop starts blocks again and again: weak
\* fairness of MainThread, with the condition that enables it written out.
MainThreadCanRun == task # Idle \/ (Ready /\ c.head # head(c.db))

Spec == Init /\ [][Next]_vars /\ ([]<>(~ MainThreadCanRun) \/ []<><<MainThread>>_vars)

-------------------------------------------------------------------------------
\* The fork database holds one tree: no orphaned branch is in it (advance_root asserts
\* this), whatever is removed or made irreversible between the arrivals of blocks.
NoOrphans == \A b \in c.db.index : Linkable(c.db, b)

\* The chain head is never cut off: it is the root or in the fork database on a
\* branch of validated blocks from the root, so that a fork switch can pop to the root.
HeadIsOnValidatedBranch ==
  /\ get_block(c.db, c.head)
  /\ c.db.root \in Ancestry[c.head]
  /\ Ancestry[c.head] \ Ancestry[c.db.root] \subseteq c.db.valid

\* What becomes irreversible is final by a certificate: the root is on the branch of
\* the pending irreversible block, which never goes back behind it.
RootIsFinal == c.db.root \in Ancestry[c.db.pending]

\* start_block asserts that the chain database is at the head block; it is so after
\* every pop, failed block, fork switch and its reversal.
RevisionOnParWithHead == c.state = c.head

\* The two assertions of maybe_switch_forks on the fork database and the chain
\* database being in sync, which "_should_ never fail", do not.
NeverLosesSync == ~ lost_sync

\* log_irreversible asserts that the root is the head of the block log; it is so also
\* after an append failed half way through.
BlockLogEndsAtRoot == c.blog = c.db.root

\* When no more blocks come, the node ends up on the best branch of its fork database,
\* however many of the branches it tries turn out to be invalid (and unless a failed
\* append has left its database behind its head).
SettlesOnBestBranch == <>[](quit \/ append_fails > 0 \/ (task = Idle /\ c.head = head(c.db)))
===============================================================================
