-------------------------------- MODULE Restart --------------------------------
(***************************************************************************)
(* Stops, crashes and starts of the node of ForkSwitch.                    *)
(*                                                                         *)
(* A node that stops writes chain_head, then the fork database, and last   *)
(* its chain database is marked as clean.  A crash, or one of the writes   *)
(* that fails, leaves a chain database that the next start refuses; then   *)
(* it is deleted and the block log is replayed, with the fork database's   *)
(* file if it was written.  open removes the file.                         *)
(***************************************************************************)
EXTENDS ForkSwitch

CONSTANT MaxRestarts   \* bound: how often the node starts again

VARIABLE restarts

restart_vars == <<vars, restarts>>

RestartInit == Init /\ restarts = 0

-------------------------------------------------------------------------------
\* close_impl writes the worst of the blocks first.
Worst(S) == CHOOSE b \in S : \A a \in S \ {b} : IsBetter(a, b)

\* One more block of d's file is added to what was read so far; a block that is not
\* linkable throws, and none after it is read.
ReadNext(d, r) ==
  LET b == Worst(d.index \ r.index)
  IN  IF Linkable(r, b) THEN [add(r, b) EXCEPT !.valid = @ \cup ({b} \cap d.valid)] ELSE r

\* What open_impl reads back of the file: root and pending, and then the blocks.
Opened(d) ==
  LET n == Cardinality(d.index)
      read[i \in 0..n] == IF i = 0 THEN reset_root(d, d.root) ELSE ReadNext(d, read[i - 1])
  IN  read[n]

\* What a start finds: "existing": everything; "replay": the block log and the fork
\* database's file; "crashed": the block log.
Ways == {"existing", "replay", "crashed"}

\* Mutant: the last block of the log is not replayed.
Mut_replay_block_log(e) ==
  IF num[e.blog] > num[e.head]
  THEN [e EXCEPT !.head = previous[e.blog], !.state = previous[e.blog], !.committed = previous[e.blog]] ELSE e

\* replay_block_log: the blocks of the log above chain_head are applied and committed.
replay_block_log(e) ==
  IF num[e.blog] > num[e.head] THEN [e EXCEPT !.head = e.blog, !.state = e.blog, !.committed = e.blog] ELSE e

\* The chain when replay begins.  Without a file nothing is pending; Genesis is as good
\* as no block then, because nothing below it can become irreversible.
Found(way) ==
  LET fresh == [c EXCEPT !.head = Genesis, !.state = Genesis, !.committed = Genesis]
  IN  CASE way = "existing" -> [c EXCEPT !.db = Opened(@)]
        [] way = "replay"   -> [fresh EXCEPT !.db = Opened(@)]
        [] way = "crashed"  -> [fresh EXCEPT !.db = NewDb]

\* An empty fork database gets chain_head as its root.
RootIfEmpty(e) == IF e.db.index = {} THEN [e EXCEPT !.db = reset_root(@, e.head)] ELSE e

\* Before the block log is replayed this is done if the chain is replayed from genesis.
WithRoot(way, e) ==
  IF way # "existing" THEN RootIfEmpty(e) ELSE e

\* The block of the best branch that becomes the root after the block log was replayed
\* up to it.
NewRoot(e) == search_on_branch(e.db, head(e.db), num[e.head])

AdvancesRoot(e) ==
  e.db.index # {} /\ num[e.db.root] < num[e.head] /\ num[e.head] <= num[head(e.db)]

\* The root follows the blocks that were replayed from the block log.
RootMoved(e) ==
  IF AdvancesRoot(e)
  THEN LET b == CHOOSE b \in NewRoot(e) : TRUE
       IN  [e EXCEPT !.db = advance_root([@ EXCEPT !.valid = @ \cup {b}], b)]
  ELSE IF e.db.index = {} \/ num[e.head] = num[e.db.root] THEN e
  ELSE [e EXCEPT !.db = reset_root(@, e.head)]

LogIsAhead(way) == num[c.blog] > num[Found(way).head]

LogReplayed(way) ==
  LET e == WithRoot(way, replay_block_log(Found(way)))
  IN  IF LogIsAhead(way) THEN RootMoved(e) ELSE e

\* The reversible blocks that are replayed: the validated ones at the beginning of the
\* best branch with higher numbers than chain_head.
Reversible(e) ==
  LET branch == Walk(e.db.index, head(e.db))
  IN  {b \in branch : num[b] > num[e.head] /\ \A a \in branch : num[a] <= num[b] => a \in e.db.valid}

\* The same, oldest first.
ToReplay(e) == BranchAbove(Highest(Reversible(e), e.head), num[e.head])

\* replay_push_block, of a block that is built on chain_head
replay_push_block(e, b) == Applied([e EXCEPT !.db = add(@, b)], b)

\* It is called for one block after the other.
Pushed(e, todo) ==
  LET after[i \in 0..Len(todo)] == IF i = 0 THEN e ELSE replay_push_block(after[i - 1], todo[i])
  IN  after[Len(todo)]

Replayed(e) == RootIfEmpty(Pushed(e, ToReplay(e)))

Started(way) == Replayed(LogReplayed(way))

\* The assertions of startup and replay, and of block_header_state::next for the first
\* block that is replayed: it is built on chain_head.
Starts(way) ==
  LET e == LogReplayed(way)
      f == WithRoot(way, replay_block_log(Found(way)))
  IN  /\ way = "existing" => c.state = c.head
      /\ way = "existing" /\ ~ LogIsAhead(way) => num[e.db.root] <= num[c.blog]
      /\ LogIsAhead(way) => Found(way).head \in Ancestry[c.blog] /\ (AdvancesRoot(f) => NewRoot(f) # {})
      /\ \A b \in Reversible(e) : num[b] = num[e.head] + 1 => previous[b] = e.head

Stopped == quit /\ task = Idle

\* The blocks that the node no longer has may come again.  finish_init then moves to the
\* best branch in the same steps as SwitchForks.
RestartNode(way) ==
  /\ restarts < MaxRestarts /\ restarts' = restarts + 1
  /\ way # "crashed" => Stopped
  /\ Starts(way)
  /\ c' = Started(way)
  /\ creating' = {} /\ handles' = {} /\ task' = Idle /\ quit' = FALSE
  /\ arrived' = arrived \cap (c'.db.index \cup Ancestry[c'.db.root])
  /\ UNCHANGED <<invalid, lost_sync, repeats, append_fails>>

RestartNext ==
  \/ Next /\ UNCHANGED restarts
  \/ \E way \in Ways : RestartNode(way)

RestartSpec ==
  RestartInit /\ [][RestartNext]_restart_vars /\ ([]<>(~ MainThreadCanRun) \/ []<><<MainThread>>_restart_vars)

-------------------------------------------------------------------------------
\* The best branch has validated blocks above the number of chain_head, which is not on
\* it: the node left that branch for a shorter one that was better at the time, and
\* stopped before it returned.  replay builds those blocks on chain_head.
LeftLongerBranch == \E b \in Reversible(c) : c.head \notin Ancestry[b]

\* A start that ends with e loses no irreversible block, nor validated blocks of the
\* branch it wrote: the block log ends at the root, the chain database is at chain_head,
\* and chain_head is on a validated branch.
RecoveredBy(way, e) ==
  /\ e.blog = e.db.root /\ e.state = e.head
  /\ c.blog \in Ancestry[e.blog] /\ e.db.root \in Ancestry[e.head]
  /\ Ancestry[e.head] \ Ancestry[e.db.root] \subseteq e.db.valid
  /\ way = "existing" => c.head \in Ancestry[e.head]
  /\ way = "replay" /\ c.head \in c.db.valid \cap Ancestry[head(c.db)] => c.head \in Ancestry[e.head]

\* The start succeeds, and that is what it does.
Recovers(way) == Starts(way) /\ RecoveredBy(way, Started(way))

\* Whatever the node does when it crashes, a replay recovers it (startup, replay).  After
\* a stop the fork database is read back as it was, every block after the block it is
\* built on, and a replay recovers the node; and so does a start with all its files,
\* unless a failed append left its database behind its head or it left a longer branch.
StartRecovers ==
  /\ Recovers("crashed")
  /\ Stopped => /\ Opened(c.db) = c.db
                /\ Recovers("replay")
                /\ c.state = c.head /\ ~ LeftLongerBranch => Recovers("existing")
===============================================================================
