----------------------------- MODULE VoteProcessor -----------------------------
(***************************************************************************)
(* The threads between the network and the blocks' vote aggregation        *)
(* (vote_processor_t, with the admission limits of vote_admission).  A     *)
(* vote whose block is not known yet is kept in index and looked at again  *)
(* when a block arrives.  mtx is released while a block is fetched and a   *)
(* vote aggregated, so passes over index overlap.                          *)
(*                                                                         *)
(* A message is a record [nr, conn, block]; conn 0 is this node.  A block  *)
(* is its number.  A pass over index may take the messages in any order    *)
(* (the code: the first received first).  last_bsp only saves fetching the *)
(* same block twice: all it changes is how long a block is found.          *)
(***************************************************************************)
EXTENDS Integers, Sequences, FiniteSets, Functions

CONSTANTS
  Msg,            \* the votes that may arrive
  Blocks,         \* the blocks that may arrive
  Worker,         \* threads of thread_pool
  LocalWorker,    \* the thread of local_thread_pool
  global_limit, peer_limit, local_limit

ASSUME LimitAssumption == global_limit \in Nat /\ peer_limit \in Nat /\ local_limit \in Nat
ASSUME MsgAssumption   == Msg \subseteq [nr : Nat \ {0}, conn : Nat, block : Nat] /\ Blocks \subseteq Nat

VARIABLES
  known,                 \* blocks in the fork database
  added,                 \* those of them whose notify_new_block is still to come
  lib,
  stopped,
  queue, local_queue,    \* posted tasks: a message, or Notify
  thread,                \* what each thread does
  index,
  too_old,               \* messages deferred longer ago than too_old
  notification_pending,
  arrived, aggregated    \* messages admitted, and messages aggregated

vars == <<known, added, lib, stopped, queue, local_queue, thread, index, too_old, notification_pending,
          arrived, aggregated>>

Thread == Worker \cup {LocalWorker}
NoMsg  == [nr |-> 0, conn |-> 0, block |-> 0]
Notify == [nr |-> -1, conn |-> 0, block |-> 0]

\* at: where the thread is; msg: the message of its task; v: the message of its pass
\* over index; unprocessed: those its pass found no block for.
At(place, msg, v, unprocessed) == [at |-> place, msg |-> msg, v |-> v, unprocessed |-> unprocessed]
Idle == At("idle", NoMsg, NoMsg, {})

Init ==
  /\ known = {} /\ added = {} /\ lib = 0 /\ stopped = FALSE
  /\ queue = <<>> /\ local_queue = <<>>
  /\ thread = [t \in Thread |-> Idle]
  /\ index = {} /\ too_old = {}
  /\ notification_pending = FALSE
  /\ arrived = {} /\ aggregated = {}

-------------------------------------------------------------------------------
\* A reservation lives as long as a copy of its ticket: in a posted task, in the
\* task a thread executes, in its pass, or in index.
HeldBy(t) == {thread[t].msg, thread[t].v} \cup thread[t].unprocessed
Held == (Range(queue) \cup Range(local_queue) \cup index \cup UNION {HeldBy(t) : t \in Thread}) \cap Msg

FromPeer(c) == {m \in Held : m.conn = c}
Remote      == {m \in Held : m.conn # 0}

\* vote_admission::acquire
acquire(c) ==
  IF c = 0 THEN Cardinality(FromPeer(0)) < local_limit
  ELSE Cardinality(Remote) < global_limit /\ Cardinality(FromPeer(c)) < peer_limit

\* Mutant: every new block posts a notification.
Mut_notify_new_block ==
  IF stopped THEN UNCHANGED <<queue, notification_pending>>
  ELSE queue' = Append(queue, Notify) /\ notification_pending' = TRUE

\* notify_new_block: at most one notification is posted at a time.
notify_new_block ==
  IF stopped \/ notification_pending THEN UNCHANGED <<queue, notification_pending>>
  ELSE queue' = Append(queue, Notify) /\ notification_pending' = TRUE

\* Mutant: local votes are posted behind the remote ones.
Mut_Post(m) == queue' = Append(queue, m) /\ UNCHANGED local_queue

Post(m) ==
  IF m.conn = 0 THEN local_queue' = Append(local_queue, m) /\ UNCHANGED queue
  ELSE queue' = Append(queue, m) /\ UNCHANGED local_queue

\* process_vote_message
Receive(m) ==
  /\ ~ stopped /\ m \notin arrived /\ m.block > lib /\ acquire(m.conn)
  /\ arrived' = arrived \cup {m}
  /\ Post(m)
  /\ UNCHANGED <<known, added, lib, stopped, thread, index, too_old, notification_pending, aggregated>>

\* Mutant: an overload is only logged.
Mut_RejectOnly(m) == ~ stopped /\ m \notin arrived /\ ~ acquire(m.conn) /\ UNCHANGED vars

\* An overload that is noticed; the others within a second of it change nothing here.
Reject(m) ==
  /\ ~ stopped /\ m \notin arrived /\ m.block > lib /\ ~ acquire(m.conn)
  /\ notify_new_block
  /\ UNCHANGED <<known, added, lib, stopped, local_queue, thread, index, too_old, arrived, aggregated>>

-------------------------------------------------------------------------------
\* remove_before_lib and remove_too_old
Purged == {m \in index : m.block > lib /\ m \notin too_old}

\* A thread takes the next task of its pool.
StartVote(t, m) ==
  /\ thread' = [thread EXCEPT ![t] = IF stopped \/ m.block <= lib THEN Idle ELSE At("fetch", m, NoMsg, {})]
  /\ UNCHANGED <<index, notification_pending>>

\* process_any_queued_for_later, up to the first message
PassState(t) ==
  IF index = {} THEN Idle ELSE At("pass", thread[t].msg, NoMsg, {})

StartPass(t) ==
  /\ thread' = [thread EXCEPT ![t] = PassState(t)]
  /\ index' = Purged

StartNotified(t) ==
  /\ notification_pending' = FALSE
  /\ IF stopped THEN UNCHANGED <<thread, index>> ELSE StartPass(t)

StartTask(t) ==
  /\ thread[t] = Idle
  /\ \/ /\ t \in Worker /\ queue # <<>>
        /\ queue' = Tail(queue) /\ UNCHANGED local_queue
        /\ IF Head(queue) = Notify THEN StartNotified(t) ELSE StartVote(t, Head(queue))
     \/ /\ t = LocalWorker /\ local_queue # <<>>
        /\ local_queue' = Tail(local_queue) /\ UNCHANGED queue
        /\ StartVote(t, Head(local_queue))
  /\ UNCHANGED <<known, added, lib, stopped, too_old, arrived, aggregated>>

\* get_block, with mtx released.  A block that became irreversible is found until the
\* root of the fork database advances, and as last_bsp.
Found(b) == IF b \notin known THEN {FALSE} ELSE IF b > lib THEN {TRUE} ELSE BOOLEAN

Fetch(t) ==
  /\ thread[t].at = "fetch"
  /\ \E found \in Found(thread[t].msg.block) :
       thread' = [thread EXCEPT ![t].at = IF found THEN "aggregate" ELSE "defer"]
  /\ UNCHANGED <<known, added, lib, stopped, queue, local_queue, index, too_old, notification_pending,
                 arrived, aggregated>>

\* queue_for_later
Defer(t) ==
  /\ thread[t].at = "defer"
  /\ index' = Purged \cup {thread[t].msg}
  /\ thread' = [thread EXCEPT ![t] = Idle]
  /\ UNCHANGED <<known, added, lib, stopped, queue, local_queue, too_old, notification_pending, arrived,
                 aggregated>>

\* The vote is aggregated, then a remote vote's thread makes a pass over index and
\* the local thread has one posted.
Aggregate(t) ==
  /\ thread[t].at = "aggregate"
  /\ aggregated' = aggregated \cup {thread[t].msg}
  /\ IF thread[t].msg.conn = 0
     THEN /\ notify_new_block
          /\ thread' = [thread EXCEPT ![t] = Idle]
          /\ UNCHANGED index
     ELSE StartPass(t) /\ UNCHANGED <<queue, notification_pending>>
  /\ UNCHANGED <<known, added, lib, stopped, local_queue, too_old, arrived>>

-------------------------------------------------------------------------------
\* Mutant: the message stays in index while it is processed.
Mut_PassIndex(v) == index

\* The message is erased before mtx is released.
PassIndex(v) == index \ {v}

\* Mutant: messages whose block is not known yet are forgotten by the pass.
Mut_Reinserted(t) == index

Reinserted(t) == index \cup thread[t].unprocessed

PassNext(t) ==
  /\ thread[t].at = "pass"
  /\ \/ /\ index = {}
        /\ index' = Reinserted(t)
        /\ thread' = [thread EXCEPT ![t] = Idle]
     \/ /\ index # {} /\ stopped
        /\ thread' = [thread EXCEPT ![t] = Idle]
        /\ UNCHANGED index
     \/ /\ ~ stopped
        /\ \E v \in index :
             /\ thread' = [thread EXCEPT ![t].at = "pass_fetch", ![t].v = v]
             /\ index' = PassIndex(v)
  /\ UNCHANGED <<known, added, lib, stopped, queue, local_queue, too_old, notification_pending, arrived,
                 aggregated>>

PassFetch(t) ==
  /\ thread[t].at = "pass_fetch"
  /\ \E found \in Found(thread[t].v.block) :
       thread' = [thread EXCEPT ![t] =
                    IF found THEN [thread[t] EXCEPT !.at = "pass_aggregate"]
                    ELSE At("pass", thread[t].msg, NoMsg, thread[t].unprocessed \cup {thread[t].v})]
  /\ UNCHANGED <<known, added, lib, stopped, queue, local_queue, index, too_old, notification_pending,
                 arrived, aggregated>>

PassAggregate(t) ==
  /\ thread[t].at = "pass_aggregate"
  /\ aggregated' = aggregated \cup {thread[t].v}
  /\ thread' = [thread EXCEPT ![t].at = "pass", ![t].v = NoMsg]
  /\ UNCHANGED <<known, added, lib, stopped, queue, local_queue, index, too_old, notification_pending, arrived>>

-------------------------------------------------------------------------------
\* A block is added to the fork database on top of its predecessors, and then notified.
AddBlock(b) ==
  /\ b \notin known /\ \A a \in Blocks : lib < a /\ a < b => a \in known
  /\ known' = known \cup {b} /\ added' = added \cup {b}
  /\ UNCHANGED <<lib, stopped, queue, local_queue, thread, index, too_old, notification_pending, arrived,
                 aggregated>>

NotifyNewBlock(b) ==
  /\ b \in added
  /\ added' = added \ {b}
  /\ notify_new_block
  /\ UNCHANGED <<known, lib, stopped, local_queue, thread, index, too_old, arrived, aggregated>>

notify_lib(b) ==
  /\ b \in known /\ b > lib
  /\ lib' = b
  /\ UNCHANGED <<known, added, stopped, queue, local_queue, thread, index, too_old, notification_pending,
                 arrived, aggregated>>

Deferred == index \cup UNION {{thread[t].v} \cup thread[t].unprocessed : t \in Thread}

Age(m) ==
  /\ m \in Deferred \ too_old
  /\ too_old' = too_old \cup {m}
  /\ UNCHANGED <<known, added, lib, stopped, queue, local_queue, thread, index, notification_pending, arrived,
                 aggregated>>

\* The controller shuts down.
Stop ==
  /\ ~ stopped
  /\ stopped' = TRUE
  /\ UNCHANGED <<known, added, lib, queue, local_queue, thread, index, too_old, notification_pending, arrived,
                 aggregated>>

ThreadStep(t) ==
  StartTask(t) \/ Fetch(t) \/ Defer(t) \/ Aggregate(t) \/ PassNext(t) \/ PassFetch(t) \/ PassAggregate(t)

Next ==
  \/ \E m \in Msg : Receive(m) \/ Reject(m) \/ Age(m)
  \/ \E t \in Thread : ThreadStep(t)
  \/ \E b \in Blocks : AddBlock(b) \/ NotifyNewBlock(b) \/ notify_lib(b)
  \/ Stop

\* The local worker runs: nothing else uses its pool.
Spec == Init /\ [][Next]_vars /\ WF_vars(ThreadStep(LocalWorker))

\* Weak fairness of actions, with the conditions that enable most of them written out.
WorkersRun == \A t \in Worker : []<>(thread[t] = Idle /\ queue = <<>>) \/ []<><<ThreadStep(t)>>_vars
TimePasses == \A m \in Msg : []<>(m \notin Deferred \ too_old) \/ []<><<Age(m)>>_vars
VotesAreSentAgain == \A m \in Msg : WF_vars(Reject(m))

\* The remote threads may be busy verifying for as long as remote votes keep coming.
\* When they are not, they run; time passes; a peer whose vote is rejected sends again.
RemoteFairness == WorkersRun /\ TimePasses /\ VotesAreSentAgain

-------------------------------------------------------------------------------
Place == {"idle", "fetch", "defer", "aggregate", "pass", "pass_fetch", "pass_aggregate"}

\* The fork database holds the blocks that arrived, each thread is at a place of the
\* code with the messages that place has, and a notification that is pending is in
\* the queue of thread_pool exactly once.
TypeOK ==
  /\ added \subseteq known /\ known \subseteq Blocks
  /\ lib \in {0} \cup known
  /\ \A t \in Thread :
       /\ thread[t].at \in Place
       /\ thread[t].at \in {"fetch", "defer", "aggregate"} => thread[t].msg \in Msg
       /\ thread[t].v \in Msg <=> thread[t].at \in {"pass_fetch", "pass_aggregate"}
  /\ Cardinality({i \in 1..Len(queue) : queue[i] = Notify}) = IF notification_pending THEN 1 ELSE 0
  /\ index \cup too_old \cup aggregated \subseteq arrived /\ arrived \subseteq Msg

\* The reservations cover queued, executing and deferred votes: whatever the threads do
\* with a vote while mtx is released, it is never lost: it is still held, or aggregated,
\* or too old, or of a block that is irreversible.
NoVoteVanishes ==
  ~ stopped => \A m \in arrived : m \in Held \cup aggregated \cup too_old \/ m.block <= lib

\* A vote is aggregated by one thread, once: it is in no other queue, pass or task
\* that would aggregate it again.
AggregatedOnce ==
  \A m \in aggregated :
    /\ m \notin Range(queue) \cup Range(local_queue) \cup index
    /\ \A t \in Thread :
         /\ m # thread[t].v /\ m \notin thread[t].unprocessed
         /\ m = thread[t].msg => thread[t].at \in {"pass", "pass_fetch", "pass_aggregate"}

\* A local vote is never behind the remote votes: once posted it is aggregated if its
\* block is known, even if no remote thread makes progress.
LocalVotesAreNotBlocked ==
  \A m \in Msg :
    (m.conn = 0 /\ m \in Range(queue) \cup Range(local_queue) /\ m.block \in known)
      ~> (m \in aggregated \/ m.block <= lib \/ stopped)

\* Full admission does not last: deferred votes expire and give their places back, also
\* when no block arrives, because rejected votes have them looked at (RemoteFairness).
CapacityReturns ==
  RemoteFairness =>
    \A m \in Msg :
      (m \notin arrived /\ ~ acquire(m.conn)) ~> (acquire(m.conn) \/ m.block <= lib \/ stopped)

\* No wakeup is lost (the comment in notify_new_block): when every thread is idle and
\* no notification is due, no deferred vote waits for a block that is already there.
NoWakeupIsLost ==
  (~ stopped /\ added = {} /\ queue = <<>> /\ local_queue = <<>> /\ \A t \in Thread : thread[t] = Idle)
    => \A m \in Purged : m.block \notin known
===============================================================================
