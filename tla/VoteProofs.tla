------------------------------ MODULE VoteProofs ------------------------------
(***************************************************************************)
(* The votes in vote_processor_t, for any messages, blocks, threads and    *)
(* limits: every vote is in one place, so it is aggregated once; none      *)
(* vanishes; and the votes held stay within the limits of vote_admission.  *)
(***************************************************************************)
EXTENDS VoteProcessor, FiniteSetTheorems, TLAPS

\* Most leaves are pure logic: Zenon is asked first, the SMT solver what it leaves open,
\* and Zenon once more when both ran out of time.
USE ZenonT(5), SMTT(60), ZenonT(60)

-------------------------------------------------------------------------------
(* Queues without duplicates.                                                *)

Distinct(s) == \A i, j \in 1..Len(s) : s[i] = s[j] => i = j

\* A task is posted.
LEMMA Posted ==
  ASSUME NEW S, NEW s \in Seq(S), NEW e \in S
  PROVE  /\ Append(s, e) \in Seq(S)
         /\ Range(Append(s, e)) = Range(s) \cup {e}
         /\ Distinct(s) /\ e \notin Range(s) => Distinct(Append(s, e))
<1> DEFINE n == Append(s, e)
<1>1. /\ n \in Seq(S) /\ Len(s) \in Nat /\ Len(n) = Len(s) + 1 /\ DOMAIN n = 1..Len(n) /\ DOMAIN s = 1..Len(s)
      /\ n[Len(s) + 1] = e /\ \A i \in 1..Len(s) : n[i] = s[i]
  OBVIOUS
<1> HIDE DEF n
<1>2. Range(n) = Range(s) \cup {e}
  <2>1. Range(n) \subseteq Range(s) \cup {e}
    BY <1>1 DEF Range
  <2>2. Range(s) \subseteq Range(n)
    BY <1>1 DEF Range
  <2>3. e \in Range(n)
    BY <1>1 DEF Range
  <2> QED BY <2>1, <2>2, <2>3
<1>3. ASSUME Distinct(s), e \notin Range(s) PROVE Distinct(n)
  <2>1. \A i \in 1..Len(s) : s[i] # e
    BY <1>1, <1>3 DEF Range
  <2> QED BY <1>1, <1>3, <2>1 DEF Distinct
<1> QED BY <1>1, <1>2, <1>3 DEF n

\* A task is taken.
LEMMA Taken ==
  ASSUME NEW S, NEW s \in Seq(S), s # <<>>, Distinct(s)
  PROVE  /\ Tail(s) \in Seq(S) /\ Head(s) \in S
         /\ Head(s) \in Range(s)
         /\ Range(Tail(s)) = Range(s) \ {Head(s)}
         /\ Distinct(Tail(s))
<1> DEFINE n == Tail(s)
<1>1. /\ n \in Seq(S) /\ Len(s) \in Nat /\ Len(s) > 0 /\ Len(n) = Len(s) - 1
      /\ DOMAIN n = 1..Len(n) /\ DOMAIN s = 1..Len(s)
      /\ Head(s) = s[1] /\ Head(s) \in S /\ \A i \in 1..Len(n) : n[i] = s[i + 1]
  OBVIOUS
<1> HIDE DEF n
<1>2. Head(s) \in Range(s)
  BY <1>1 DEF Range
<1>3. Range(n) = Range(s) \ {Head(s)}
  <2>1. Range(n) \subseteq Range(s) \ {Head(s)}
    <3> SUFFICES ASSUME NEW i \in 1..Len(n) PROVE n[i] \in Range(s) /\ n[i] # Head(s)
      BY <1>1 DEF Range
    <3>1. i + 1 \in 1..Len(s) /\ 1 \in 1..Len(s) /\ i + 1 # 1
      BY <1>1
    <3> QED BY <1>1, <3>1 DEF Range, Distinct
  <2>2. Range(s) \ {Head(s)} \subseteq Range(n)
    <3> SUFFICES ASSUME NEW i \in 1..Len(s), s[i] # Head(s) PROVE s[i] \in Range(n)
      BY <1>1 DEF Range
    <3>1. i - 1 \in 1..Len(n) /\ (i - 1) + 1 = i
      BY <1>1
    <3>2. n[i - 1] = s[i]
      BY <1>1, <3>1
    <3> QED BY <1>1, <3>1, <3>2 DEF Range
  <2> QED BY <2>1, <2>2
<1>4. Distinct(n)
  <2> SUFFICES ASSUME NEW i \in 1..Len(n), NEW j \in 1..Len(n), n[i] = n[j] PROVE i = j
    BY DEF Distinct
  <2>1. i + 1 \in 1..Len(s) /\ j + 1 \in 1..Len(s) /\ s[i + 1] = s[j + 1]
    BY <1>1
  <2>2. i + 1 = j + 1
    BY <2>1 DEF Distinct
  <2> QED BY <2>2
<1> QED BY <1>1, <1>2, <1>3, <1>4 DEF n

-------------------------------------------------------------------------------
(* Every vote is in one place.                                               *)

Handling == {"fetch", "defer", "aggregate"}
Passing  == {"pass", "pass_fetch", "pass_aggregate"}

ThreadState ==
  [at : Place, msg : Msg \cup {NoMsg}, v : Msg \cup {NoMsg}, unprocessed : SUBSET Msg]

\* The votes that a thread has and may still aggregate, by its state.
OwnOf(r) == IF r.at \in Handling THEN {r.msg} ELSE ({r.v} \cap Msg) \cup r.unprocessed

\* A thread without a task has no vote; one that handles a vote has no other; and a
\* pass was started for no vote, or for one that is in A, aggregated.
StateOK(r, A) ==
  /\ r \in ThreadState
  /\ r.at = "idle" => r = Idle
  /\ r.at \in Handling => r.msg \in Msg /\ r.v = NoMsg /\ r.unprocessed = {}
  /\ r.at \in Passing => r.msg \in A \cup {NoMsg}
  /\ r.v \in Msg <=> r.at \in {"pass_fetch", "pass_aggregate"}
  /\ r.v \notin r.unprocessed

Posts == Range(queue) \cap Msg
Locals == Range(local_queue)

\* The places outside of the threads, with O the votes of a thread.
Apart(Q, L, I, A, O) ==
  /\ Q \cap L = {} /\ (Q \cup L) \cap I = {} /\ (Q \cup L \cup I) \cap A = {}
  /\ (Q \cup L \cup I \cup A) \cap O = {}

OnePlace ==
  /\ \A t \in Thread : Apart(Posts, Locals, index, aggregated, OwnOf(thread[t]))
  /\ \A t, u \in Thread : t # u => OwnOf(thread[t]) \cap OwnOf(thread[u]) = {}

Shared == Posts \cup Locals \cup index \cup aggregated

AllArrived ==
  /\ Shared \subseteq arrived
  /\ \A t \in Thread : OwnOf(thread[t]) \subseteq arrived

\* A vote that is in no place was too old or of an irreversible block.
Kept ==
  ~ stopped => \A m \in arrived : m \in Shared \/ (\E t \in Thread : m \in OwnOf(thread[t]))
                                  \/ m \in too_old \/ m.block <= lib

Types ==
  /\ known \subseteq Blocks /\ added \subseteq known /\ lib \in {0} \cup known /\ lib \in Nat
  /\ stopped \in BOOLEAN /\ notification_pending \in BOOLEAN
  /\ queue \in Seq(Msg \cup {Notify}) /\ Distinct(queue)
  /\ Notify \in Range(queue) <=> notification_pending
  /\ local_queue \in Seq(Msg) /\ Distinct(local_queue)
  /\ too_old \subseteq arrived /\ arrived \subseteq Msg

VoteInv ==
  /\ Types
  /\ thread \in [Thread -> ThreadState] /\ \A t \in Thread : StateOK(thread[t], aggregated)
  /\ OnePlace
  /\ AllArrived
  /\ Kept

\* No message is one of the records that stand for no message and a notification.
LEMMA NotMessages ==
  /\ NoMsg \notin Msg /\ Notify \notin Msg /\ NoMsg # Notify
  /\ \A m \in Msg : m.block \in Nat /\ m.conn \in Nat
BY MsgAssumption DEF NoMsg, Notify

\* A step in which votes move between the shared places and one thread t, whose state
\* becomes r, and New votes arrive.
LEMMA Moves ==
  ASSUME VoteInv, NEW t \in Thread, NEW r, NEW New \in SUBSET Msg,
         New \cap arrived = {}, arrived' = arrived \cup New,
         thread' = [thread EXCEPT ![t] = r], StateOK(r, aggregated'),
         Types',
         aggregated \subseteq aggregated', too_old \subseteq too_old', lib <= lib', stopped => stopped',
         Apart(Posts', Locals', index', aggregated', OwnOf(r)),
         Shared' \cup OwnOf(r) \subseteq Shared \cup OwnOf(thread[t]) \cup New,
         ~ stopped' => \A m \in Shared \cup OwnOf(thread[t]) \cup New :
                         m \in Shared' \cup OwnOf(r) \/ m \in too_old \/ m.block <= lib
  PROVE  VoteInv'
<1>1. thread \in [Thread -> ThreadState]
  BY DEF VoteInv
<1>2. thread'[t] = r /\ \A u \in Thread : u # t => thread'[u] = thread[u]
  BY <1>1
<1>3. r \in ThreadState
  BY DEF StateOK
<1>4. thread' \in [Thread -> ThreadState]
  BY <1>1, <1>3
<1>5. \A u \in Thread : StateOK(thread'[u], aggregated')
  <2> SUFFICES ASSUME NEW u \in Thread, u # t PROVE StateOK(thread'[u], aggregated')
    BY <1>2
  <2>1. StateOK(thread[u], aggregated)
    BY DEF VoteInv
  <2>2. thread'[u] = thread[u]
    BY <1>2
  <2> QED BY <2>1, <2>2 DEF StateOK
<1>6. PICK O, P : O = OwnOf(thread[t]) /\ P = OwnOf(r)
  OBVIOUS
<1>7. \A u \in Thread : u # t => /\ OwnOf(thread'[u]) = OwnOf(thread[u])
                                 /\ OwnOf(thread[u]) \cap O = {} /\ OwnOf(thread[u]) \cap Shared = {}
                                 /\ OwnOf(thread[u]) \cap New = {}
  <2> SUFFICES ASSUME NEW u \in Thread, u # t
               PROVE /\ OwnOf(thread'[u]) = OwnOf(thread[u])
                     /\ OwnOf(thread[u]) \cap O = {} /\ OwnOf(thread[u]) \cap Shared = {}
                     /\ OwnOf(thread[u]) \cap New = {}
    OBVIOUS
  <2>1. OwnOf(thread'[u]) = OwnOf(thread[u])
    BY <1>2
  <2>2. OwnOf(thread[u]) \cap O = {}
    BY <1>6 DEF VoteInv, OnePlace
  <2>3. OwnOf(thread[u]) \cap Shared = {}
    BY DEF VoteInv, OnePlace, Apart, Shared
  <2>4. OwnOf(thread[u]) \cap New = {}
    BY DEF VoteInv, AllArrived
  <2> QED BY <2>1, <2>2, <2>3, <2>4
<1>8. Shared' \subseteq Shared \cup O \cup New /\ P \subseteq Shared \cup O \cup New
  BY <1>6
<1>9. OnePlace'
  <2>1. \A u \in Thread : Apart(Posts', Locals', index', aggregated', OwnOf(thread'[u]))
    <3> SUFFICES ASSUME NEW u \in Thread, u # t PROVE Apart(Posts', Locals', index', aggregated', OwnOf(thread'[u]))
      BY <1>2
    <3>1. OwnOf(thread'[u]) \cap Shared' = {}
      BY <1>7, <1>8
    <3> QED BY <3>1 DEF Apart, Shared
  <2>2. \A u, w \in Thread : u # w => OwnOf(thread'[u]) \cap OwnOf(thread'[w]) = {}
    <3> SUFFICES ASSUME NEW u \in Thread, NEW w \in Thread, u # w
                 PROVE  OwnOf(thread'[u]) \cap OwnOf(thread'[w]) = {}
      OBVIOUS
    <3>1. CASE u # t /\ w # t
      BY <1>7, <3>1 DEF VoteInv, OnePlace
    <3>2. CASE u = t
      BY <1>2, <1>6, <1>7, <1>8, <3>2
    <3>3. CASE w = t
      BY <1>2, <1>6, <1>7, <1>8, <3>3
    <3> QED BY <3>1, <3>2, <3>3
  <2> QED BY <2>1, <2>2 DEF OnePlace
<1>10. AllArrived'
  <2>1. Shared \cup O \cup New \subseteq arrived'
    BY <1>6 DEF VoteInv, AllArrived
  <2>2. \A u \in Thread : OwnOf(thread'[u]) \subseteq arrived'
    BY <1>2, <1>6, <1>7, <1>8, <2>1 DEF VoteInv, AllArrived
  <2> QED BY <1>8, <2>1, <2>2 DEF AllArrived
<1>11. Kept'
  <2> SUFFICES ASSUME ~ stopped', NEW m \in arrived',
                      ~ (m \in Shared' \/ m \in too_old' \/ m.block <= lib')
               PROVE  \E u \in Thread : m \in OwnOf(thread'[u])
    BY DEF Kept
  <2>1. m \in Msg /\ m.block \in Nat /\ lib \in Nat /\ lib' \in Nat
    BY NotMessages DEF VoteInv, Types
  <2>2. ~ (m.block <= lib) /\ m \notin too_old
    BY <2>1
  <2>3. m \in Shared \cup O \cup New \/ \E u \in Thread : u # t /\ m \in OwnOf(thread[u])
    BY <1>6, <2>2 DEF VoteInv, Kept
  <2>4. CASE m \in Shared \cup O \cup New
    BY <1>2, <1>6, <2>2, <2>4
  <2>5. CASE \E u \in Thread : u # t /\ m \in OwnOf(thread[u])
    BY <1>7, <2>5
  <2> QED BY <2>3, <2>4, <2>5
<1> QED BY <1>4, <1>5, <1>9, <1>10, <1>11 DEF VoteInv

\* The same when nothing arrives, passes or stops.
LEMMA ThreadMoves ==
  ASSUME VoteInv, NEW t \in Thread, NEW r,
         UNCHANGED <<known, added, lib, stopped, too_old, arrived>>,
         thread' = [thread EXCEPT ![t] = r], StateOK(r, aggregated'),
         Types', aggregated \subseteq aggregated',
         Apart(Posts', Locals', index', aggregated', OwnOf(r)),
         Shared' \cup OwnOf(r) \subseteq Shared \cup OwnOf(thread[t]),
         ~ stopped => \A m \in Shared \cup OwnOf(thread[t]) :
                        m \in Shared' \cup OwnOf(r) \/ m \in too_old \/ m.block <= lib
  PROVE  VoteInv'
<1>1. lib <= lib'
  BY DEF VoteInv, Types
<1>2. PICK New \in SUBSET Msg : New = {}
  OBVIOUS
<1>3. New \cap arrived = {} /\ arrived' = arrived \cup New
  BY <1>2
<1>4. Shared' \cup OwnOf(r) \subseteq Shared \cup OwnOf(thread[t]) \cup New
  BY <1>2
<1>5. ~ stopped' => \A m \in Shared \cup OwnOf(thread[t]) \cup New :
                      m \in Shared' \cup OwnOf(r) \/ m \in too_old \/ m.block <= lib
  BY <1>2
<1> QED BY <1>1, <1>3, <1>4, <1>5, Moves

\* The queues and the notification stay.
LEMMA QueuesStay ==
  ASSUME VoteInv, UNCHANGED <<known, added, lib, stopped, too_old, arrived, queue, local_queue, notification_pending>>
  PROVE  Types' /\ Posts' = Posts /\ Locals' = Locals
BY DEF VoteInv, Types, Posts, Locals

\* What the invariant says of thread t.
LEMMA ThreadFacts ==
  ASSUME VoteInv, NEW t \in Thread
  PROVE  /\ StateOK(thread[t], aggregated) /\ thread[t] \in ThreadState
         /\ Apart(Posts, Locals, index, aggregated, OwnOf(thread[t]))
         /\ Posts \subseteq Msg /\ Locals \subseteq Msg /\ index \subseteq Msg /\ aggregated \subseteq Msg
BY DEF VoteInv, OnePlace, AllArrived, Types, Shared, StateOK

\* A thread that is done has no vote.
LEMMA IdleFacts == OwnOf(Idle) = {} /\ \A A : StateOK(Idle, A)
BY NotMessages DEF StateOK, ThreadState, OwnOf, Idle, At, Handling, Passing, Place

\* What remove_before_lib and remove_too_old leave in index.
LEMMA PurgedFacts ==
  ASSUME VoteInv
  PROVE  Purged \subseteq index /\ \A m \in index : m \in Purged \/ m \in too_old \/ m.block <= lib
BY NotMessages DEF Purged, VoteInv, Types, AllArrived, Shared

\* get_block for the vote of a task.
LEMMA FetchStep ==
  ASSUME VoteInv, NEW t \in Thread, Fetch(t)
  PROVE  VoteInv'
<1>1. UNCHANGED <<known, added, lib, stopped, queue, local_queue, index, too_old, notification_pending, arrived, aggregated>>
  BY DEF Fetch
<1>2. Types' /\ Posts' = Posts /\ Locals' = Locals
  BY <1>1, QueuesStay
<1>3. PICK place \in {"aggregate", "defer"} : thread' = [thread EXCEPT ![t].at = place]
  BY DEF Fetch
<1>4. PICK r : r = [thread[t] EXCEPT !.at = place]
  OBVIOUS
<1>5. thread' = [thread EXCEPT ![t] = r]
  BY <1>3, <1>4
<1>6. thread[t].at = "fetch" /\ StateOK(thread[t], aggregated)
  BY ThreadFacts DEF Fetch
<1>7. /\ StateOK(r, aggregated) /\ OwnOf(r) = OwnOf(thread[t])
  BY <1>3, <1>4, <1>6 DEF StateOK, ThreadState, OwnOf, Handling, Passing, Place
<1>8. Apart(Posts', Locals', index', aggregated', OwnOf(r)) /\ Shared' = Shared
  BY <1>1, <1>2, <1>7, ThreadFacts DEF Shared
<1> QED BY <1>1, <1>2, <1>5, <1>7, <1>8, ThreadMoves

\* queue_for_later.
LEMMA DeferStep ==
  ASSUME VoteInv, NEW t \in Thread, Defer(t)
  PROVE  VoteInv'
<1>1. /\ UNCHANGED <<known, added, lib, stopped, queue, local_queue, too_old, notification_pending, arrived, aggregated>>
      /\ index' = Purged \cup {thread[t].msg} /\ thread' = [thread EXCEPT ![t] = Idle]
  BY DEF Defer
<1>2. Types' /\ Posts' = Posts /\ Locals' = Locals
  BY <1>1, QueuesStay
<1>3. StateOK(Idle, aggregated) /\ OwnOf(Idle) = {}
  BY IdleFacts
<1>4. OwnOf(thread[t]) = {thread[t].msg}
  BY DEF Defer, OwnOf, Handling
<1>5. Purged \subseteq index /\ \A m \in index : m \in Purged \/ m \in too_old \/ m.block <= lib
  BY PurgedFacts
<1>6. Apart(Posts, Locals, index, aggregated, OwnOf(thread[t]))
  BY ThreadFacts
<1>7. Apart(Posts', Locals', index', aggregated', OwnOf(Idle))
  BY <1>1, <1>2, <1>3, <1>4, <1>5, <1>6 DEF Apart
<1>8. /\ Shared' \cup OwnOf(Idle) \subseteq Shared \cup OwnOf(thread[t])
      /\ \A m \in Shared \cup OwnOf(thread[t]) : m \in Shared' \cup OwnOf(Idle) \/ m \in too_old \/ m.block <= lib
  BY <1>1, <1>2, <1>3, <1>4, <1>5 DEF Shared
<1> QED BY <1>1, <1>2, <1>3, <1>7, <1>8, ThreadMoves

\* notify_new_block: the votes in the queue stay as they are.
LEMMA NotifyPosted ==
  ASSUME VoteInv, notify_new_block, local_queue' = local_queue,
         known' \subseteq Blocks, added' \subseteq known', lib' \in {0} \cup known',
         UNCHANGED <<stopped, too_old, arrived>>
  PROVE  Types' /\ Posts' = Posts /\ Locals' = Locals
<1>1. Types
  BY DEF VoteInv
<1>2. lib' \in Nat
  BY MsgAssumption
<1>3. Locals' = Locals
  BY DEF Locals
<1>4. CASE UNCHANGED <<queue, notification_pending>>
  BY <1>1, <1>2, <1>3, <1>4 DEF Types, Posts
<1>5. CASE ~ notification_pending /\ queue' = Append(queue, Notify) /\ notification_pending' = TRUE
  <2>1. queue \in Seq(Msg \cup {Notify}) /\ Distinct(queue) /\ Notify \notin Range(queue)
    BY <1>1, <1>5 DEF Types
  <2>2. queue' \in Seq(Msg \cup {Notify}) /\ Distinct(queue') /\ Range(queue') = Range(queue) \cup {Notify}
    BY <1>5, <2>1, Posted
  <2>3. Posts' = Posts
    BY <2>2, NotMessages DEF Posts
  <2>4. Types'
    BY <1>1, <1>2, <1>5, <2>2 DEF Types
  <2> QED BY <1>3, <2>3, <2>4
<1> QED BY <1>4, <1>5 DEF notify_new_block

\* What process_any_queued_for_later starts with: a thread whose vote is aggregated
\* makes a pass, if there is something to pass over.
LEMMA PassStateFacts ==
  ASSUME VoteInv, NEW t \in Thread, NEW A, thread[t].msg \in A \cup {NoMsg}, A \subseteq Msg
  PROVE  StateOK(PassState(t), A) /\ OwnOf(PassState(t)) = {}
<1>1. CASE index = {}
  BY <1>1, IdleFacts DEF PassState
<1>2. CASE index # {}
  BY <1>2, NotMessages DEF PassState, StateOK, ThreadState, OwnOf, At, Handling, Passing, Place
<1> QED BY <1>1, <1>2

\* The vote is aggregated; a remote vote's thread then makes a pass over index.
LEMMA AggregateStep ==
  ASSUME VoteInv, NEW t \in Thread, Aggregate(t)
  PROVE  VoteInv'
<1>1. /\ UNCHANGED <<known, added, lib, stopped, local_queue, too_old, arrived>>
      /\ aggregated' = aggregated \cup {thread[t].msg}
  BY DEF Aggregate
<1>2. /\ thread[t].at = "aggregate" /\ StateOK(thread[t], aggregated)
      /\ Apart(Posts, Locals, index, aggregated, OwnOf(thread[t]))
      /\ aggregated \subseteq Msg
  BY ThreadFacts DEF Aggregate
<1>3. OwnOf(thread[t]) = {thread[t].msg} /\ thread[t].msg \in Msg
  BY <1>2 DEF OwnOf, StateOK, Handling
<1>4. CASE thread[t].msg.conn = 0
  <2>1. notify_new_block /\ index' = index /\ thread' = [thread EXCEPT ![t] = Idle]
    BY <1>4 DEF Aggregate
  <2>2. Types' /\ Posts' = Posts /\ Locals' = Locals
    BY <1>1, <2>1, NotifyPosted DEF VoteInv, Types
  <2>3. Apart(Posts', Locals', index', aggregated', OwnOf(Idle))
    BY <1>1, <1>2, <1>3, <2>1, <2>2, IdleFacts DEF Apart
  <2>4. Shared' \cup OwnOf(Idle) = Shared \cup OwnOf(thread[t])
    BY <1>1, <1>3, <2>1, <2>2, IdleFacts DEF Shared
  <2> QED BY <1>1, <2>1, <2>2, <2>3, <2>4, IdleFacts, ThreadMoves
<1>5. CASE thread[t].msg.conn # 0
  <2>1. /\ UNCHANGED <<queue, notification_pending>>
        /\ thread' = [thread EXCEPT ![t] = PassState(t)] /\ index' = Purged
    BY <1>5 DEF Aggregate, StartPass
  <2>2. Types' /\ Posts' = Posts /\ Locals' = Locals
    BY <1>1, <2>1, QueuesStay
  <2>3. PICK r : r = PassState(t)
    OBVIOUS
  <2>4. StateOK(r, aggregated') /\ OwnOf(r) = {}
    BY <1>1, <1>2, <1>3, <2>3, PassStateFacts
  <2>5. Apart(Posts', Locals', index', aggregated', OwnOf(r))
    BY <1>1, <1>2, <1>3, <2>1, <2>2, <2>4, PurgedFacts DEF Apart
  <2>6. /\ Shared' \cup OwnOf(r) \subseteq Shared \cup OwnOf(thread[t])
        /\ \A m \in Shared \cup OwnOf(thread[t]) : m \in Shared' \cup OwnOf(r) \/ m \in too_old \/ m.block <= lib
    BY <1>1, <1>3, <2>1, <2>2, <2>4, PurgedFacts DEF Shared
  <2> QED BY <1>1, <2>1, <2>2, <2>3, <2>4, <2>5, <2>6, ThreadMoves
<1> QED BY <1>4, <1>5

\* A pass takes the next message, or ends: then what it found no block for goes back.
LEMMA PassNextStep ==
  ASSUME VoteInv, NEW t \in Thread, PassNext(t)
  PROVE  VoteInv'
<1>1. UNCHANGED <<known, added, lib, stopped, queue, local_queue, too_old, notification_pending, arrived, aggregated>>
  BY DEF PassNext
<1>2. Types' /\ Posts' = Posts /\ Locals' = Locals
  BY <1>1, QueuesStay
<1>3. /\ thread[t].at = "pass" /\ StateOK(thread[t], aggregated) /\ thread[t] \in ThreadState
      /\ Apart(Posts, Locals, index, aggregated, OwnOf(thread[t]))
      /\ index \subseteq Msg
  BY ThreadFacts DEF PassNext
<1>4. OwnOf(thread[t]) = thread[t].unprocessed
  BY <1>3 DEF OwnOf, StateOK, Handling
<1>5. CASE index = {} /\ index' = Reinserted(t) /\ thread' = [thread EXCEPT ![t] = Idle]
  <2>1. Apart(Posts', Locals', index', aggregated', OwnOf(Idle))
    BY <1>1, <1>2, <1>3, <1>4, <1>5, IdleFacts DEF Apart, Reinserted
  <2>2. Shared' \cup OwnOf(Idle) = Shared \cup OwnOf(thread[t])
    BY <1>1, <1>2, <1>4, <1>5, IdleFacts DEF Shared, Reinserted
  <2> QED BY <1>1, <1>2, <1>5, <2>1, <2>2, IdleFacts, ThreadMoves
<1>6. CASE stopped /\ thread' = [thread EXCEPT ![t] = Idle] /\ index' = index
  <2>1. Apart(Posts', Locals', index', aggregated', OwnOf(Idle))
    BY <1>1, <1>2, <1>3, <1>6, IdleFacts DEF Apart
  <2>2. Shared' \cup OwnOf(Idle) \subseteq Shared \cup OwnOf(thread[t])
    BY <1>1, <1>2, <1>6, IdleFacts DEF Shared
  <2> QED BY <1>1, <1>2, <1>6, <2>1, <2>2, IdleFacts, ThreadMoves
<1>7. ASSUME NEW v \in index, index' = PassIndex(v),
             thread' = [thread EXCEPT ![t].at = "pass_fetch", ![t].v = v]
      PROVE  VoteInv'
  <2>1. PICK r : r = [thread[t] EXCEPT !.at = "pass_fetch", !.v = v]
    OBVIOUS
  <2>2. thread' = [thread EXCEPT ![t] = r]
    BY <1>3, <1>7, <2>1 DEF VoteInv
  <2>3. r.at = "pass_fetch" /\ r.v = v /\ r.msg = thread[t].msg /\ r.unprocessed = thread[t].unprocessed /\ r \in ThreadState
    BY <1>3, <2>1 DEF ThreadState, Place
  <2>4. v \notin thread[t].unprocessed /\ v \in Msg
    BY <1>3, <1>4 DEF Apart
  <2>5. StateOK(r, aggregated) /\ OwnOf(r) = {v} \cup thread[t].unprocessed
    BY <1>3, <2>3, <2>4 DEF StateOK, OwnOf, Handling, Passing
  <2>6. Apart(Posts', Locals', index', aggregated', OwnOf(r))
    BY <1>1, <1>2, <1>3, <1>4, <1>7, <2>5 DEF Apart, PassIndex
  <2>7. Shared' \cup OwnOf(r) = Shared \cup OwnOf(thread[t])
    BY <1>1, <1>2, <1>4, <1>7, <2>5 DEF Shared, PassIndex
  <2> QED BY <1>1, <1>2, <2>2, <2>5, <2>6, <2>7, ThreadMoves
<1> QED BY <1>5, <1>6, <1>7 DEF PassNext

\* get_block for the message of a pass.
LEMMA PassFetchStep ==
  ASSUME VoteInv, NEW t \in Thread, PassFetch(t)
  PROVE  VoteInv'
<1>1. UNCHANGED <<known, added, lib, stopped, queue, local_queue, index, too_old, notification_pending, arrived, aggregated>>
  BY DEF PassFetch
<1>2. Types' /\ Posts' = Posts /\ Locals' = Locals
  BY <1>1, QueuesStay
<1>3. /\ thread[t].at = "pass_fetch" /\ StateOK(thread[t], aggregated) /\ thread[t] \in ThreadState
      /\ Apart(Posts, Locals, index, aggregated, OwnOf(thread[t]))
  BY ThreadFacts DEF PassFetch
<1>4. thread[t].v \in Msg /\ OwnOf(thread[t]) = {thread[t].v} \cup thread[t].unprocessed
  BY <1>3 DEF OwnOf, StateOK, Handling
<1>5. PICK r : /\ thread' = [thread EXCEPT ![t] = r]
               /\ \/ r = [thread[t] EXCEPT !.at = "pass_aggregate"]
                  \/ r = At("pass", thread[t].msg, NoMsg, thread[t].unprocessed \cup {thread[t].v})
  BY DEF PassFetch
<1>6. StateOK(r, aggregated) /\ OwnOf(r) = OwnOf(thread[t])
  <2>1. CASE r = [thread[t] EXCEPT !.at = "pass_aggregate"]
    BY <1>3, <1>4, <2>1 DEF StateOK, ThreadState, OwnOf, Handling, Passing, Place
  <2>2. CASE r = At("pass", thread[t].msg, NoMsg, thread[t].unprocessed \cup {thread[t].v})
    <3>1. /\ r.at = "pass" /\ r.msg = thread[t].msg /\ r.v = NoMsg
          /\ r.unprocessed = thread[t].unprocessed \cup {thread[t].v}
      BY <2>2 DEF At
    <3>2. r \in ThreadState
      BY <1>3, <1>4, <2>2 DEF At, ThreadState, Place
    <3>3. NoMsg \notin r.unprocessed
      BY <1>3, <1>4, <3>1, NotMessages DEF ThreadState
    <3> QED BY <1>3, <1>4, <3>1, <3>2, <3>3, NotMessages DEF StateOK, OwnOf, Handling, Passing
  <2> QED BY <1>5, <2>1, <2>2
<1>7. Apart(Posts', Locals', index', aggregated', OwnOf(r)) /\ Shared' = Shared
  BY <1>1, <1>2, <1>3, <1>6 DEF Shared
<1> QED BY <1>1, <1>2, <1>5, <1>6, <1>7, ThreadMoves

\* The message of a pass is aggregated.
LEMMA PassAggregateStep ==
  ASSUME VoteInv, NEW t \in Thread, PassAggregate(t)
  PROVE  VoteInv'
<1>1. /\ UNCHANGED <<known, added, lib, stopped, queue, local_queue, index, too_old, notification_pending, arrived>>
      /\ aggregated' = aggregated \cup {thread[t].v}
  BY DEF PassAggregate
<1>2. Types' /\ Posts' = Posts /\ Locals' = Locals
  BY <1>1, QueuesStay
<1>3. /\ thread[t].at = "pass_aggregate" /\ StateOK(thread[t], aggregated) /\ thread[t] \in ThreadState
      /\ Apart(Posts, Locals, index, aggregated, OwnOf(thread[t]))
  BY ThreadFacts DEF PassAggregate
<1>4. /\ thread[t].v \in Msg /\ OwnOf(thread[t]) = {thread[t].v} \cup thread[t].unprocessed
      /\ thread[t].v \notin thread[t].unprocessed
  BY <1>3 DEF OwnOf, StateOK, Handling
<1>5. PICK r : r = [thread[t] EXCEPT !.at = "pass", !.v = NoMsg]
  OBVIOUS
<1>6. thread' = [thread EXCEPT ![t] = r]
  BY <1>3, <1>5 DEF VoteInv, PassAggregate
<1>7. r.at = "pass" /\ r.v = NoMsg /\ r.msg = thread[t].msg /\ r.unprocessed = thread[t].unprocessed /\ r \in ThreadState
  BY <1>3, <1>5 DEF ThreadState, Place
<1>8. StateOK(r, aggregated') /\ OwnOf(r) = thread[t].unprocessed
  <2>1. NoMsg \notin r.unprocessed
    BY <1>7, NotMessages DEF ThreadState
  <2> QED BY <1>1, <1>3, <1>7, <2>1, NotMessages DEF StateOK, OwnOf, Handling, Passing
<1>9. Apart(Posts', Locals', index', aggregated', OwnOf(r))
  BY <1>1, <1>2, <1>3, <1>4, <1>8 DEF Apart
<1>10. Shared' \cup OwnOf(r) = Shared \cup OwnOf(thread[t])
  BY <1>1, <1>2, <1>4, <1>8 DEF Shared
<1> QED BY <1>1, <1>2, <1>6, <1>8, <1>9, <1>10, ThreadMoves

\* A thread takes a vote from a queue: it is dropped only if the node stops or the block
\* is irreversible.
LEMMA StartVoteStep ==
  ASSUME VoteInv, NEW t \in Thread, NEW m \in Msg, thread[t] = Idle, StartVote(t, m),
         UNCHANGED <<known, added, lib, stopped, too_old, arrived, aggregated>>,
         Types', m \in Posts \cup Locals, Posts' = Posts \ {m}, Locals' = Locals \ {m}
  PROVE  VoteInv'
<1>1. index' = index /\ Apart(Posts, Locals, index, aggregated, {})
  BY ThreadFacts, IdleFacts DEF StartVote
<1>2. PICK r : /\ thread' = [thread EXCEPT ![t] = r]
               /\ \/ r = Idle /\ (stopped \/ m.block <= lib)
                  \/ r = At("fetch", m, NoMsg, {})
  BY DEF StartVote
<1>3. StateOK(r, aggregated) /\ (OwnOf(r) = {m} \/ (OwnOf(r) = {} /\ (stopped \/ m.block <= lib)))
  <2>1. CASE r = Idle /\ (stopped \/ m.block <= lib)
    BY <2>1, IdleFacts
  <2>2. CASE r = At("fetch", m, NoMsg, {})
    <3>1. r.at = "fetch" /\ r.msg = m /\ r.v = NoMsg /\ r.unprocessed = {} /\ r \in ThreadState
      BY <2>2 DEF At, ThreadState, Place
    <3>2. StateOK(r, aggregated)
      BY <3>1, NotMessages DEF StateOK, Handling, Passing
    <3>3. OwnOf(r) = {m}
      BY <3>1 DEF OwnOf, Handling
    <3> QED BY <3>2, <3>3
  <2> QED BY <1>2, <2>1, <2>2
<1>4. Apart(Posts', Locals', index', aggregated', OwnOf(r))
  BY <1>1, <1>3 DEF Apart
<1>5. /\ Shared' \cup OwnOf(r) \subseteq Shared \cup OwnOf(thread[t])
      /\ ~ stopped => \A x \in Shared \cup OwnOf(thread[t]) :
                        x \in Shared' \cup OwnOf(r) \/ x \in too_old \/ x.block <= lib
  BY <1>1, <1>3, IdleFacts DEF Shared
<1> QED BY <1>1, <1>2, <1>3, <1>4, <1>5, ThreadMoves

\* A thread takes the next task of its pool.
LEMMA StartTaskStep ==
  ASSUME VoteInv, NEW t \in Thread, StartTask(t)
  PROVE  VoteInv'
<1>1. thread[t] = Idle /\ UNCHANGED <<known, added, lib, stopped, too_old, arrived, aggregated>>
  BY DEF StartTask
<1>2. /\ Types /\ queue \in Seq(Msg \cup {Notify}) /\ Distinct(queue)
      /\ local_queue \in Seq(Msg) /\ Distinct(local_queue)
      /\ Apart(Posts, Locals, index, aggregated, OwnOf(thread[t]))
  BY ThreadFacts DEF VoteInv, Types
<1>3. CASE queue # <<>> /\ queue' = Tail(queue) /\ UNCHANGED local_queue
  <2>1. /\ queue' \in Seq(Msg \cup {Notify}) /\ Distinct(queue')
        /\ Head(queue) \in Msg \cup {Notify} /\ Head(queue) \in Range(queue)
        /\ Range(queue') = Range(queue) \ {Head(queue)}
    BY <1>2, <1>3, Taken
  <2>2. CASE Head(queue) = Notify /\ StartNotified(t)
    <3>1. Types' /\ Posts' = Posts /\ Locals' = Locals
      BY <1>1, <1>2, <1>3, <2>1, <2>2, NotMessages DEF Types, Posts, Locals, StartNotified
    <3>2. CASE UNCHANGED <<thread, index>>
      <4>1. thread' = [thread EXCEPT ![t] = Idle]
        BY <1>1, <3>2 DEF VoteInv
      <4>2. Apart(Posts', Locals', index', aggregated', OwnOf(Idle)) /\ Shared' = Shared
        BY <1>1, <1>2, <3>1, <3>2 DEF Shared
      <4> QED BY <1>1, <3>1, <4>1, <4>2, IdleFacts, ThreadMoves
    <3>3. CASE thread' = [thread EXCEPT ![t] = PassState(t)] /\ index' = Purged
      <4>1. PICK r : r = PassState(t)
        OBVIOUS
      <4>2. StateOK(r, aggregated) /\ OwnOf(r) = {}
        <5>1. thread[t].msg = NoMsg /\ aggregated \subseteq Msg
          BY <1>1, ThreadFacts DEF Idle, At
        <5> QED BY <4>1, <5>1, PassStateFacts
      <4>3. Apart(Posts', Locals', index', aggregated', OwnOf(r))
        BY <1>1, <1>2, <3>1, <3>3, <4>2, PurgedFacts DEF Apart
      <4>4. /\ Shared' \cup OwnOf(r) \subseteq Shared \cup OwnOf(thread[t])
            /\ \A m \in Shared \cup OwnOf(thread[t]) : m \in Shared' \cup OwnOf(r) \/ m \in too_old \/ m.block <= lib
        BY <1>1, <3>1, <3>3, <4>2, IdleFacts, PurgedFacts DEF Shared
      <4> QED BY <1>1, <3>1, <3>3, <4>1, <4>2, <4>3, <4>4, ThreadMoves
    <3> QED BY <2>2, <3>2, <3>3 DEF StartNotified, StartPass
  <2>3. CASE Head(queue) # Notify /\ StartVote(t, Head(queue))
    <3>1. PICK m : m = Head(queue)
      OBVIOUS
    <3>2. m \in Msg /\ m \in Posts
      BY <2>1, <2>3, <3>1 DEF Posts
    <3>3. notification_pending' = notification_pending
      BY <2>3 DEF StartVote
    <3>4. Posts' = Posts \ {m} /\ Locals' = Locals \ {m}
      BY <1>2, <1>3, <2>1, <3>1, <3>2 DEF Posts, Locals, Apart
    <3>5. Types'
      BY <1>1, <1>2, <1>3, <2>1, <2>3, <3>3 DEF Types
    <3> QED BY <1>1, <2>3, <3>1, <3>2, <3>4, <3>5, StartVoteStep
  <2> QED BY <1>1, <1>3, <2>2, <2>3 DEF StartTask
<1>4. CASE local_queue # <<>> /\ local_queue' = Tail(local_queue) /\ UNCHANGED queue /\ StartVote(t, Head(local_queue))
  <2>1. /\ local_queue' \in Seq(Msg) /\ Distinct(local_queue')
        /\ Head(local_queue) \in Msg /\ Head(local_queue) \in Locals
        /\ Locals' = Locals \ {Head(local_queue)}
    BY <1>2, <1>4, Taken DEF Locals
  <2>2. PICK m : m = Head(local_queue)
    OBVIOUS
  <2>3. notification_pending' = notification_pending
    BY <1>4 DEF StartVote
  <2>4. Posts' = Posts \ {m}
    BY <1>2, <1>4, <2>1, <2>2 DEF Posts, Apart
  <2>5. Types'
    BY <1>1, <1>2, <1>4, <2>1, <2>3 DEF Types
  <2> QED BY <1>1, <1>4, <2>1, <2>2, <2>4, <2>5, StartVoteStep
<1> QED BY <1>3, <1>4 DEF StartTask

\* A step that moves no vote: only blocks, time, a notification or the shutdown.
LEMMA NothingMoves ==
  ASSUME VoteInv, Types', Posts' = Posts, Locals' = Locals, UNCHANGED <<thread, index, aggregated, arrived>>,
         too_old \subseteq too_old', lib <= lib', stopped => stopped'
  PROVE  VoteInv'
<1>1. PICK t \in Thread : TRUE
  BY DEF Thread
<1>2. PICK r : r = thread[t]
  OBVIOUS
<1>3. thread' = [thread EXCEPT ![t] = r]
  BY <1>2 DEF VoteInv
<1>4. StateOK(r, aggregated') /\ Apart(Posts', Locals', index', aggregated', OwnOf(r))
  BY <1>2, ThreadFacts
<1>5. Shared' = Shared
  BY DEF Shared
<1>6. PICK New \in SUBSET Msg : New = {}
  OBVIOUS
<1>7. New \cap arrived = {} /\ arrived' = arrived \cup New
  BY <1>6
<1>8. Shared' \cup OwnOf(r) \subseteq Shared \cup OwnOf(thread[t]) \cup New
  BY <1>2, <1>5
<1>9. ~ stopped' => \A m \in Shared \cup OwnOf(thread[t]) \cup New :
                      m \in Shared' \cup OwnOf(r) \/ m \in too_old \/ m.block <= lib
  BY <1>2, <1>5, <1>6
<1> QED BY <1>3, <1>4, <1>7, <1>8, <1>9, Moves

\* process_vote_message: a vote is admitted and posted.
LEMMA ReceiveStep ==
  ASSUME VoteInv, NEW m \in Msg, Receive(m)
  PROVE  VoteInv'
<1>1. /\ ~ stopped /\ m \notin arrived /\ arrived' = arrived \cup {m}
      /\ UNCHANGED <<known, added, lib, stopped, thread, index, too_old, notification_pending, aggregated>>
  BY DEF Receive
<1>2. PICK t \in Thread : TRUE
  BY DEF Thread
<1>3. PICK r : r = thread[t]
  OBVIOUS
<1>4. thread' = [thread EXCEPT ![t] = r]
  BY <1>1, <1>3 DEF VoteInv
<1>5. StateOK(r, aggregated') /\ Apart(Posts, Locals, index, aggregated, OwnOf(r))
  BY <1>1, <1>3, ThreadFacts
<1>6. /\ Types /\ queue \in Seq(Msg \cup {Notify}) /\ Distinct(queue)
      /\ local_queue \in Seq(Msg) /\ Distinct(local_queue)
      /\ Shared \subseteq arrived /\ OwnOf(r) \subseteq arrived
  BY <1>3 DEF VoteInv, Types, AllArrived
<1>7. m \notin Shared /\ m \notin OwnOf(r) /\ m \notin Range(queue) /\ m \notin Range(local_queue)
  BY <1>1, <1>6 DEF Shared, Posts, Locals
<1>8. /\ Types'
      /\ \/ Posts' = Posts \cup {m} /\ Locals' = Locals
         \/ Posts' = Posts /\ Locals' = Locals \cup {m}
  <2>1. CASE local_queue' = Append(local_queue, m) /\ UNCHANGED queue
    <3>1. local_queue' \in Seq(Msg) /\ Range(local_queue') = Range(local_queue) \cup {m} /\ Distinct(local_queue')
      BY <1>6, <1>7, <2>1, Posted
    <3> QED BY <1>1, <1>6, <2>1, <3>1 DEF Types, Posts, Locals
  <2>2. CASE queue' = Append(queue, m) /\ UNCHANGED local_queue
    <3>1. /\ queue' \in Seq(Msg \cup {Notify}) /\ Range(queue') = Range(queue) \cup {m}
          /\ Distinct(queue')
      BY <1>6, <1>7, <2>2, Posted
    <3>2. Notify \in Range(queue') <=> notification_pending'
      BY <1>1, <1>6, <3>1, NotMessages DEF Types
    <3> QED BY <1>1, <1>6, <2>2, <3>1, <3>2 DEF Types, Posts, Locals
  <2> QED BY <2>1, <2>2 DEF Receive, Post
<1>9. PICK New \in SUBSET Msg : New = {m}
  OBVIOUS
<1>10. New \cap arrived = {} /\ arrived' = arrived \cup New
  BY <1>1, <1>9
<1>11. Apart(Posts', Locals', index', aggregated', OwnOf(r))
  BY <1>1, <1>5, <1>7, <1>8 DEF Apart, Shared
<1>12. Shared' = Shared \cup New
  BY <1>1, <1>8, <1>9 DEF Shared
<1>13. Shared' \cup OwnOf(r) \subseteq Shared \cup OwnOf(thread[t]) \cup New
  BY <1>3, <1>12
<1>14. ~ stopped' => \A x \in Shared \cup OwnOf(thread[t]) \cup New :
                       x \in Shared' \cup OwnOf(r) \/ x \in too_old \/ x.block <= lib
  BY <1>3, <1>12
<1>15. lib <= lib' /\ (stopped => stopped') /\ too_old \subseteq too_old' /\ aggregated \subseteq aggregated'
  BY <1>1, <1>6 DEF Types
<1> QED BY <1>4, <1>5, <1>8, <1>10, <1>11, <1>13, <1>14, <1>15, Moves

\* Every step of the threads, the network and the chain keeps the invariant.
LEMMA VoteStep ==
  ASSUME VoteInv, [Next]_vars
  PROVE  VoteInv'
<1>0. Types /\ lib \in Nat
  BY DEF VoteInv, Types
<1>1. ASSUME NEW m \in Msg, Reject(m) PROVE VoteInv'
  <2>1. UNCHANGED <<known, added, lib, stopped, local_queue, thread, index, too_old, arrived, aggregated>> /\ notify_new_block
    BY <1>1 DEF Reject
  <2>2. Types' /\ Posts' = Posts /\ Locals' = Locals
    BY <1>0, <2>1, NotifyPosted DEF Types
  <2> QED BY <1>0, <2>1, <2>2, NothingMoves
<1>2. ASSUME NEW b \in Blocks, NotifyNewBlock(b) PROVE VoteInv'
  <2>1. /\ UNCHANGED <<known, lib, stopped, local_queue, thread, index, too_old, arrived, aggregated>> /\ notify_new_block
        /\ added' \subseteq added
    BY <1>2 DEF NotifyNewBlock
  <2>2. Types' /\ Posts' = Posts /\ Locals' = Locals
    BY <1>0, <2>1, NotifyPosted DEF Types
  <2> QED BY <1>0, <2>1, <2>2, NothingMoves
<1>3. ASSUME /\ UNCHANGED <<queue, local_queue, notification_pending, thread, index, arrived, aggregated>>
             /\ known \subseteq known' /\ known' \subseteq Blocks /\ added' \subseteq known' /\ lib' \in {0} \cup known'
             /\ lib <= lib' /\ stopped' \in BOOLEAN /\ (stopped => stopped')
             /\ too_old \subseteq too_old' /\ too_old' \subseteq arrived
      PROVE  VoteInv'
  <2>1. lib' \in Nat
    BY <1>3, MsgAssumption
  <2>2. Types' /\ Posts' = Posts /\ Locals' = Locals
    BY <1>0, <1>3, <2>1 DEF Types, Posts, Locals
  <2> QED BY <1>3, <2>2, NothingMoves
<1>4. ASSUME NEW b \in Blocks, AddBlock(b) PROVE VoteInv'
  BY <1>0, <1>3, <1>4 DEF AddBlock, Types
<1>5. ASSUME NEW b \in Blocks, notify_lib(b) PROVE VoteInv'
  BY <1>0, <1>3, <1>5, MsgAssumption DEF notify_lib, Types
<1>6. ASSUME NEW m \in Msg, Age(m) PROVE VoteInv'
  <2>1. Deferred \cap Msg \subseteq arrived
    <3>1. \A t \in Thread : StateOK(thread[t], aggregated) /\ OwnOf(thread[t]) \subseteq arrived /\ aggregated \subseteq arrived
      BY DEF VoteInv, AllArrived, Shared
    <3>2. \A t \in Thread : ({thread[t].v} \cup thread[t].unprocessed) \cap Msg \subseteq arrived
      <4> SUFFICES ASSUME NEW t \in Thread PROVE ({thread[t].v} \cup thread[t].unprocessed) \cap Msg \subseteq arrived
        OBVIOUS
      <4>1. StateOK(thread[t], aggregated) /\ OwnOf(thread[t]) \subseteq arrived
        BY <3>1
      <4>2. CASE thread[t].at \in Handling
        BY <4>1, <4>2, NotMessages DEF StateOK
      <4>3. CASE thread[t].at \notin Handling
        BY <4>1, <4>3 DEF OwnOf
      <4> QED BY <4>2, <4>3
    <3>3. index \subseteq arrived
      BY DEF VoteInv, AllArrived, Shared
    <3> QED BY <3>2, <3>3 DEF Deferred
  <2>2. m \in arrived
    BY <1>6, <2>1 DEF Age
  <2> QED BY <1>0, <1>3, <1>6, <2>2 DEF Age, Types
<1>7. ASSUME Stop PROVE VoteInv'
  BY <1>0, <1>3, <1>7 DEF Stop, Types
<1>8. ASSUME UNCHANGED vars PROVE VoteInv'
  BY <1>0, <1>3, <1>8 DEF vars, Types
<1>9. ASSUME NEW t \in Thread, ThreadStep(t) PROVE VoteInv'
  BY <1>9, StartTaskStep, FetchStep, DeferStep, AggregateStep, PassNextStep, PassFetchStep, PassAggregateStep
     DEF ThreadStep
<1> QED BY <1>1, <1>2, <1>4, <1>5, <1>6, <1>7, <1>8, <1>9, ReceiveStep DEF Next

-------------------------------------------------------------------------------
(* The theorems.                                                             *)

\* Nothing has arrived yet.
LEMMA VoteInvInit == Init => VoteInv
<1> SUFFICES ASSUME Init PROVE VoteInv
  OBVIOUS
<1>1. Idle \in ThreadState /\ StateOK(Idle, aggregated) /\ OwnOf(Idle) = {}
  BY IdleFacts DEF StateOK
<1>2. /\ queue \in Seq(Msg \cup {Notify}) /\ local_queue \in Seq(Msg)
      /\ Range(queue) = {} /\ Range(local_queue) = {} /\ Distinct(queue) /\ Distinct(local_queue)
  BY DEF Init, Range, Distinct
<1>3. Types
  BY <1>2 DEF Init, Types
<1>4. thread \in [Thread -> ThreadState] /\ \A t \in Thread : thread[t] = Idle
  BY <1>1 DEF Init
<1>5. Posts = {} /\ Locals = {} /\ Shared = {}
  BY <1>2 DEF Init, Posts, Locals, Shared
<1>6. OnePlace /\ AllArrived
  BY <1>1, <1>4, <1>5 DEF Init, OnePlace, AllArrived, Apart
<1>7. Kept
  BY DEF Init, Kept
<1> QED BY <1>1, <1>3, <1>4, <1>6, <1>7 DEF VoteInv

\* The inductive invariant.
THEOREM VoteInvariant == Spec => []VoteInv
<1>1. VoteInv /\ [Next]_vars => VoteInv'
  BY VoteStep
<1> QED BY <1>1, VoteInvInit, PTL DEF Spec

\* No vote is aggregated twice, or is aggregated and still waits to be
\* (the message is erased from index before mtx is released).
THEOREM AggregatedOnceHolds == Spec => []AggregatedOnce
<1>1. VoteInv => AggregatedOnce
  <2> SUFFICES ASSUME VoteInv, NEW m \in aggregated
               PROVE  /\ m \notin Range(queue) \cup Range(local_queue) \cup index
                      /\ \A t \in Thread :
                           /\ m # thread[t].v /\ m \notin thread[t].unprocessed
                           /\ m = thread[t].msg => thread[t].at \in {"pass", "pass_fetch", "pass_aggregate"}
    BY DEF AggregatedOnce
  <2>1. \A t \in Thread : /\ StateOK(thread[t], aggregated)
                          /\ Apart(Posts, Locals, index, aggregated, OwnOf(thread[t]))
    BY ThreadFacts
  <2>2. m \in Msg
    BY DEF VoteInv, AllArrived, Shared, Types
  <2>3. m \notin Range(queue) \cup Range(local_queue) \cup index
    <3>1. PICK t \in Thread : TRUE
      BY DEF Thread
    <3> QED BY <2>1, <2>2, <3>1 DEF Apart, Posts, Locals
  <2>4. ASSUME NEW t \in Thread
        PROVE  /\ m # thread[t].v /\ m \notin thread[t].unprocessed
               /\ m = thread[t].msg => thread[t].at \in {"pass", "pass_fetch", "pass_aggregate"}
    <3>1. m \notin OwnOf(thread[t]) /\ StateOK(thread[t], aggregated)
      BY <2>1 DEF Apart
    <3>2. thread[t].at \in Place
      BY <3>1 DEF StateOK, ThreadState
    <3>3. CASE thread[t].at \in Handling
      BY <2>2, <3>1, <3>3, NotMessages DEF StateOK, OwnOf
    <3>4. CASE thread[t].at = "idle"
      <4>1. thread[t].msg = NoMsg /\ thread[t].v = NoMsg /\ thread[t].unprocessed = {}
        BY <3>1, <3>4 DEF StateOK, Idle, At
      <4> QED BY <2>2, <4>1, NotMessages
    <3>5. CASE thread[t].at \in Passing
      BY <2>2, <3>1, <3>5 DEF OwnOf, Handling, Passing
    <3> QED BY <3>2, <3>3, <3>4, <3>5 DEF Place, Handling, Passing
  <2> QED BY <2>3, <2>4
<1> QED BY <1>1, VoteInvariant, PTL

\* A vote that was admitted is still held, or was aggregated, or was dropped because it
\* is too old or its block irreversible (queue_for_later, remove_too_old, remove_before_lib).
THEOREM NoVoteVanishesHolds == Spec => []NoVoteVanishes
<1>1. VoteInv => NoVoteVanishes
  <2> SUFFICES ASSUME VoteInv, ~ stopped, NEW m \in arrived
               PROVE  m \in Held \cup aggregated \cup too_old \/ m.block <= lib
    BY DEF NoVoteVanishes
  <2>1. m \in Msg
    BY DEF VoteInv, Types
  <2>2. CASE m \in Shared
    BY <2>1, <2>2 DEF Shared, Posts, Locals, Held
  <2>3. ASSUME NEW t \in Thread, m \in OwnOf(thread[t]) PROVE m \in Held
    <3>1. m \in HeldBy(t)
      BY <2>3 DEF OwnOf, HeldBy
    <3> QED BY <2>1, <3>1 DEF Held
  <2> QED BY <2>2, <2>3 DEF VoteInv, Kept
<1> QED BY <1>1, VoteInvariant, PTL

\* Each thread is at a place of the code with the messages that place has, and a
\* notification that is pending (notification_pending) is in the queue exactly once.
THEOREM TypeOKHolds == Spec => []TypeOK
<1>1. VoteInv => TypeOK
  <2> SUFFICES ASSUME VoteInv PROVE TypeOK
    OBVIOUS
  <2>1. Types /\ index \cup too_old \cup aggregated \subseteq arrived
    BY DEF VoteInv, Types, AllArrived, Shared
  <2>2. \A t \in Thread :
          /\ thread[t].at \in Place
          /\ thread[t].at \in {"fetch", "defer", "aggregate"} => thread[t].msg \in Msg
          /\ thread[t].v \in Msg <=> thread[t].at \in {"pass_fetch", "pass_aggregate"}
    BY DEF VoteInv, StateOK, ThreadState, Handling
  <2> DEFINE N == {i \in 1..Len(queue) : queue[i] = Notify}
  <2>3. Cardinality(N) = IF notification_pending THEN 1 ELSE 0
    <3>1. /\ Len(queue) \in Nat /\ DOMAIN queue = 1..Len(queue) /\ Distinct(queue)
          /\ Notify \in Range(queue) <=> notification_pending
      BY <2>1 DEF Types
    <3>2. CASE notification_pending
      <4>1. PICK i \in 1..Len(queue) : queue[i] = Notify
        BY <3>1, <3>2 DEF Range
      <4>2. N = {i}
        BY <3>1, <4>1 DEF Distinct
      <4>3. Cardinality({i}) = 1
        BY FS_Singleton
      <4> QED BY <3>2, <4>2, <4>3
    <3>3. CASE ~ notification_pending
      <4>1. N = {}
        BY <3>1, <3>3 DEF Range
      <4>2. Cardinality({}) = 0
        BY FS_EmptySet
      <4> QED BY <3>3, <4>1, <4>2
    <3> QED BY <3>2, <3>3
  <2> QED BY <2>1, <2>2, <2>3 DEF TypeOK, Types
<1> QED BY <1>1, VoteInvariant, PTL

-------------------------------------------------------------------------------
(* The limits of vote_admission.                                             *)

\* The votes held are as many as vote_admission has tickets for.
WithinLimits ==
  /\ Cardinality(Remote) <= global_limit
  /\ Cardinality(FromPeer(0)) <= local_limit
  /\ \A c \in Nat \ {0} : Cardinality(FromPeer(c)) <= peer_limit

Live == Posts \cup Locals \cup index
HeldOf(r) == {r.msg, r.v} \cup r.unprocessed

\* A thread takes no ticket that was not there.
LEMMA HeldWithin ==
  ASSUME VoteInv, NEW t \in Thread, NEW r, thread' = [thread EXCEPT ![t] = r],
         (Live' \cup HeldOf(r)) \cap Msg \subseteq Live \cup HeldOf(thread[t])
  PROVE  Held' \subseteq Held
<1>1. thread'[t] = r /\ \A u \in Thread : u # t => thread'[u] = thread[u]
  BY DEF VoteInv
<1> SUFFICES ASSUME NEW m \in Held' PROVE m \in Held
  OBVIOUS
<1>2. m \in Msg /\ (m \in Live' \/ \E u \in Thread : m \in HeldOf(thread'[u]))
  BY DEF Held, Live, Posts, Locals, HeldBy, HeldOf
<1>3. m \in Live \/ \E u \in Thread : m \in HeldOf(thread[u])
  <2>1. CASE m \in Live'
    BY <1>2, <2>1
  <2>2. ASSUME NEW u \in Thread, m \in HeldOf(thread'[u])
        PROVE  m \in Live \/ \E w \in Thread : m \in HeldOf(thread[w])
    BY <1>1, <1>2, <2>2
  <2> QED BY <1>2, <2>1, <2>2
<1> QED BY <1>2, <1>3 DEF Held, Live, Posts, Locals, HeldBy, HeldOf

\* Whatever a thread does with a vote, it holds no vote that was not held before.
LEMMA ThreadHolds ==
  ASSUME VoteInv, NEW t \in Thread, ThreadStep(t)
  PROVE  Held' \subseteq Held
<1> DEFINE Fits(r) == /\ thread' = [thread EXCEPT ![t] = r]
                      /\ (Live' \cup HeldOf(r)) \cap Msg \subseteq Live \cup HeldOf(thread[t])
<1> SUFFICES \E r : Fits(r)
  BY HeldWithin
<1>1. thread[t] \in ThreadState /\ thread \in [Thread -> ThreadState]
  BY ThreadFacts DEF VoteInv
<1>2. /\ queue \in Seq(Msg \cup {Notify}) /\ Distinct(queue)
      /\ local_queue \in Seq(Msg) /\ Distinct(local_queue)
  BY DEF VoteInv, Types
<1>3. HeldOf(Idle) = {NoMsg}
  BY DEF HeldOf, Idle, At
<1>4. NoMsg \notin Msg /\ Purged \subseteq index
  BY NotMessages, PurgedFacts
<1>5. HeldOf(PassState(t)) \subseteq {NoMsg, thread[t].msg}
  BY <1>3 DEF PassState, HeldOf, At
<1>6. CASE StartTask(t)
  <2>1. /\ Posts' \subseteq Posts /\ Locals' \subseteq Locals /\ index' \subseteq index
    <3>1. CASE queue # <<>> /\ queue' = Tail(queue) /\ UNCHANGED local_queue
      <4>1. Range(queue') \subseteq Range(queue)
        BY <1>2, <3>1, Taken
      <4>2. index' \subseteq index
        BY <1>4, <1>6 DEF StartTask, StartNotified, StartPass, StartVote
      <4> QED BY <3>1, <4>1, <4>2 DEF Posts, Locals
    <3>2. CASE local_queue # <<>> /\ local_queue' = Tail(local_queue) /\ UNCHANGED queue
      <4>1. Range(local_queue') \subseteq Range(local_queue)
        BY <1>2, <3>2, Taken
      <4>2. index' \subseteq index
        BY <1>4, <1>6 DEF StartTask, StartNotified, StartPass, StartVote
      <4> QED BY <3>2, <4>1, <4>2 DEF Posts, Locals
    <3> QED BY <1>6, <3>1, <3>2 DEF StartTask
  <2>2. \/ thread' = thread
        \/ thread' = [thread EXCEPT ![t] = Idle]
        \/ thread' = [thread EXCEPT ![t] = PassState(t)]
        \/ \E m \in Posts \cup Locals : thread' = [thread EXCEPT ![t] = At("fetch", m, NoMsg, {})]
    <3>1. queue # <<>> /\ Head(queue) # Notify => Head(queue) \in Posts
      BY <1>2, Taken DEF Posts
    <3>2. local_queue # <<>> => Head(local_queue) \in Locals
      BY <1>2, Taken DEF Locals
    <3> QED BY <1>6, <3>1, <3>2 DEF StartTask, StartNotified, StartPass, StartVote
  <2>3. CASE thread' = thread
    <3>1. thread' = [thread EXCEPT ![t] = thread[t]]
      BY <1>1, <2>3
    <3> QED BY <2>1, <3>1 DEF Live
  <2>4. CASE thread' = [thread EXCEPT ![t] = Idle]
    BY <1>3, <1>4, <2>1, <2>4 DEF Live
  <2>5. CASE thread' = [thread EXCEPT ![t] = PassState(t)]
    <3>1. thread[t].msg \in HeldOf(thread[t])
      BY DEF HeldOf
    <3> QED BY <1>4, <1>5, <2>1, <2>5, <3>1 DEF Live
  <2>6. ASSUME NEW m \in Posts \cup Locals, thread' = [thread EXCEPT ![t] = At("fetch", m, NoMsg, {})]
        PROVE  \E r : Fits(r)
    <3>1. HeldOf(At("fetch", m, NoMsg, {})) = {m, NoMsg}
      BY DEF HeldOf, At
    <3> QED BY <1>4, <2>1, <2>6, <3>1 DEF Live
  <2> QED BY <2>2, <2>3, <2>4, <2>5, <2>6
<1>7. CASE Fetch(t)
  <2>1. PICK place : thread' = [thread EXCEPT ![t] = [thread[t] EXCEPT !.at = place]]
    BY <1>1, <1>7 DEF Fetch
  <2>2. HeldOf([thread[t] EXCEPT !.at = place]) = HeldOf(thread[t])
    BY <1>1 DEF HeldOf, ThreadState
  <2>3. Live' = Live
    BY <1>7 DEF Fetch, Live, Posts, Locals
  <2> QED BY <2>1, <2>2, <2>3
<1>8. CASE Defer(t)
  <2>1. Live' \subseteq Live \cup {thread[t].msg}
    BY <1>4, <1>8 DEF Defer, Live, Posts, Locals
  <2> QED BY <1>3, <1>4, <1>8, <2>1 DEF Defer, HeldOf
<1>9. CASE Aggregate(t)
  <2>1. Live' \subseteq Live
    <3>1. Posts' \subseteq Posts
      <4>1. CASE queue' = Append(queue, Notify)
        BY <1>2, <4>1, Posted, NotMessages DEF Posts
      <4>2. CASE queue' = queue
        BY <4>2 DEF Posts
      <4> QED BY <1>9, <4>1, <4>2 DEF Aggregate, notify_new_block
    <3> QED BY <1>4, <1>9, <3>1 DEF Aggregate, StartPass, Live, Locals
  <2>2. CASE thread' = [thread EXCEPT ![t] = Idle]
    BY <1>3, <1>4, <2>1, <2>2
  <2>3. CASE thread' = [thread EXCEPT ![t] = PassState(t)]
    <3>1. thread[t].msg \in HeldOf(thread[t])
      BY DEF HeldOf
    <3> QED BY <1>4, <1>5, <2>1, <2>3, <3>1
  <2> QED BY <1>9, <2>2, <2>3 DEF Aggregate, StartPass
<1>10. CASE PassNext(t)
  <2>1. Posts' = Posts /\ Locals' = Locals
    BY <1>10 DEF PassNext, Posts, Locals
  <2>2. CASE thread' = [thread EXCEPT ![t] = Idle] /\ index' \subseteq index \cup thread[t].unprocessed
    BY <1>3, <1>4, <2>1, <2>2 DEF Live, HeldOf
  <2>3. ASSUME NEW v \in index, index' \subseteq index, thread' = [thread EXCEPT ![t].at = "pass_fetch", ![t].v = v]
        PROVE  \E r : Fits(r)
    <3>1. PICK r : r = [thread[t] EXCEPT !.at = "pass_fetch", !.v = v]
      OBVIOUS
    <3>2. thread' = [thread EXCEPT ![t] = r]
      BY <1>1, <2>3, <3>1
    <3>3. HeldOf(r) \subseteq HeldOf(thread[t]) \cup {v}
      BY <1>1, <3>1 DEF HeldOf, ThreadState
    <3>4. (Live' \cup HeldOf(r)) \cap Msg \subseteq Live \cup HeldOf(thread[t])
      BY <2>1, <2>3, <3>3 DEF Live
    <3> QED BY <3>2, <3>4
  <2> QED BY <1>10, <2>2, <2>3 DEF PassNext, Reinserted, PassIndex
<1>11. CASE PassFetch(t)
  <2>1. Live' = Live
    BY <1>11 DEF PassFetch, Live, Posts, Locals
  <2>2. PICK r : /\ thread' = [thread EXCEPT ![t] = r]
                 /\ \/ r = [thread[t] EXCEPT !.at = "pass_aggregate"]
                    \/ r = At("pass", thread[t].msg, NoMsg, thread[t].unprocessed \cup {thread[t].v})
    BY <1>11 DEF PassFetch
  <2>3. HeldOf(r) \subseteq HeldOf(thread[t]) \cup {NoMsg}
    BY <1>1, <2>2 DEF HeldOf, ThreadState, At
  <2> QED BY <1>4, <2>1, <2>2, <2>3
<1>12. CASE PassAggregate(t)
  <2>1. Live' = Live
    BY <1>12 DEF PassAggregate, Live, Posts, Locals
  <2>2. PICK r : r = [thread[t] EXCEPT !.at = "pass", !.v = NoMsg]
    OBVIOUS
  <2>3. thread' = [thread EXCEPT ![t] = r]
    BY <1>1, <1>12, <2>2 DEF PassAggregate
  <2>4. HeldOf(r) \subseteq HeldOf(thread[t]) \cup {NoMsg}
    BY <1>1, <2>2 DEF HeldOf, ThreadState
  <2> QED BY <1>4, <2>1, <2>3, <2>4
<1> QED BY <1>6, <1>7, <1>8, <1>9, <1>10, <1>11, <1>12 DEF ThreadStep

LimitInv == IsFiniteSet(Held) /\ WithinLimits

\* Taking votes away keeps what is finite and within a limit so; adding one adds at
\* most one.
LEMMA Fewer ==
  ASSUME NEW S, IsFiniteSet(S), NEW T, NEW n \in Nat
  PROVE  /\ T \subseteq S => IsFiniteSet(T) /\ Cardinality(T) \in Nat /\ Cardinality(T) <= Cardinality(S)
         /\ \A x : T \subseteq S \cup {x} /\ Cardinality(S) < n => IsFiniteSet(T) /\ Cardinality(T) <= n
<1>1. Cardinality(S) \in Nat
  BY FS_CardinalityType
<1>2. ASSUME T \subseteq S PROVE IsFiniteSet(T) /\ Cardinality(T) \in Nat /\ Cardinality(T) <= Cardinality(S)
  BY <1>2, FS_Subset, FS_CardinalityType
<1>3. ASSUME NEW x, T \subseteq S \cup {x}, Cardinality(S) < n PROVE IsFiniteSet(T) /\ Cardinality(T) <= n
  <2>1. IsFiniteSet(S \cup {x}) /\ Cardinality(S \cup {x}) = IF x \in S THEN Cardinality(S) ELSE Cardinality(S) + 1
    BY FS_AddElement
  <2>2. IsFiniteSet(T) /\ Cardinality(T) <= Cardinality(S \cup {x})
    BY <1>3, <2>1, FS_Subset
  <2>3. Cardinality(T) \in Nat
    BY <2>2, FS_CardinalityType
  <2> QED BY <1>1, <1>3, <2>1, <2>2, <2>3
<1> QED BY <1>2, <1>3

\* Tickets that are given back leave room.
LEMMA LimitsKept ==
  ASSUME LimitInv, Held' \subseteq Held
  PROVE  LimitInv'
<1>1. IsFiniteSet(Held) /\ Remote \subseteq Held /\ \A c : FromPeer(c) \subseteq Held
  BY DEF LimitInv, Remote, FromPeer
<1>2. Remote' \subseteq Remote /\ \A c : FromPeer(c)' \subseteq FromPeer(c)
  BY DEF Remote, FromPeer
<1>3. IsFiniteSet(Held')
  BY <1>1, Fewer
<1>4. /\ IsFiniteSet(Remote) /\ Cardinality(Remote) \in Nat
      /\ \A c : IsFiniteSet(FromPeer(c)) /\ Cardinality(FromPeer(c)) \in Nat
  BY <1>1, Fewer
<1>5. /\ Cardinality(Remote') \in Nat /\ Cardinality(Remote') <= Cardinality(Remote)
      /\ \A c : Cardinality(FromPeer(c)') \in Nat /\ Cardinality(FromPeer(c)') <= Cardinality(FromPeer(c))
  BY <1>2, <1>4, Fewer
<1>6. WithinLimits'
  BY <1>4, <1>5, LimitAssumption DEF LimitInv, WithinLimits
<1> QED BY <1>3, <1>6 DEF LimitInv

\* acquire: there is room for the vote that is admitted.
LEMMA LimitsAdmit ==
  ASSUME VoteInv, LimitInv, NEW m \in Msg, Receive(m)
  PROVE  LimitInv'
<1>1. Held' = Held \cup {m}
  <2>1. /\ UNCHANGED <<thread, index>> /\ queue \in Seq(Msg \cup {Notify}) /\ local_queue \in Seq(Msg)
    BY DEF Receive, VoteInv, Types
  <2>2. Range(queue') \cup Range(local_queue') = Range(queue) \cup Range(local_queue) \cup {m}
    <3>1. CASE local_queue' = Append(local_queue, m) /\ UNCHANGED queue
      BY <2>1, <3>1, Posted
    <3>2. CASE queue' = Append(queue, m) /\ UNCHANGED local_queue
      BY <2>1, <3>2, Posted
    <3> QED BY <3>1, <3>2 DEF Receive, Post
  <2>3. \A t : HeldBy(t)' = HeldBy(t)
    BY <2>1 DEF HeldBy
  <2> QED BY <2>1, <2>2, <2>3 DEF Held
<1>2. IsFiniteSet(Held) /\ Remote \subseteq Held /\ \A c : FromPeer(c) \subseteq Held
  BY DEF LimitInv, Remote, FromPeer
<1>3. IsFiniteSet(Held')
  BY <1>1, <1>2, FS_AddElement
<1>4. /\ IsFiniteSet(Remote) /\ Cardinality(Remote) \in Nat
      /\ \A c : IsFiniteSet(FromPeer(c)) /\ Cardinality(FromPeer(c)) \in Nat
  BY <1>2, Fewer
<1>5. \A c : c # m.conn => FromPeer(c)' = FromPeer(c)
  BY <1>1 DEF FromPeer
<1>6. FromPeer(m.conn)' \subseteq FromPeer(m.conn) \cup {m}
  <2>1. FromPeer(m.conn)' = {x \in Held' : x.conn = m.conn}
    BY DEF FromPeer
  <2> QED BY <1>1, <2>1 DEF FromPeer
<1>7. acquire(m.conn)
  BY DEF Receive
<1>8. CASE m.conn = 0
  <2>1. Remote' = Remote
    BY <1>1, <1>8 DEF Remote
  <2>2. Cardinality(FromPeer(0)') <= local_limit
    BY <1>4, <1>6, <1>7, <1>8, Fewer, LimitAssumption DEF acquire
  <2>3. \A c \in Nat \ {0} : Cardinality(FromPeer(c)') <= peer_limit
    BY <1>5, <1>8 DEF LimitInv, WithinLimits
  <2>4. WithinLimits'
    BY <2>1, <2>2, <2>3 DEF LimitInv, WithinLimits
  <2> QED BY <1>3, <2>4 DEF LimitInv
<1>9. CASE m.conn # 0
  <2>1. Remote' \subseteq Remote \cup {m}
    BY <1>1 DEF Remote
  <2>2. Cardinality(Remote') <= global_limit
    BY <1>4, <1>7, <1>9, <2>1, Fewer, LimitAssumption DEF acquire
  <2>3. Cardinality(FromPeer(m.conn)') <= peer_limit
    BY <1>4, <1>6, <1>7, <1>9, Fewer, LimitAssumption DEF acquire
  <2>4. FromPeer(0)' = FromPeer(0)
    BY <1>5, <1>9
  <2>5. \A c \in Nat \ {0} : Cardinality(FromPeer(c)') <= peer_limit
    BY <1>5, <2>3 DEF LimitInv, WithinLimits
  <2>6. WithinLimits'
    BY <2>2, <2>4, <2>5 DEF LimitInv, WithinLimits
  <2> QED BY <1>3, <2>6 DEF LimitInv
<1> QED BY <1>8, <1>9

\* The reservations of vote_admission cover the votes that are queued, executing and
\* deferred: never more than global_limit remote ones, peer_limit of a peer and
\* local_limit of this node.
THEOREM LimitsHold == Spec => []WithinLimits
<1>1. Init => LimitInv
  <2> SUFFICES ASSUME Init PROVE LimitInv
    OBVIOUS
  <2>1. \A t \in Thread : HeldBy(t) = {NoMsg}
    BY DEF Init, HeldBy, Idle, At
  <2>2. Range(queue) = {} /\ Range(local_queue) = {} /\ index = {}
    BY DEF Init, Range
  <2>3. Held = {}
    BY <2>1, <2>2, NotMessages DEF Held
  <2>4. IsFiniteSet({}) /\ Cardinality({}) = 0
    BY FS_EmptySet
  <2>5. Remote = {} /\ \A c : FromPeer(c) = {}
    BY <2>3 DEF Remote, FromPeer
  <2> QED BY <2>3, <2>4, <2>5, LimitAssumption DEF LimitInv, WithinLimits
<1>2. VoteInv /\ LimitInv /\ [Next]_vars => LimitInv'
  <2> SUFFICES ASSUME VoteInv, LimitInv, [Next]_vars PROVE LimitInv'
    OBVIOUS
  <2>1. CASE UNCHANGED <<thread, index, local_queue>> /\ (notify_new_block \/ UNCHANGED queue)
    <3>1. queue \in Seq(Msg \cup {Notify})
      BY DEF VoteInv, Types
    <3>2. Range(queue') \subseteq Range(queue) \cup {Notify}
      <4>1. CASE queue' = Append(queue, Notify)
        BY <3>1, <4>1, Posted
      <4> QED BY <2>1, <4>1 DEF notify_new_block
    <3>3. \A t : HeldBy(t)' = HeldBy(t)
      BY <2>1 DEF HeldBy
    <3>4. Held' \subseteq Held
      BY <2>1, <3>2, <3>3, NotMessages DEF Held
    <3> QED BY <3>4, LimitsKept
  <2>2. ASSUME NEW t \in Thread, ThreadStep(t) PROVE LimitInv'
    BY <2>2, ThreadHolds, LimitsKept
  <2> QED BY <2>1, <2>2, LimitsAdmit
          DEF Next, Reject, Age, AddBlock, NotifyNewBlock, notify_lib, Stop, vars
<1>3. LimitInv => WithinLimits
  BY DEF LimitInv
<1> QED BY <1>1, <1>2, <1>3, VoteInvariant, PTL DEF Spec
===============================================================================
