----------------------------- MODULE AggregatingQc -----------------------------
(***************************************************************************)
(* The votes and certificates on one block that has an active and possibly *)
(* a pending finalizer policy (aggregating_qc_t).  Votes arrive on several *)
(* threads, certificates with the blocks that claim them, and the producer *)
(* takes the best certificate; each policy has a mutex of its own, and is  *)
(* taken after the other.                                                  *)
(***************************************************************************)
EXTENDS QcSig

CONSTANTS
  Key,          \* finalizer keys
  Thread,       \* threads that process votes
  Policies,     \* pairs of policies <<active, pending>>
  NoPolicy,     \* there is no pending policy
  Byzantine,    \* finalizers that vote both strong and weak
  MaxReceived,  \* bound: parts of certificates received
  MaxBuilt      \* bound: certificates that the producer takes, 0 or 1

ASSUME PolicyAssumption == \A p \in Policies : PolicyOK(p[1]) /\ (p[2] = NoPolicy \/ PolicyOK(p[2]))

VARIABLES
  active_policy, pending_policy,
  active_policy_sig, pending_policy_sig,
  cast,         \* votes that exist: key -> set of BOOLEAN, strong or weak
  processing,   \* votes that a thread is in the middle of: [thread, key, strong, at]
  receiving,    \* certificates that were set in the active policy's votes only
  received,     \* how many parts of certificates were received
  reading,      \* the active policy's certificate a producer has read, or NoQc
  built         \* the certificate the producer put in a block, or <<>>

vars == <<active_policy, pending_policy, active_policy_sig, pending_policy_sig, cast, processing, receiving,
          received, reading, built>>
policies == <<active_policy, pending_policy, cast>>

HasPending == pending_policy # NoPolicy
InActive(k)  == k \in Finalizers(active_policy)
InPending(k) == HasPending /\ k \in Finalizers(pending_policy)

Init ==
  /\ \E p \in Policies : active_policy = p[1] /\ pending_policy = p[2]
  /\ active_policy_sig = NewSig /\ pending_policy_sig = NewSig
  /\ cast \in {c \in [Key -> {{TRUE}, {FALSE}, BOOLEAN}] : \A k \in Key : c[k] = BOOLEAN <=> k \in Byzantine}
  /\ processing = {} /\ receiving = {} /\ received = 0
  /\ reading = NoQc /\ built = <<>>

-------------------------------------------------------------------------------
At(v, place) == [thread |-> v.thread, key |-> v.key, strong |-> v.strong, at |-> place]

\* aggregate_vote: the vote is not a duplicate in the active policy (has_voted, no
\* mutex), or its finalizer is not in it; then its signature is verified.
StartVote(t, k, strong) ==
  LET v == [thread |-> t, key |-> k, strong |-> strong]
  IN /\ \A w \in processing : w.thread # t
     /\ \/ InActive(k) /\ ~ has_voted(active_policy_sig, k) /\ processing' = processing \cup {At(v, "active")}
        \/ ~ InActive(k) /\ InPending(k) /\ processing' = processing \cup {At(v, "check_pending")}
     /\ UNCHANGED <<policies, active_policy_sig, pending_policy_sig, receiving, received, reading, built>>

\* Mutant: a duplicate goes on to the pending policy.
Mut_AfterActive(v) ==
  (processing \ {v}) \cup (IF InPending(v.key) THEN {At(v, "check_pending")} ELSE {})

\* Mutant: the vote is counted for one policy only.
Mut_ActiveOnly(v) == processing \ {v}

\* A duplicate in the active policy ends aggregate_vote.
AfterActive(v) ==
  (processing \ {v}) \cup
    (IF InPending(v.key) /\ ~ has_voted(active_policy_sig, v.key) THEN {At(v, "check_pending")} ELSE {})

AddToActive(v) ==
  /\ v.at = "active"
  /\ active_policy_sig' = add_vote(active_policy, active_policy_sig, v.key, v.strong)
  /\ processing' = AfterActive(v)
  /\ UNCHANGED <<policies, pending_policy_sig, receiving, received, reading, built>>

CheckPending(v) ==
  /\ v.at = "check_pending"
  /\ processing' = (processing \ {v}) \cup
                     (IF has_voted(pending_policy_sig, v.key) THEN {} ELSE {At(v, "pending")})
  /\ UNCHANGED <<policies, active_policy_sig, pending_policy_sig, receiving, received, reading, built>>

AddToPending(v) ==
  /\ v.at = "pending"
  /\ pending_policy_sig' = add_vote(pending_policy, pending_policy_sig, v.key, v.strong)
  /\ processing' = processing \ {v}
  /\ UNCHANGED <<policies, active_policy_sig, receiving, received, reading, built>>

-------------------------------------------------------------------------------
Voters(strong) == {k \in Key : strong \in cast[k]}

DualFinalizers == {k \in Key : InActive(k) /\ InPending(k)}

verify_dual_finalizers_votes(qc) == \A k \in DualFinalizers : vote_same_at(qc[1], qc[2], k)

\* A certificate is <<active part, pending part or NoQc>>.
verify_qc(qc) ==
  /\ verify_vote_format(active_policy, qc[1])
  /\ HasPending <=> qc[2] # NoQc
  /\ HasPending => verify_vote_format(pending_policy, qc[2]) /\ verify_dual_finalizers_votes(qc)
  /\ verify(active_policy, qc[1], Voters(TRUE), Voters(FALSE))
  /\ HasPending => verify(pending_policy, qc[2], Voters(TRUE), Voters(FALSE))

\* The certificates that the signatures of the votes allow.
SigsOf(p) ==
  [strong : SUBSET (Finalizers(p) \cap Voters(TRUE)), weak : SUBSET (Finalizers(p) \cap Voters(FALSE)),
   is_weak : BOOLEAN]

\* Certificates a received block may carry.
ReceivedQcs ==
  {qc \in SigsOf(active_policy) \X (IF HasPending THEN SigsOf(pending_policy) ELSE {NoQc}) : verify_qc(qc)}

Parts == IF HasPending THEN 2 ELSE 1

\* set_received_qc: the active policy's part, then the pending policy's.
SetReceivedQc(qc) ==
  /\ received' = received + Parts
  /\ active_policy_sig' = set_received_qc_sig(active_policy_sig, qc[1])
  /\ receiving' = IF HasPending THEN receiving \cup {qc} ELSE receiving
  /\ UNCHANGED <<policies, pending_policy_sig, processing, reading, built>>

SetReceivedPending(qc) ==
  /\ receiving' = receiving \ {qc}
  /\ pending_policy_sig' = set_received_qc_sig(pending_policy_sig, qc[2])
  /\ UNCHANGED <<policies, active_policy_sig, processing, received, reading, built>>

-------------------------------------------------------------------------------
\* get_best_qc: the active policy's part, then the pending policy's.
ReadActive ==
  /\ MaxBuilt = 1 /\ built = <<>>
  /\ reading = NoQc /\ get_best_qc(active_policy_sig) # NoQc
  /\ IF HasPending THEN reading' = get_best_qc(active_policy_sig) /\ UNCHANGED built
     ELSE built' = <<get_best_qc(active_policy_sig), NoQc>> /\ UNCHANGED reading
  /\ UNCHANGED <<policies, active_policy_sig, pending_policy_sig, processing, receiving, received>>

ReadPending ==
  /\ reading # NoQc
  /\ reading' = NoQc
  /\ built' = IF get_best_qc(pending_policy_sig) = NoQc THEN built
              ELSE <<reading, get_best_qc(pending_policy_sig)>>
  /\ UNCHANGED <<policies, active_policy_sig, pending_policy_sig, processing, receiving, received>>

VoteStep(v) == AddToActive(v) \/ CheckPending(v) \/ AddToPending(v)

Next ==
  \/ \E t \in Thread, k \in Key : \E strong \in cast[k] : StartVote(t, k, strong)
  \/ \E v \in processing : VoteStep(v)
  \/ received + Parts <= MaxReceived /\ \E qc \in ReceivedQcs : SetReceivedQc(qc)
  \/ \E qc \in receiving : SetReceivedPending(qc)
  \/ ReadActive
  \/ ReadPending

Busy(t) == \E v \in processing : v.thread = t

\* A thread that took up a vote goes on with it: weak fairness of its steps, which are
\* enabled exactly while it is busy.
Fairness ==
  \A t \in Thread : []<>(~ Busy(t)) \/ []<><<\E v \in processing : v.thread = t /\ VoteStep(v)>>_vars

Spec == Init /\ [][Next]_vars /\ Fairness

-------------------------------------------------------------------------------
Sigs == {<<active_policy, active_policy_sig>>} \cup
          (IF HasPending THEN {<<pending_policy, pending_policy_sig>>} ELSE {})

\* However many threads bring the strong and the weak vote of a finalizer, one of
\* them is counted, the same one for both policies (aggregate_vote, check_duplicate).
OneVoteEach ==
  /\ \A x \in Sigs : x[2].strong \cap x[2].weak = {}
  /\ \A k \in DualFinalizers : /\ k \in active_policy_sig.strong => k \notin pending_policy_sig.weak
                               /\ k \in active_policy_sig.weak => k \notin pending_policy_sig.strong

Rest(p, s) == Weight(p, Finalizers(p) \ (s.strong \cup s.weak))

\* state_t, whatever the order of the votes: the sums are the weights of the finalizers
\* in the bitsets, there is a quorum exactly in the states that say so, "strong" has the
\* strong votes for it, and "restricted" can no longer become strong (the assert in
\* add_strong_vote).
StateMatchesVotes ==
  \A x \in Sigs : LET p == x[1]
                       s == x[2]
                   IN /\ s.strong_sum = Weight(p, s.strong) /\ s.weak_sum = Weight(p, s.weak)
                      /\ IsQuorumMet(s) <=> s.strong_sum + s.weak_sum >= p.threshold
                      /\ s.state = "strong" => s.strong_sum >= p.threshold
                      /\ s.state = "restricted" => s.strong_sum + Rest(p, s) < p.threshold

\* Each policy's part of the best certificate passes the verification that the
\* receivers of the block make of it.
EachPartVerifies ==
  \A x \in Sigs : LET qc == get_best_qc(x[2])
                   IN qc # NoQc => /\ verify_vote_format(x[1], qc)
                                   /\ verify(x[1], qc, Voters(TRUE), Voters(FALSE))

Strength(s) == IF get_best_qc(s) = NoQc THEN 0 ELSE IF get_best_qc(s).is_weak THEN 1 ELSE 2

\* More votes and more certificates never make the best certificate worse.
BestNeverWorsens ==
  [][/\ Strength(active_policy_sig) <= Strength(active_policy_sig')
     /\ Strength(pending_policy_sig) <= Strength(pending_policy_sig')]_vars

\* The vote of a finalizer in both policies that is counted for the active policy
\* is eventually counted for the pending one, although duplicates are dropped.
DualVoteReachesBoth ==
  \A k \in Key : (k \in DualFinalizers /\ has_voted(active_policy_sig, k)) ~> has_voted(pending_policy_sig, k)

\* qc.cpp: "verify each dual finalizer votes in the same way".  The certificate that
\* get_best_qc puts together passes it.
BuiltQcVerifies == built # <<>> => verify_qc(built)
===============================================================================
