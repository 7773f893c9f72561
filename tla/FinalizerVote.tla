----------------------------- MODULE FinalizerVote -----------------------------
(***************************************************************************)
(* The vote a finalizer casts on a block (finalizer::decide_vote) and the  *)
(* safety information it keeps: the last block it voted on, the block it   *)
(* is locked on, and the time of its latest vote on another branch.        *)
(*                                                                         *)
(* A block b is a record with fields id, timestamp and core.               *)
(***************************************************************************)
EXTENDS FinalityCore

\* block_ref::empty(): the id is all zeros; no block has number 0.
empty(ref) == ref.block_id.num = 0

BlockRefOf(b) == BlockRef(b.id, b.timestamp)
ClaimedRef(b) == get_block_reference(b.core, latest_qc_claim(b.core).block_num)
ClaimedTime(b) == latest_qc_block_timestamp(b.core)

\* Mutant: a finalizer may vote twice for the same slot.
Mut_MonotonyAllowsEqual(fsi, b) == empty(fsi.last_vote) \/ b.timestamp >= fsi.last_vote.timestamp

monotony_check(fsi, b) == empty(fsi.last_vote) \/ b.timestamp > fsi.last_vote.timestamp

\* Mutant: the lock never yields to a newer QC.
Mut_LivenessNever(fsi, b) == FALSE

liveness_check(fsi, b) == ~ empty(fsi.lock) /\ ClaimedTime(b) > fsi.lock.timestamp

\* Mutant: the lock is not enforced.
Mut_SafetyIgnoresLock(fsi, b) == ~ empty(fsi.lock)

safety_check(fsi, b) == ~ empty(fsi.lock) /\ extends(b.core, fsi.lock.block_id)

CanVote(fsi, b) == monotony_check(fsi, b) /\ (liveness_check(fsi, b) \/ safety_check(fsi, b))

\* Mutant: a vote on another branch is forgotten by the next vote.
Mut_StrongIgnoresOtherBranch(fsi, b) ==
  fsi.last_vote.timestamp <= ClaimedTime(b) \/ extends(b.core, fsi.last_vote.block_id)

\* vote_decision: strong_vote rather than weak_vote, when the finalizer can vote.
VotesStrong(fsi, b) ==
  \/ fsi.last_vote.timestamp <= ClaimedTime(b)
  \/ /\ extends(b.core, fsi.last_vote.block_id)
     /\ fsi.other_branch_latest_time <= ClaimedTime(b)

\* Mutant: the time of the vote on the other branch is not recorded.
Mut_OtherNotRecorded(fsi, b) ==
  IF VotesStrong(fsi, b) THEN 0 ELSE fsi.other_branch_latest_time

NextOtherBranch(fsi, b) ==
  IF VotesStrong(fsi, b) THEN 0
  ELSE IF extends(b.core, fsi.last_vote.block_id) THEN fsi.other_branch_latest_time
  ELSE fsi.last_vote.timestamp

\* Mutant: locks on the block voted for.
Mut_LockOnVoted(fsi, b) == IF VotesStrong(fsi, b) THEN BlockRefOf(b) ELSE fsi.lock

NextLock(fsi, b) ==
  IF VotesStrong(fsi, b) /\ ClaimedTime(b) > fsi.lock.timestamp THEN ClaimedRef(b) ELSE fsi.lock

\* The safety information after a vote on b.
VotedFsi(fsi, b) ==
  [last_vote |-> BlockRefOf(b), lock |-> NextLock(fsi, b),
   other_branch_latest_time |-> NextOtherBranch(fsi, b)]

\* finalizer::maybe_update_fsi: b is a block this finalizer is seen to have voted
\* strong on.
EvidenceIsNewer(fsi, b) ==
  ClaimedRef(b).timestamp > fsi.lock.timestamp /\ b.timestamp > fsi.last_vote.timestamp

EvidenceFsi(b) ==
  [last_vote |-> BlockRefOf(b), lock |-> ClaimedRef(b), other_branch_latest_time |-> 0]
===============================================================================
