--------------------------------- MODULE Voter ---------------------------------
(***************************************************************************)
(* What the consensus needs of one finalizer: its votes follow decide_vote *)
(* from one vote to the next, starting from a default, as if the finalizer *)
(* never stopped.  It may also advance its safety information for a vote   *)
(* that it never sends, and it may lose its safety information with the    *)
(* safety file.                                                            *)
(***************************************************************************)
EXTENDS FinalizerVote, FiniteSets

CONSTANTS
  Blocks,     \* the blocks it may vote on: [id, timestamp, core]
  Defaults,   \* safety information a finalizer without any may start with
  Unset       \* no safety information

VARIABLES
  fsi,
  votes,   \* the votes it decided to send
  lost     \* those of them that its safety information no longer stands for

Init == fsi = Unset /\ votes = {} /\ lost = {}

Base == IF fsi = Unset THEN Defaults \cup {Unset} ELSE {fsi}

\* Safety information reachable by votes, sent or not: a block is voted on once at most.
Voted(S) == {VotedFsi(p[1], p[2]) : p \in {q \in S \X Blocks : CanVote(q[1], q[2])}}

ReachedBy[n \in 0..Cardinality(Blocks)] ==
  IF n = 0 THEN Base ELSE ReachedBy[n - 1] \cup Voted(ReachedBy[n - 1])

Reach == ReachedBy[Cardinality(Blocks)]

Vote(b) ==
  \E from \in Reach :
    /\ CanVote(from, b)
    /\ fsi' = VotedFsi(from, b)
    /\ votes' = votes \cup {[id |-> b.id, strong |-> VotesStrong(from, b)]}
    /\ UNCHANGED lost

Skip == fsi' \in Reach /\ UNCHANGED <<votes, lost>>

\* A QC can only teach it votes that it lost: never one it still stands for.
Restore(b) ==
  /\ [id |-> b.id, strong |-> TRUE] \in lost
  /\ \E from \in Reach : EvidenceIsNewer(from, b)
  /\ fsi' = EvidenceFsi(b)
  /\ UNCHANGED <<votes, lost>>

Lose == fsi' = Unset /\ votes' = {} /\ lost' = lost \cup votes

Next == (\E b \in Blocks : Vote(b) \/ Restore(b)) \/ Skip \/ Lose

vars == <<fsi, votes, lost>>

Spec == Init /\ [][Next]_vars
===============================================================================
