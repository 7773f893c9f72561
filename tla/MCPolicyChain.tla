----------------------------- MODULE MCPolicyChain -----------------------------
(***************************************************************************)
(* PolicyChain on short branches.  The bounds are on the branches that TLC *)
(* builds, not on PolicyChain's specification.                             *)
(***************************************************************************)
EXTENDS PolicyChain

CONSTANTS
  MaxNum,        \* bound: number of the last block of a branch
  MaxNumTimed,   \* bound: the same, if the branch proposes schedules or skips slots
  MaxSkipped,    \* bound: slots of a branch without a block
  MaxPolicies,   \* bound: finalizer policies proposed on a branch
  MaxSchedules   \* bound: proposer policies proposed on a branch

Policies  == fin.generation - 1
Schedules == get_last_proposed_proposer_policy.version - 1
Skipped   == (head.timestamp - GenesisTime) - (current_block_num(core) - GenesisNum)

Timed == Schedules > 0 \/ Skipped > 0

\* A branch proposes finalizer policies, or else it proposes schedules and skips slots:
\* finish_next deals with the two kinds apart.
Bounded ==
  /\ current_block_num(core) <= IF Timed THEN MaxNumTimed ELSE MaxNum
  /\ Policies <= MaxPolicies /\ Schedules <= MaxSchedules /\ Skipped <= MaxSkipped
  /\ Policies = 0 \/ ~ Timed

\* The first conjunct spares TLC the children of a branch that is long enough.
MCNext ==
  /\ current_block_num(core) < IF Timed THEN MaxNumTimed ELSE MaxNum
  /\ Next
  /\ Bounded'

MCSpec == Init /\ [][MCNext]_vars
===============================================================================
