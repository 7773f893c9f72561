-------------------------------- MODULE Branch --------------------------------
(***************************************************************************)
(* A branch of Savanna blocks, as a sequence from the Savanna genesis      *)
(* block, and how a block extends it: the claim it carries is checked      *)
(* against its parent's core (verify_basic_proper_block_invariants) and    *)
(* its core is derived from the parent's (finish_next).                    *)
(***************************************************************************)
EXTENDS FinalityCore

CONSTANTS
  Hash,         \* what tells apart two blocks of the same number
  GenesisNum,   \* number of the Savanna genesis block
  GenesisTime   \* its timestamp (a slot)

ASSUME HashAssumption    == Hash # {}
ASSUME GenesisAssumption == GenesisNum \in Nat \ {0} /\ GenesisTime \in Nat

Id    == [num : Nat, hash : Hash]
Claim == [block_num : Nat, is_strong_qc : BOOLEAN]
Block == [id : Id, timestamp : Nat, claim : Claim]

\* The block with number n of branch h, and its last block.
At(h, n) == h[n - GenesisNum + 1]
Tip(h)   == h[Len(h)]

GenesisId(hash)     == [num |-> GenesisNum, hash |-> hash]
GenesisCore(hash)   == create_core_for_genesis_block(GenesisId(hash), GenesisTime)
GenesisBranch(hash) ==
  <<[id |-> GenesisId(hash), timestamp |-> GenesisTime, claim |-> QcClaim(GenesisNum, FALSE)]>>

\* Mutant: a repeated claim may become weaker.
Mut_ClaimMayWeaken(c, claim) == claim.block_num >= latest_qc_claim(c).block_num

\* verify_basic_proper_block_invariants: the claim may not go back, and on the
\* same block it may only become stricter.  (That a new claim is backed by a
\* valid QC is the subject of module Savanna.)
ClaimAccepted(c, claim) ==
  /\ claim.block_num >= latest_qc_claim(c).block_num
  /\ claim.block_num = latest_qc_claim(c).block_num =>
       \/ claim.is_strong_qc = latest_qc_claim(c).is_strong_qc
       \/ claim.is_strong_qc

\* make_block_ref and the core of the child in finish_next
TipRef(h) == BlockRef(Tip(h).id, Tip(h).timestamp)

ChildCore(c, h, claim) == next(c, TipRef(h), claim)

\* The branch with a child appended.  That the child is later than its parent is
\* asserted in get_active_proposer_policy_for_block_at.
Extend(h, hash, ts, claim) ==
  Append(h, [id |-> [num |-> Tip(h).id.num + 1, hash |-> hash], timestamp |-> ts, claim |-> claim])
===============================================================================
