------------------------------- MODULE CoreChain -------------------------------
(***************************************************************************)
(* One branch of Savanna blocks as its finality core sees it: every new    *)
(* block derives its core from its parent's (finish_next), after the       *)
(* claim it carries was accepted by verify_basic_proper_block_invariants.  *)
(* The full branch is kept in history, so that what the core remembers     *)
(* after dropping links and refs can be compared with what happened.       *)
(***************************************************************************)
EXTENDS Branch

CONSTANTS
  MaxNum,       \* bound: number of the last block of the branch
  MaxGap        \* bound: slots between a block and its child

ASSUME BoundAssumption   == MaxNum \in Nat /\ MaxGap \in Nat \ {0}

VARIABLES
  core,     \* core of the block at the head of the branch
  history   \* the branch from genesis to head: [id, timestamp, claim]

chainVars == <<core, history>>

BlockAt(n) == At(history, n)
HeadBlock  == Tip(history)

ChainInit ==
  \E hash \in Hash : core = GenesisCore(hash) /\ history = GenesisBranch(hash)

\* finish_next: the child's core from the parent's.
FinishNext(hash, gap, claim) ==
  /\ HeadBlock.id.num < MaxNum
  /\ claim.block_num <= current_block_num(core)
  /\ ClaimAccepted(core, claim)
  /\ core' = ChildCore(core, history, claim)
  /\ history' = Extend(history, hash, HeadBlock.timestamp + gap, claim)

ChainNext ==
  \E hash \in Hash, gap \in 1..MaxGap, n \in GenesisNum..MaxNum, s \in BOOLEAN :
    FinishNext(hash, gap, QcClaim(n, s))

ChainSpec == ChainInit /\ [][ChainNext]_chainVars

-------------------------------------------------------------------------------
\* finality_core.hpp: every core satisfies the invariants 1 to 9.
CoreIsWellFormed == CoreInvariants(core)

\* The block numbers that the strong claims made on the branch made final.
FinalByClaims ==
  {GenesisNum} \cup
  { BlockAt(history[i].claim.block_num).claim.block_num :
      i \in {j \in 1..Len(history) : history[j].claim.is_strong_qc} }

\* get_new_block_numbers and next drop every link and ref before the new last
\* final block; what is left still yields the same last final block as all the
\* claims ever made on the branch: the greatest block that a strongly claimed
\* block itself claims.
LastFinalMatchesHistory ==
  /\ last_final_block_num(core) \in FinalByClaims
  /\ \A n \in FinalByClaims : n <= last_final_block_num(core)

\* extends(id), which the voting rules rely on, answers exactly "id is an
\* ancestor, not older than the last final block", for ids of this branch and
\* of any other.
ExtendsIsAncestry ==
  \A n \in GenesisNum..MaxNum, hash \in Hash :
    LET id == [num |-> n, hash |-> hash] IN
    extends(core, id) <=>
      /\ last_final_block_num(core) <= n
      /\ n < HeadBlock.id.num
      /\ BlockAt(n).id = id

\* latest_qc_block_timestamp and last_final_block_timestamp are the timestamps
\* of the blocks they name, also right after genesis when there are no refs.
TimestampsMatchHistory ==
  /\ latest_qc_block_timestamp(core) = BlockAt(latest_qc_claim(core).block_num).timestamp
  /\ last_final_block_timestamp(core) = BlockAt(last_final_block_num(core)).timestamp

\* The claims the checks in the controller let through; verify_qc needs the
\* claimed block to be an ancestor or the parent.
AcceptedClaims ==
  {c \in {QcClaim(n, s) : n \in GenesisNum..HeadBlock.id.num, s \in BOOLEAN} : ClaimAccepted(core, c)}

\* What verify_basic_proper_block_invariants accepts is what the asserts at the
\* top of finality_core::next require ("Satisfied by precondition 1" to 4).
AcceptedClaimsMeetNextPre ==
  \A claim \in AcceptedClaims : NextPre(core, TipRef(history), claim)

\* block_header_state::next decides with the pruned core whether a block has a
\* finality tree: exactly the blocks whose claim is still on genesis have none.
GenesisClaimIsRecognised ==
  \A claim \in AcceptedClaims :
    is_genesis_block_num(core, next_metadata(core, claim).latest_qc_claim_block_num)
      <=> claim.block_num = GenesisNum

\* Finality on a branch never goes back, and only a strong claim moves it.
FinalityAdvances ==
  [][ /\ last_final_block_num(core) <= last_final_block_num(core')
      /\ last_final_block_num(core) # last_final_block_num(core') =>
           latest_qc_claim(core').is_strong_qc ]_chainVars
===============================================================================
