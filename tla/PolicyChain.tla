------------------------------ MODULE PolicyChain ------------------------------
(***************************************************************************)
(* The finalizer and proposer policies in the header states of one branch  *)
(* (block_header_state.cpp, finish_next): a policy is proposed by a block, *)
(* becomes pending and later active as finality advances.                  *)
(*                                                                         *)
(* A finalizer policy stands for its generation, 0 for the null pointer.   *)
(* proposed_finalizer_policies, in the order of the blocks, is a set.  The *)
(* generations that a block_ref carries are kept in gens, for the blocks   *)
(* that the core has a reference to and for the head.                      *)
(***************************************************************************)
EXTENDS Branch

CONSTANTS
  producer_repetitions,  \* slots of a round
  Gaps                   \* slots between a block and its child

ASSUME RoundAssumption == producer_repetitions \in Nat \ {0}
ASSUME GapAssumption   == Gaps \subseteq Nat \ {0}

VARIABLES
  core,  \* finality core of the head
  head,  \* make_block_ref of the head: its id and timestamp
  fin,   \* finalizer policies of the head
  prop,  \* proposer policies of the head
  gens   \* block number -> [active, pending]: generations in its block_ref

vars == <<core, head, fin, prop, gens>>

NoPending  == [num |-> 0, policy |-> 0]
NoProposer == [version |-> 0, proposal_time |-> 0]

\* create_if_genesis_block
Init ==
  /\ \E hash \in Hash : core = GenesisCore(hash) /\ head = BlockRef(GenesisId(hash), GenesisTime)
  /\ fin = [active |-> 1, pending |-> NoPending, proposed |-> {}, generation |-> 1, latest_qc_claim_active |-> 0]
  /\ prop = [active |-> [version |-> 1, proposal_time |-> 0], pending |-> NoProposer, proposed |-> NoProposer]
  /\ gens = [n \in {GenesisNum} |-> [active |-> 1, pending |-> 0]]

-------------------------------------------------------------------------------
(* Proposer policies.                                                        *)
get_current_round_start_slot(t) == t - (t % producer_repetitions)

in_same_round(later, t) == later < get_current_round_start_slot(t) + producer_repetitions

first_block_of_round(t, parent) == parent < get_current_round_start_slot(t)

\* Proposed in a round before the one that precedes the head's (get_prior_round_start_slot).
BeforePriorRound(policy) ==
  /\ head.timestamp >= producer_repetitions
  /\ policy.proposal_time < get_current_round_start_slot(head.timestamp) - producer_repetitions

ProposedInFinalBlock(policy) == policy.proposal_time <= last_final_block_timestamp(core)

get_active_proposer_policy_for_block_at(t) ==
  IF in_same_round(t, head.timestamp) THEN prop.active
  ELSE IF prop.proposed # NoProposer /\ BeforePriorRound(prop.proposed) /\ ProposedInFinalBlock(prop.proposed)
    THEN prop.proposed
  ELSE IF prop.pending # NoProposer /\ ProposedInFinalBlock(prop.pending) THEN prop.pending
  ELSE prop.active

\* Mutant: the pending policy is kept when a newer one became active.
Mut_KeepPending(policy) ==
  IF policy = prop.active THEN prop
  ELSE IF policy = prop.proposed THEN [active |-> policy, pending |-> prop.pending, proposed |-> NoProposer]
  ELSE [active |-> policy, pending |-> NoProposer, proposed |-> prop.proposed]

\* The policies in flight once one of them became active.
AfterActivation(policy) ==
  IF policy = prop.active THEN prop
  ELSE IF policy = prop.proposed THEN [active |-> policy, pending |-> NoProposer, proposed |-> NoProposer]
  ELSE [active |-> policy, pending |-> NoProposer, proposed |-> prop.proposed]

\* Mutant: the policy becomes pending with any block.
Mut_PendingAtOnce(t) ==
  LET p == AfterActivation(get_active_proposer_policy_for_block_at(t))
  IN IF p.proposed # NoProposer /\ p.pending = NoProposer
     THEN [active |-> p.active, pending |-> p.proposed, proposed |-> NoProposer] ELSE p

evaluate_proposer_policies_for_promotion(t) ==
  LET p == AfterActivation(get_active_proposer_policy_for_block_at(t))
  IN IF first_block_of_round(t, head.timestamp) /\ p.proposed # NoProposer /\ p.pending = NoProposer
     THEN [active |-> p.active, pending |-> p.proposed, proposed |-> NoProposer] ELSE p

get_last_proposed_proposer_policy ==
  IF prop.proposed # NoProposer THEN prop.proposed
  ELSE IF prop.pending # NoProposer THEN prop.pending ELSE prop.active

\* assemble_block: a schedule that differs from the last one gets the next version.
NewProposer(t) == [version |-> get_last_proposed_proposer_policy.version + 1, proposal_time |-> t]

NextProposers(t, proposes) ==
  LET p == evaluate_proposer_policies_for_promotion(t)
  IN IF proposes THEN [p EXCEPT !.proposed = NewProposer(t)] ELSE p

-------------------------------------------------------------------------------
(* Finalizer policies.                                                       *)
\* Mutants: the block of the pending policy need not be final; it has to be before
\* the last final one.
Mut_PromoteAtOnce(lib)  == fin.pending # NoPending
Mut_PromoteLate(lib)    == fin.pending # NoPending /\ fin.pending.num < lib

\* The pending policy becomes active with the block that it became pending in.
PendingBecomesActive(lib) == fin.pending # NoPending /\ fin.pending.num <= lib

SlotOpen(lib) == fin.pending = NoPending \/ PendingBecomesActive(lib)

Reversible(lib) == {p \in fin.proposed : p.num > lib}

\* Mutant: the oldest of the final proposals.
Mut_OldestTarget(lib) ==
  {p \in fin.proposed : p.num <= lib /\ \A r \in fin.proposed : r.num <= lib => p.num <= r.num}

\* The newest of the policies proposed in final blocks; the older ones are dropped.
Target(lib) ==
  {p \in fin.proposed : p.num <= lib /\ \A r \in fin.proposed : r.num <= lib => r.num <= p.num}

NextActive(lib) == IF PendingBecomesActive(lib) THEN fin.pending.policy ELSE fin.active

NextPending(lib, num) ==
  IF ~ SlotOpen(lib) THEN fin.pending
  ELSE IF Target(lib) = {} THEN NoPending
  ELSE [num |-> num, policy |-> (CHOOSE p \in Target(lib) : TRUE).policy]

NextProposed(lib) ==
  IF SlotOpen(lib) THEN Reversible(lib) ELSE Target(lib) \cup Reversible(lib)

\* get_finalizer_policies, for a block with these generations; 0 where the code has
\* "Logic error in finalizer policy retrieval".
get_finalizer_policies(ref) ==
  [active  |-> IF fin.active = ref.active THEN fin.active
               ELSE IF fin.latest_qc_claim_active = ref.active THEN fin.latest_qc_claim_active ELSE 0,
   pending |-> IF ref.pending \in {0, fin.active} THEN ref.pending
               ELSE IF fin.pending.policy = ref.pending THEN fin.pending.policy ELSE 0]

\* Mutant: the parent's active policy, whenever the claim moves on to a block with
\* another one.
Mut_LatestQcClaimActive(claim, active) ==
  IF gens[claim.block_num].active = active THEN 0
  ELSE IF claim.block_num > latest_qc_claim(core).block_num THEN fin.active
  ELSE get_finalizer_policies(gens[claim.block_num]).active

\* latest_qc_claim_block_active_finalizer_policy of a block with this active policy
LatestQcClaimActive(claim, active) ==
  IF gens[claim.block_num].active # active THEN get_finalizer_policies(gens[claim.block_num]).active ELSE 0

NextFinalizers(lib, num, claim, proposes) ==
  LET new == fin.generation + 1
  IN [active     |-> NextActive(lib),
      pending    |-> NextPending(lib, num),
      proposed   |-> NextProposed(lib) \cup (IF proposes THEN {[num |-> num, policy |-> new]} ELSE {}),
      generation |-> IF proposes THEN new ELSE fin.generation,
      latest_qc_claim_active |-> LatestQcClaimActive(claim, NextActive(lib))]

-------------------------------------------------------------------------------
\* finish_next, for a block that claims any QC that header validation accepts and may
\* propose a new policy of either kind.
finish_next(hash, gap, claim, new_finalizers, new_proposers) ==
  LET num == current_block_num(core) + 1
      ts  == head.timestamp + gap
      lib == NewLastFinal(core, claim)
  IN /\ claim.block_num <= current_block_num(core)
     /\ ClaimAccepted(core, claim)
     /\ core' = next(core, head, claim)
     /\ head' = BlockRef([num |-> num, hash |-> hash], ts)
     /\ prop' = NextProposers(ts, new_proposers)
     /\ fin' = NextFinalizers(lib, num, claim, new_finalizers)
     /\ gens' = [n \in lib..num |->
                   IF n = num THEN [active |-> NextActive(lib), pending |-> NextPending(lib, num).policy]
                   ELSE gens[n]]

Next ==
  \E hash \in Hash, gap \in Gaps, n \in GenesisNum..current_block_num(core), strong, f, p \in BOOLEAN :
    finish_next(hash, gap, QcClaim(n, strong), f, p)

Spec == Init /\ [][Next]_vars

-------------------------------------------------------------------------------
\* The pending policy or the proposals of fin.
InFlight == fin.proposed \cup (IF fin.pending = NoPending THEN {} ELSE {fin.pending})

\* The policies are tracked by generation, and gens has the blocks from the last
\* final block to the head.
TypeOK ==
  /\ fin.active \in Nat \ {0} /\ fin.latest_qc_claim_active \in Nat /\ fin.generation \in Nat
  /\ fin.pending = NoPending \/ fin.pending \in [num : Nat, policy : Nat \ {0}]
  /\ fin.proposed \subseteq [num : Nat, policy : Nat \ {0}]
  /\ gens \in [last_final_block_num(core)..current_block_num(core) -> [active : Nat \ {0}, pending : Nat]]

\* get_finalizer_policies, "Logic error in finalizer policy retrieval": the policies
\* that certify any block a child of the head may claim are still there, although the
\* head keeps three policies only, however policies and claims followed on each other.
PoliciesAreKnown ==
  \A n \in latest_qc_claim(core).block_num..current_block_num(core) :
    get_finalizer_policies(gens[n]) = gens[n]

\* A policy that becomes active was pending in the last final block and in every block
\* since: their certificates needed a quorum of the old and of the new policy
\* (evaluate_finalizer_policies_for_promotion).
ActivatedAfterDualQuorum ==
  [][fin'.active # fin.active =>
       \A n \in last_final_block_num(core')..current_block_num(core) :
         gens[n] = [active |-> fin.active, pending |-> fin'.active]]_vars

\* No promotion is late: the block of the pending policy is not final, and of the
\* policies proposed in final blocks only one waits, for the pending one.
NoPromotionIsMissed ==
  LET lib == last_final_block_num(core)
  IN /\ fin.pending # NoPending => fin.pending.num > lib
     /\ \A p, r \in fin.proposed : p.num <= lib => fin.pending # NoPending /\ (r.num <= lib => r = p)

\* Policies become pending and active in the order they were proposed in, and the last
\* one is never lost: it is the policy that the diff of the next proposal applies to
\* (get_last_proposed_finalizer_policy).
PoliciesInOrder ==
  /\ fin.latest_qc_claim_active < fin.active
  /\ \A p \in InFlight : fin.active < p.policy /\ p.policy <= fin.generation
  /\ \A p \in fin.proposed : fin.pending.policy < p.policy
  /\ \A p, r \in fin.proposed : p.num < r.num <=> p.policy < r.policy
  /\ fin.generation = fin.active \/ \E p \in InFlight : p.policy = fin.generation

\* The round of a slot.
Round(t) == get_current_round_start_slot(t)

\* A schedule becomes active in the first block of a round, in a final block's
\* knowledge, and at least two rounds after the round it was proposed in, also when
\* rounds have missing blocks or schedules are proposed in quick succession.
SchedulesTakeTwoRounds ==
  [][prop'.active # prop.active =>
       /\ Round(head.timestamp) < Round(head'.timestamp)
       /\ prop'.active.proposal_time <= last_final_block_timestamp(core)
       /\ Round(prop'.active.proposal_time) + 2 * producer_repetitions <= Round(head'.timestamp)]_vars

\* Of the schedules in flight the newer one has the higher version, and the active
\* one is older than both.
SchedulesInOrder ==
  /\ prop.pending # NoProposer => prop.active.version < prop.pending.version
  /\ prop.proposed # NoProposer =>
       /\ prop.active.version < prop.proposed.version
       /\ prop.pending.version < prop.proposed.version
       /\ prop.pending.proposal_time < prop.proposed.proposal_time
===============================================================================
