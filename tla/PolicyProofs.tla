----------------------------- MODULE PolicyProofs -----------------------------
(***************************************************************************)
(* The properties of PolicyChain, for branches of any length, any number of*)
(* proposals and any length of a round: finalizer policies first, then     *)
(* proposer policies.                                                      *)
(***************************************************************************)
EXTENDS PolicyChain, CoreLemmas

\* Most leaves are pure logic: Zenon is asked first, the SMT solver what it leaves open,
\* and Zenon once more when both ran out of time.
USE ZenonT(5), SMTT(60), ZenonT(60)

-------------------------------------------------------------------------------
(* Finalizer policies.                                                       *)

\* The head is later than every block its core has a reference to.
HeadFollows(c, h, g, k) ==
  /\ h \in Ref /\ h.block_id.num = k
  /\ \A n \in g..(k - 1) : c.refs[n - g + 1].timestamp < h.timestamp

Policy == [num : Nat, policy : Nat \ {0}]
Gens   == [active : Nat \ {0}, pending : Nat]

FinType(g, k) ==
  /\ fin.active \in Nat \ {0} /\ fin.latest_qc_claim_active \in Nat /\ fin.generation \in Nat
  /\ fin.pending = NoPending \/ fin.pending \in Policy
  /\ fin.proposed \subseteq Policy
  /\ gens \in [g..k -> Gens]

\* Since the block claimed last, the active policy changed at most once, from the one
\* that is remembered, and the pending policy of a block is still pending or active.
Remembered(t, k) ==
  /\ \A n \in t..k : gens[n].active = fin.active \/ gens[n].active = fin.latest_qc_claim_active
  /\ \A m, n \in t..k : m <= n /\ gens[m].active = fin.active => gens[n].active = fin.active
  /\ \A n \in t..k : gens[n].pending = 0 \/ gens[n].pending = fin.active \/ gens[n].pending = fin.pending.policy

\* Nothing changed since the pending policy became pending.
PendingSince(g, k) ==
  fin.pending # NoPending =>
    \A n \in g..k : n >= fin.pending.num => gens[n] = [active |-> fin.active, pending |-> fin.pending.policy]

ProposedBefore(k) == \A p \in fin.proposed : p.num <= k

FinInv(g, k, t) ==
  /\ FinType(g, k) /\ Remembered(t, k) /\ PendingSince(g, k) /\ ProposedBefore(k)
  /\ PoliciesInOrder

\* The inductive invariant of core, head, fin and gens.
PolicyInv ==
  \E f, g, k, t : View(core, f, g, k, t) /\ HeadFollows(core, head, g, k) /\ FinInv(g, k, t)

-------------------------------------------------------------------------------
\* finish_next on the core and the head.
LEMMA CoreStep ==
  ASSUME NEW f, NEW g, NEW k, NEW t, View(core, f, g, k, t), HeadFollows(core, head, g, k),
         NEW hash \in Hash, NEW gap \in Gaps, NEW claim \in Claim, NEW a, NEW b,
         finish_next(hash, gap, claim, a, b)
  PROVE  /\ k \in Nat /\ g \in Nat /\ t \in Nat /\ g <= t /\ t <= k
         /\ claim.block_num \in t..k /\ NewLastFinal(core, claim) \in g..claim.block_num
         /\ current_block_num(core) = k
         /\ View(core', NewFrontSource(core, claim), NewLastFinal(core, claim), k + 1, claim.block_num)
         /\ HeadFollows(core', head', NewLastFinal(core, claim), k + 1)
         /\ head'.timestamp = head.timestamp + gap
<1> DEFINE ff == NewFrontSource(core, claim)
           gg == NewLastFinal(core, claim)
<1>1. current_block_num(core) = k /\ latest_qc_claim(core).block_num = t
  BY ViewAccessors
<1>2. f \in Nat /\ g \in Nat /\ k \in Nat /\ t \in Nat /\ g <= f /\ f <= t /\ t <= k /\ claim.block_num \in Nat
  BY DEF View, Claim
<1>3. t <= claim.block_num /\ claim.block_num <= k
  BY <1>1, <1>2 DEF finish_next, ClaimAccepted
<1>4. head \in Ref /\ head.block_id.num = k /\ \A n \in g..(k - 1) : core.refs[n - g + 1].timestamp < head.timestamp
  BY DEF HeadFollows
<1>5. core' = next(core, head, claim)
  BY DEF finish_next
<1>6. CoreNext(core', core, f, g, k, ff, gg, head, claim)
  BY <1>3, <1>4, <1>5, NextView
<1>7. ff \in f..claim.block_num /\ gg \in g..ff
  BY <1>6 DEF CoreNext
<1>8. gg \in g..claim.block_num /\ gg \in Nat /\ gg <= k
  BY <1>2, <1>3, <1>7
<1>9. head' = BlockRef([num |-> k + 1, hash |-> hash], head.timestamp + gap)
  BY <1>1 DEF finish_next
<1>10. head.timestamp \in Nat /\ gap \in Nat /\ gap > 0
  BY <1>4, GapAssumption DEF Ref
<1>11. head' \in Ref /\ head'.block_id.num = k + 1 /\ head'.timestamp = head.timestamp + gap
  BY <1>2, <1>9, <1>10 DEF BlockRef, Ref, Id
<1>12. ASSUME NEW n \in gg..((k + 1) - 1)
       PROVE  core'.refs[n - gg + 1].timestamp < head'.timestamp
  <2>1. RefsNext(core'.refs, core.refs, g, k, gg, head)
    BY <1>6 DEF CoreNext
  <2>2. CASE n = k
    <3>1. core'.refs[n - gg + 1] = head
      BY <2>1, <2>2 DEF RefsNext
    <3> QED BY <1>10, <1>11, <3>1
  <2>3. CASE n \in gg..(k - 1)
    <3>1. n \in g..(k - 1)
      BY <1>2, <1>8, <2>3
    <3>2. core'.refs[n - gg + 1] = core.refs[n - g + 1]
      BY <2>1, <2>3 DEF RefsNext
    <3>3. core.refs[n - g + 1].timestamp < head.timestamp
      BY <1>4, <3>1
    <3>4. core.refs[n - g + 1].timestamp \in Nat
      <4>1. core.refs \in Seq(Ref) /\ Len(core.refs) = k - g
        BY DEF View, RefsView
      <4>2. n - g + 1 \in 1..Len(core.refs)
        BY <1>2, <3>1, <4>1
      <4>3. core.refs[n - g + 1] \in Ref
        BY <4>1, <4>2, ElementOfSeq
      <4> QED BY <4>3 DEF Ref
    <3> QED BY <1>10, <1>11, <3>2, <3>3, <3>4
  <2> QED BY <1>2, <1>8, <2>2, <2>3
<1>13. HeadFollows(core', head', gg, k + 1)
  BY <1>11, <1>12 DEF HeadFollows
<1>14. View(core', ff, gg, k + 1, claim.block_num)
  BY <1>6 DEF CoreNext
<1> QED BY <1>1, <1>2, <1>3, <1>8, <1>11, <1>13, <1>14

-------------------------------------------------------------------------------
\* finish_next on the finalizer policies: q is the claimed block, l the new last
\* final block.
FinStep(g, k, l, q, new) ==
  /\ fin' = [active     |-> NextActive(l),
             pending    |-> NextPending(l, k + 1),
             proposed   |-> NextProposed(l) \cup (IF new THEN {[num |-> k + 1, policy |-> fin.generation + 1]} ELSE {}),
             generation |-> IF new THEN fin.generation + 1 ELSE fin.generation,
             latest_qc_claim_active |->
               IF gens[q].active # NextActive(l) THEN get_finalizer_policies(gens[q]).active ELSE 0]
  /\ gens' = [n \in l..(k + 1) |->
                IF n = k + 1 THEN [active |-> NextActive(l), pending |-> NextPending(l, k + 1).policy]
                ELSE gens[n]]

\* finish_next is a step of this form on the finalizer policies.
LEMMA IsFinStep ==
  ASSUME NEW hash, NEW gap, NEW claim, NEW a, NEW b, NEW k, NEW g,
         current_block_num(core) = k, finish_next(hash, gap, claim, a, b)
  PROVE  FinStep(g, k, NewLastFinal(core, claim), claim.block_num, a)
BY DEF finish_next, FinStep, NextFinalizers, LatestQcClaimActive

\* What the three members are after a step.
LEMMA PendingCases ==
  ASSUME NEW g, NEW k, NEW l, NEW q, NEW new, FinStep(g, k, l, q, new), FinType(g, k),
         NEW k1, k1 = k + 1, k \in Nat, l \in Nat
  PROVE  \/ /\ fin.pending \in Policy /\ fin.pending.num > l
            /\ fin'.active = fin.active /\ fin'.pending = fin.pending
            /\ NextProposed(l) = Target(l) \cup Reversible(l)
         \/ /\ \/ fin.pending = NoPending /\ fin'.active = fin.active
               \/ fin.pending \in Policy /\ fin.pending.num <= l /\ fin'.active = fin.pending.policy
            /\ NextProposed(l) = Reversible(l)
            /\ \/ Target(l) = {} /\ fin'.pending = NoPending
               \/ \E p \in Target(l) : fin'.pending = [num |-> k1, policy |-> p.policy]
<1>1. /\ fin'.active = NextActive(l) /\ fin'.pending = NextPending(l, k1)
  BY DEF FinStep
<1>2. NoPending \notin Policy
  BY DEF NoPending, Policy
<1>3. CASE fin.pending \in Policy /\ fin.pending.num > l
  <2>1. ~ PendingBecomesActive(l) /\ ~ SlotOpen(l)
    BY <1>2, <1>3 DEF PendingBecomesActive, SlotOpen, Policy
  <2> QED BY <1>1, <1>3, <2>1 DEF NextActive, NextPending, NextProposed
<1>4. CASE ~ (fin.pending \in Policy /\ fin.pending.num > l)
  <2>1. SlotOpen(l)
    BY <1>4 DEF PendingBecomesActive, SlotOpen, Policy, FinType
  <2>2. NextProposed(l) = Reversible(l)
    BY <2>1 DEF NextProposed
  <2>3. \/ Target(l) = {} /\ fin'.pending = NoPending
        \/ \E p \in Target(l) : fin'.pending = [num |-> k1, policy |-> p.policy]
    BY <1>1, <2>1 DEF NextPending
  <2>4. \/ fin.pending = NoPending /\ fin'.active = fin.active
        \/ fin.pending \in Policy /\ fin.pending.num <= l /\ fin'.active = fin.pending.policy
    BY <1>1, <1>2, <1>4 DEF NextActive, PendingBecomesActive, FinType, Policy
  <2> QED BY <2>2, <2>3, <2>4
<1> QED BY <1>3, <1>4

\* The policies of every block from the claimed one on are at hand (get_finalizer_policies).
LEMMA RetrievalIsExact ==
  ASSUME NEW g, NEW k, NEW t, FinType(g, k), Remembered(t, k), NEW n \in t..k, n \in g..k
  PROVE  get_finalizer_policies(gens[n]) = gens[n]
<1>1. gens[n] \in Gens
  BY DEF FinType
<1>2. gens[n].active = fin.active \/ gens[n].active = fin.latest_qc_claim_active
  BY DEF Remembered
<1>3. gens[n].pending = 0 \/ gens[n].pending = fin.active \/ gens[n].pending = fin.pending.policy
  BY DEF Remembered
<1> QED BY <1>1, <1>2, <1>3 DEF get_finalizer_policies, Gens

\* The setting of the lemmas on a step.
Stepping(g, k, t, l, q, new) ==
  /\ g \in Nat /\ k \in Nat /\ t \in Nat /\ g <= t /\ t <= k /\ q \in t..k /\ l \in g..q
  /\ new \in BOOLEAN
  /\ FinInv(g, k, t) /\ FinStep(g, k, l, q, new)

\* The generations of the blocks after a step.
LEMMA GensAfter ==
  ASSUME NEW g, NEW k, NEW t, NEW l, NEW q, NEW new, Stepping(g, k, t, l, q, new)
  PROVE  /\ \A n \in l..k : gens'[n] = gens[n] /\ n \in g..k
         /\ gens'[k + 1] = [active |-> fin'.active, pending |-> fin'.pending.policy]
         /\ DOMAIN gens' = l..(k + 1)
<1>1. k + 1 \in l..(k + 1) /\ \A n \in l..k : n \in l..(k + 1) /\ n # k + 1 /\ n \in g..k
  BY DEF Stepping
<1> QED BY <1>1 DEF Stepping, FinStep

\* The types are kept.
LEMMA FinTypeStep ==
  ASSUME NEW g, NEW k, NEW t, NEW l, NEW q, NEW new, Stepping(g, k, t, l, q, new)
  PROVE  FinType(l, k + 1)'
<1>0. /\ g \in Nat /\ k \in Nat /\ t \in Nat /\ g <= t /\ t <= k /\ q \in t..k /\ l \in g..q /\ q \in g..k
      /\ FinStep(g, k, l, q, new) /\ FinType(g, k) /\ Remembered(t, k) /\ l \in Nat
  BY DEF Stepping, FinInv
<1>1. Target(l) \subseteq Policy /\ Reversible(l) \subseteq Policy
  BY <1>0 DEF Target, Reversible, FinType
<1>2. fin'.active \in Nat \ {0} /\ (fin'.pending = NoPending \/ fin'.pending \in Policy) /\ NextProposed(l) \subseteq Policy
  <2>1. PICK k1 : k1 = k + 1 /\ k1 \in Nat
    BY <1>0
  <2>2. /\ fin'.active = fin.active \/ (fin.pending \in Policy /\ fin'.active = fin.pending.policy)
        /\ NextProposed(l) \subseteq Target(l) \cup Reversible(l)
        /\ \/ fin'.pending = NoPending \/ (fin.pending \in Policy /\ fin'.pending = fin.pending)
           \/ \E p \in Target(l) : fin'.pending = [num |-> k1, policy |-> p.policy]
    BY <1>0, <2>1, PendingCases
  <2>3. \A p \in Policy : p.policy \in Nat \ {0} /\ [num |-> k1, policy |-> p.policy] \in Policy
    BY <2>1 DEF Policy
  <2>4. fin'.active \in Nat \ {0}
    BY <1>0, <2>2, <2>3 DEF FinType
  <2>5. fin'.pending = NoPending \/ fin'.pending \in Policy
    BY <1>1, <2>2, <2>3
  <2> QED BY <1>1, <2>2, <2>4, <2>5
<1>3. fin'.generation \in Nat /\ fin'.proposed \subseteq Policy
  <2>1. fin.generation \in Nat /\ fin.generation + 1 \in Nat \ {0} /\ k + 1 \in Nat
    BY <1>0 DEF FinType
  <2>2. [num |-> k + 1, policy |-> fin.generation + 1] \in Policy
    BY <2>1 DEF Policy
  <2>3. /\ fin'.generation = IF new THEN fin.generation + 1 ELSE fin.generation
        /\ fin'.proposed = NextProposed(l) \cup
                             (IF new THEN {[num |-> k + 1, policy |-> fin.generation + 1]} ELSE {})
    BY <1>0 DEF FinStep
  <2> QED BY <1>2, <2>1, <2>2, <2>3
<1>4. fin'.latest_qc_claim_active \in Nat
  <2>1. get_finalizer_policies(gens[q]) = gens[q] /\ gens[q] \in Gens
    BY <1>0, RetrievalIsExact DEF FinType
  <2> QED BY <1>0, <2>1 DEF FinStep, Gens
<1>5. gens' \in [l..(k + 1) -> Gens]
  <2>1. \A n \in l..k : gens'[n] = gens[n] /\ n \in g..k
    BY GensAfter
  <2>2. gens'[k + 1] \in Gens
    BY <1>2, GensAfter DEF Gens, Policy, NoPending
  <2>3. \A n \in l..(k + 1) : gens'[n] \in Gens
    BY <1>0, <2>1, <2>2 DEF FinType
  <2> QED BY <1>0, <2>3 DEF FinStep
<1> QED BY <1>2, <1>3, <1>4, <1>5 DEF FinType

\* A policy that becomes active was pending in every block from the new last final
\* one on, and the policy it replaces was active there.
LEMMA ActivationIsJoint ==
  ASSUME NEW g, NEW k, NEW t, NEW l, NEW q, NEW new, Stepping(g, k, t, l, q, new), fin'.active # fin.active
  PROVE  /\ fin'.active = fin.pending.policy
         /\ \A n \in l..k : gens[n] = [active |-> fin.active, pending |-> fin'.active]
<1>0. k \in Nat /\ l \in Nat /\ g \in Nat /\ g <= l /\ FinStep(g, k, l, q, new) /\ FinType(g, k) /\ PendingSince(g, k)
  BY DEF Stepping, FinInv
<1>1. fin.pending \in Policy /\ fin.pending.num <= l /\ fin'.active = fin.pending.policy
  <2>1. PICK k1 : k1 = k + 1 /\ k1 \in Nat
    BY <1>0
  <2> QED BY <1>0, <2>1, PendingCases
<1>2. fin.pending # NoPending /\ fin.pending.num \in Nat
  BY <1>1 DEF Policy, NoPending
<1>3. \A n \in l..k : n \in g..k /\ n >= fin.pending.num
  BY <1>0, <1>1, <1>2
<1> QED BY <1>0, <1>1, <1>2, <1>3 DEF PendingSince

\* What is remembered stays so.
LEMMA RememberedStep ==
  ASSUME NEW g, NEW k, NEW t, NEW l, NEW q, NEW new, Stepping(g, k, t, l, q, new)
  PROVE  Remembered(q, k + 1)'
<1>0. /\ g \in Nat /\ k \in Nat /\ t \in Nat /\ g <= t /\ t <= k /\ q \in t..k /\ l \in g..q /\ q \in g..k /\ q \in Nat
      /\ FinStep(g, k, l, q, new) /\ FinType(g, k) /\ Remembered(t, k) /\ l \in Nat
  BY DEF Stepping, FinInv
<1>1. /\ \A n \in q..k : gens'[n] = gens[n] /\ n \in t..k /\ n \in l..k
      /\ gens'[k + 1].active = fin'.active /\ gens'[k + 1].pending = fin'.pending.policy
      /\ \A n \in q..(k + 1) : n = k + 1 \/ n \in q..k
      /\ q \in q..k
  <2>1. \A n \in q..k : n \in t..k /\ n \in l..k
    BY <1>0
  <2>2. (\A n \in q..(k + 1) : n = k + 1 \/ n \in q..k) /\ q \in q..k
    BY <1>0
  <2>3. /\ \A n \in l..k : gens'[n] = gens[n]
        /\ gens'[k + 1] = [active |-> fin'.active, pending |-> fin'.pending.policy]
    BY GensAfter
  <2>4. gens'[k + 1].active = fin'.active /\ gens'[k + 1].pending = fin'.pending.policy
    BY <2>3
  <2> QED BY <2>1, <2>2, <2>3, <2>4
<1>2. fin'.latest_qc_claim_active = IF gens[q].active # fin'.active THEN gens[q].active ELSE 0
  <2>1. get_finalizer_policies(gens[q]) = gens[q]
    BY <1>0, RetrievalIsExact
  <2> QED BY <1>0, <2>1 DEF FinStep
<1>3. CASE fin'.active # fin.active
  <2>1. fin'.active = fin.pending.policy /\ \A n \in l..k : gens[n] = [active |-> fin.active, pending |-> fin'.active]
    BY <1>3, ActivationIsJoint
  <2>2. \A n \in q..k : gens'[n].active = fin.active /\ gens'[n].pending = fin'.active
    BY <1>1, <2>1
  <2>3. fin'.latest_qc_claim_active = fin.active
    BY <1>1, <1>2, <1>3, <2>1
  <2>4. \A n \in q..(k + 1) : gens'[n].active = fin'.active \/ gens'[n].active = fin'.latest_qc_claim_active
    BY <1>1, <2>2, <2>3
  <2>5. \A m, n \in q..(k + 1) : m <= n /\ gens'[m].active = fin'.active => gens'[n].active = fin'.active
    <3> TAKE m, n \in q..(k + 1)
    <3>1. m \in q..k => gens'[m].active # fin'.active
      BY <1>3, <2>2
    <3>2. m = k + 1 /\ m <= n => n = k + 1
      BY <1>0
    <3> QED BY <1>1, <3>1, <3>2
  <2>6. \A n \in q..(k + 1) : gens'[n].pending = fin'.active \/ gens'[n].pending = fin'.pending.policy
    BY <1>1, <2>2
  <2> QED BY <2>4, <2>5, <2>6 DEF Remembered
<1>4. CASE fin'.active = fin.active
  <2>1. ASSUME NEW n \in q..k, gens[n].active # fin.active
        PROVE  gens[n].active = fin'.latest_qc_claim_active
    <3>1. q \in t..k /\ n \in t..k /\ q <= n
      BY <1>0, <1>1
    <3>2. gens[q].active # fin.active
      BY <1>0, <2>1, <3>1 DEF Remembered
    <3>3. gens[q].active = fin.latest_qc_claim_active /\ gens[n].active = fin.latest_qc_claim_active
      BY <1>0, <2>1, <3>1, <3>2 DEF Remembered
    <3> QED BY <1>2, <1>4, <3>2, <3>3
  <2>2. \A n \in q..(k + 1) : gens'[n].active = fin'.active \/ gens'[n].active = fin'.latest_qc_claim_active
    BY <1>1, <1>4, <2>1
  <2>3. ASSUME NEW m \in q..(k + 1), NEW n \in q..(k + 1), m <= n, gens'[m].active = fin'.active
        PROVE  gens'[n].active = fin'.active
    <3>1. CASE n = k + 1
      BY <1>1, <3>1
    <3>2. CASE n \in q..k
      <4>1. m \in q..k
        BY <1>0, <2>3, <3>2
      <4>2. m \in t..k /\ n \in t..k /\ gens[m].active = fin.active
        BY <1>1, <1>4, <2>3, <3>2, <4>1
      <4>3. gens[n].active = fin.active
        BY <1>0, <2>3, <4>2 DEF Remembered
      <4> QED BY <1>1, <1>4, <3>2, <4>3
    <3> QED BY <1>1, <3>1, <3>2
  <2>4. ASSUME NEW n \in q..(k + 1)
        PROVE  gens'[n].pending = 0 \/ gens'[n].pending = fin'.active \/ gens'[n].pending = fin'.pending.policy
    <3>1. CASE n = k + 1
      BY <1>1, <3>1
    <3>2. CASE n \in q..k
      <4>1. gens'[n] = gens[n] /\ n \in t..k
        BY <1>1, <3>2
      <4>2. gens[n].pending = 0 \/ gens[n].pending = fin.active \/ gens[n].pending = fin.pending.policy
        BY <1>0, <4>1 DEF Remembered
      <4>3. gens[n].pending = fin.pending.policy =>
              fin.pending.policy = 0 \/ fin'.pending = fin.pending \/ fin'.active = fin.pending.policy
        <5>1. PICK k1 : k1 = k + 1 /\ k1 \in Nat
          BY <1>0
        <5> QED BY <1>0, <5>1, PendingCases DEF NoPending
      <4> QED BY <1>4, <4>1, <4>2, <4>3
    <3> QED BY <1>1, <3>1, <3>2
  <2> QED BY <2>2, <2>3, <2>4 DEF Remembered
<1> QED BY <1>3, <1>4

\* Nothing changes while a policy is pending.
LEMMA PendingSinceStep ==
  ASSUME NEW g, NEW k, NEW t, NEW l, NEW q, NEW new, Stepping(g, k, t, l, q, new)
  PROVE  PendingSince(l, k + 1)'
<1>0. /\ k \in Nat /\ l \in Nat /\ l <= k /\ FinStep(g, k, l, q, new) /\ FinType(g, k) /\ PendingSince(g, k)
  BY DEF Stepping, FinInv
<1>1. /\ \A n \in l..k : gens'[n] = gens[n] /\ n \in g..k
      /\ gens'[k + 1] = [active |-> fin'.active, pending |-> fin'.pending.policy]
  BY GensAfter
<1>2. PICK k1 : k1 = k + 1 /\ k1 \in Nat
  BY <1>0
<1>3. SUFFICES ASSUME fin'.pending # NoPending, NEW n \in l..(k + 1), n >= fin'.pending.num
               PROVE  gens'[n] = [active |-> fin'.active, pending |-> fin'.pending.policy]
  BY DEF PendingSince
<1>4. CASE n = k + 1
  BY <1>1, <1>4
<1>5. CASE n # k + 1
  <2>1. n \in l..k
    BY <1>0, <1>5
  <2>2. fin'.pending = fin.pending /\ fin'.active = fin.active
    <3>1. fin'.pending.num # k1
      BY <1>0, <1>2, <1>3, <2>1
    <3>2. ASSUME NEW p, fin'.pending = [num |-> k1, policy |-> p] PROVE FALSE
      BY <3>1, <3>2
    <3>3. ~ \E p \in Target(l) : fin'.pending = [num |-> k1, policy |-> p.policy]
      BY <3>2
    <3> QED BY <1>0, <1>2, <1>3, <3>3, PendingCases
  <2> QED BY <1>0, <1>1, <1>3, <2>1, <2>2 DEF PendingSince
<1> QED BY <1>4, <1>5

\* The proposals after a step: some of the old ones, and the new one, which is later
\* and newer than all of them.
LEMMA ProposedAfter ==
  ASSUME NEW g, NEW k, NEW t, NEW l, NEW q, NEW new, Stepping(g, k, t, l, q, new)
  PROVE  /\ NextProposed(l) \subseteq fin.proposed
         /\ \A p \in fin.proposed : /\ p \in Policy /\ p.num \in Nat /\ p.policy \in Nat
                                    /\ p.num <= k /\ p.policy <= fin.generation
         /\ fin.generation \in Nat /\ fin'.generation \in Nat /\ fin.generation <= fin'.generation
         /\ fin'.generation = fin.generation \/ fin'.generation = fin.generation + 1
         /\ \A p \in fin'.proposed : p \in NextProposed(l) \/ (p.num = k + 1 /\ p.policy = fin.generation + 1 /\ p.policy = fin'.generation)
         /\ NextProposed(l) \subseteq fin'.proposed
         /\ fin'.generation # fin.generation =>
              \E p \in fin'.proposed : p.num = k + 1 /\ p.policy = fin'.generation
<1>0. /\ k \in Nat /\ FinStep(g, k, l, q, new) /\ FinType(g, k) /\ ProposedBefore(k) /\ PoliciesInOrder /\ new \in BOOLEAN
  BY DEF Stepping, FinInv
<1>1. NextProposed(l) \subseteq fin.proposed
  BY DEF NextProposed, Target, Reversible
<1>2. \A p \in fin.proposed : p \in Policy /\ p.num \in Nat /\ p.policy \in Nat /\ p.num <= k /\ p.policy <= fin.generation
  BY <1>0 DEF FinType, Policy, ProposedBefore, PoliciesInOrder, InFlight
<1>3. fin.generation \in Nat
  BY <1>0 DEF FinType
<1>4. CASE new
  <2>1. fin'.generation = fin.generation + 1
    BY <1>0, <1>4 DEF FinStep
  <2>2. fin'.proposed = NextProposed(l) \cup {[num |-> k + 1, policy |-> fin.generation + 1]}
    BY <1>0, <1>4 DEF FinStep
  <2>3. PICK e : e \in fin'.proposed /\ e.num = k + 1 /\ e.policy = fin.generation + 1
                 /\ \A p \in fin'.proposed : p \in NextProposed(l) \/ p = e
    BY <2>2
  <2>4. \A p \in fin'.proposed : p \in NextProposed(l) \/
                                   (p.num = k + 1 /\ p.policy = fin.generation + 1 /\ p.policy = fin'.generation)
    BY <2>1, <2>3
  <2>5. NextProposed(l) \subseteq fin'.proposed /\ \E p \in fin'.proposed : p.num = k + 1 /\ p.policy = fin'.generation
    BY <2>1, <2>2, <2>3
  <2> QED BY <1>1, <1>2, <1>3, <2>1, <2>4, <2>5
<1>5. CASE ~ new
  <2>1. fin'.generation = fin.generation /\ fin'.proposed = NextProposed(l)
    BY <1>0, <1>5 DEF FinStep
  <2> QED BY <1>1, <1>2, <1>3, <2>1
<1> QED BY <1>0, <1>4, <1>5

\* What PoliciesInOrder says of the policies before a step.
LEMMA OrderBefore ==
  ASSUME NEW g, NEW k, NEW t, FinInv(g, k, t)
  PROVE  /\ fin.active \in Nat /\ fin.active > 0 /\ fin.latest_qc_claim_active < fin.active
         /\ \A p \in fin.proposed : fin.active < p.policy /\ fin.pending.policy < p.policy
         /\ fin.pending = NoPending
              \/ (fin.pending \in Policy /\ fin.active < fin.pending.policy /\ fin.pending.policy <= fin.generation)
         /\ \A p, r \in fin.proposed : p.num < r.num <=> p.policy < r.policy
         /\ \/ fin.generation = fin.active
            \/ fin.pending \in Policy /\ fin.generation = fin.pending.policy
            \/ \E p \in fin.proposed : p.policy = fin.generation
<1>1. FinType(g, k) /\ PoliciesInOrder
  BY DEF FinInv
<1>2. fin.pending = NoPending => InFlight = fin.proposed
  BY DEF InFlight
<1>3. fin.pending # NoPending => InFlight = fin.proposed \cup {fin.pending} /\ fin.pending \in Policy
  BY <1>1 DEF InFlight, FinType
<1> QED BY <1>1, <1>2, <1>3 DEF FinType, PoliciesInOrder

\* Of the policies proposed in final blocks, the target is the newest.
LEMMA TargetIsNewest ==
  ASSUME NEW g, NEW k, NEW t, NEW l, NEW q, NEW new, Stepping(g, k, t, l, q, new)
  PROVE  /\ \A p \in Target(l) : p \in fin.proposed /\ p.num <= l
         /\ \A p \in Target(l), r \in Reversible(l) : p.policy < r.policy
         /\ \A p, r \in Target(l) : r = p
         /\ \A p \in fin.proposed : p.policy = fin.generation => p \in Target(l) \/ p \in Reversible(l)
<1>0. /\ l \in Nat /\ FinInv(g, k, t)
  BY DEF Stepping
<1>1. \A p \in fin.proposed : p \in Policy /\ p.num \in Nat /\ p.policy \in Nat /\ p.policy <= fin.generation
  BY ProposedAfter
<1>2. \A p, r \in fin.proposed : p.num < r.num <=> p.policy < r.policy
  BY <1>0, OrderBefore
<1>3. \A p \in Target(l) : p \in fin.proposed /\ p.num <= l /\ \A r \in fin.proposed : r.num <= l => r.num <= p.num
  BY DEF Target
<1>4. \A r \in Reversible(l) : r \in fin.proposed /\ r.num > l
  BY DEF Reversible
<1>5. ASSUME NEW p \in Target(l), NEW r \in Reversible(l) PROVE p.policy < r.policy
  BY <1>0, <1>1, <1>2, <1>3, <1>4
<1>6. ASSUME NEW p \in Target(l), NEW r \in Target(l) PROVE r = p
  <2>1. p.num = r.num
    BY <1>1, <1>3
  <2>2. p.policy = r.policy
    BY <1>1, <1>2, <1>3, <2>1
  <2>3. p \in Policy /\ r \in Policy
    BY <1>1, <1>3
  <2> QED BY <2>1, <2>2, <2>3 DEF Policy
<1>7. ASSUME NEW p \in fin.proposed, p.policy = fin.generation, p \notin Reversible(l)
      PROVE  p \in Target(l)
  <2>1. p.num <= l
    BY <1>0, <1>1, <1>7 DEF Reversible
  <2>2. \A r \in fin.proposed : r.num <= p.num
    BY <1>1, <1>2, <1>7
  <2> QED BY <2>1, <2>2 DEF Target
<1> QED BY <1>3, <1>5, <1>6, <1>7

\* No promotion is missed by a step.
LEMMA NoneMissedStep ==
  ASSUME NEW g, NEW k, NEW t, NEW l, NEW q, NEW new, Stepping(g, k, t, l, q, new)
  PROVE  /\ fin'.pending # NoPending => fin'.pending.num > l
         /\ \A p, r \in fin'.proposed : p.num <= l => fin'.pending # NoPending /\ (r.num <= l => r = p)
<1>0. k \in Nat /\ l \in Nat /\ l <= k /\ FinStep(g, k, l, q, new) /\ FinType(g, k)
  BY DEF Stepping, FinInv
<1>1. PICK k1 : k1 = k + 1 /\ k1 \in Nat /\ l < k1
  BY <1>0
<1>2. NoPending \notin Policy
  BY DEF NoPending, Policy
<1>3. \A p \in fin'.proposed : p.num <= l => p \in NextProposed(l)
  BY <1>0, ProposedAfter
<1>4. \A p \in Reversible(l) : ~ (p.num <= l)
  <2>1. \A p \in fin.proposed : p.num \in Nat
    BY ProposedAfter
  <2> QED BY <1>0, <2>1 DEF Reversible
<1>5. CASE /\ fin.pending \in Policy /\ fin.pending.num > l /\ fin'.pending = fin.pending
           /\ NextProposed(l) = Target(l) \cup Reversible(l)
  <2>1. \A p \in fin'.proposed : p.num <= l => p \in Target(l)
    BY <1>3, <1>4, <1>5
  <2>2. \A p, r \in Target(l) : r = p
    BY TargetIsNewest
  <2> QED BY <1>2, <1>5, <2>1, <2>2
<1>6. CASE /\ NextProposed(l) = Reversible(l)
           /\ fin'.pending = NoPending \/ \E p \in Target(l) : fin'.pending = [num |-> k1, policy |-> p.policy]
  <2>1. ~ \E p \in fin'.proposed : p.num <= l
    BY <1>3, <1>4, <1>6
  <2>2. fin'.pending # NoPending => fin'.pending.num > l
    <3>1. ASSUME NEW x, fin'.pending = [num |-> k1, policy |-> x] PROVE fin'.pending.num > l
      BY <1>0, <1>1, <3>1
    <3> QED BY <1>6, <3>1
  <2> QED BY <2>1, <2>2
<1> QED BY <1>0, <1>1, <1>5, <1>6, PendingCases

\* The order of the policies is kept.
LEMMA OrderStep ==
  ASSUME NEW g, NEW k, NEW t, NEW l, NEW q, NEW new, Stepping(g, k, t, l, q, new)
  PROVE  PoliciesInOrder'
<1>0. /\ k \in Nat /\ l \in Nat /\ FinStep(g, k, l, q, new) /\ FinType(g, k) /\ FinInv(g, k, t)
      /\ Remembered(t, k) /\ q \in t..k /\ q \in g..k
  BY DEF Stepping, FinInv
<1>1. PICK k1 : k1 = k + 1 /\ k1 \in Nat
  BY <1>0
<1>2. /\ fin.active \in Nat /\ fin.active > 0 /\ fin.latest_qc_claim_active < fin.active
      /\ \A p \in fin.proposed : fin.active < p.policy /\ fin.pending.policy < p.policy
      /\ fin.pending = NoPending
           \/ (fin.pending \in Policy /\ fin.active < fin.pending.policy /\ fin.pending.policy <= fin.generation)
      /\ \A p, r \in fin.proposed : p.num < r.num <=> p.policy < r.policy
      /\ \/ fin.generation = fin.active
         \/ fin.pending \in Policy /\ fin.generation = fin.pending.policy
         \/ \E p \in fin.proposed : p.policy = fin.generation
  BY <1>0, OrderBefore
<1>3. /\ NextProposed(l) \subseteq fin.proposed
      /\ \A p \in fin.proposed : /\ p \in Policy /\ p.num \in Nat /\ p.policy \in Nat
                                 /\ p.num <= k /\ p.policy <= fin.generation
      /\ fin.generation \in Nat /\ fin'.generation \in Nat /\ fin.generation <= fin'.generation
      /\ fin'.generation = fin.generation \/ fin'.generation = fin.generation + 1
      /\ \A p \in fin'.proposed : p \in NextProposed(l) \/ (p.num = k + 1 /\ p.policy = fin.generation + 1 /\ p.policy = fin'.generation)
      /\ NextProposed(l) \subseteq fin'.proposed
      /\ fin'.generation # fin.generation =>
           \E p \in fin'.proposed : p.num = k + 1 /\ p.policy = fin'.generation
  BY ProposedAfter
<1>4. /\ \A p \in Target(l) : p \in fin.proposed
      /\ \A p \in Target(l), r \in Reversible(l) : p.policy < r.policy
      /\ \A p, r \in Target(l) : r = p
      /\ \A p \in fin.proposed : p.policy = fin.generation => p \in Target(l) \/ p \in Reversible(l)
  BY TargetIsNewest
<1>5. \A p \in Policy : p.policy \in Nat /\ p.policy > 0 /\ p # NoPending
  BY DEF Policy, NoPending
<1>6. fin.latest_qc_claim_active \in Nat
  BY <1>0 DEF FinType
<1>8. fin.active <= fin.generation
  BY <1>2, <1>3, <1>5
\* The active policy grows, and stays below what is in flight.
<1>7. /\ fin'.active \in Nat /\ fin.active <= fin'.active /\ fin'.active <= fin.generation
      /\ \A p \in NextProposed(l) : fin'.active < p.policy
  BY <1>0, <1>1, <1>2, <1>3, <1>5, <1>8, PendingCases
<1>9. fin'.latest_qc_claim_active < fin'.active
  <2>1. get_finalizer_policies(gens[q]) = gens[q]
    BY <1>0, RetrievalIsExact
  <2>2. fin'.latest_qc_claim_active = IF gens[q].active # fin'.active THEN gens[q].active ELSE 0
    BY <1>0, <2>1 DEF FinStep
  <2>3. gens[q].active = fin.active \/ gens[q].active = fin.latest_qc_claim_active
    BY <1>0 DEF Remembered
  <2> QED BY <1>2, <1>6, <1>7, <2>2, <2>3
\* The pending policy is between the active one and the proposals.
<1>10. \/ fin'.pending = NoPending
       \/ fin'.pending = fin.pending /\ fin.pending \in Policy /\ fin'.active = fin.active
       \/ \E p \in Target(l) : /\ fin'.pending = [num |-> k1, policy |-> p.policy]
                               /\ NextProposed(l) = Reversible(l)
  BY <1>0, <1>1, PendingCases
<1>11. ASSUME NEW p \in Target(l), fin'.pending = [num |-> k1, policy |-> p.policy], NextProposed(l) = Reversible(l)
       PROVE  /\ fin'.pending.policy = p.policy /\ p \in fin.proposed /\ p.policy \in Nat
              /\ fin'.active < p.policy /\ p.policy <= fin.generation
              /\ \A r \in NextProposed(l) : p.policy < r.policy
  <2>1. fin'.pending.policy = p.policy /\ p \in fin.proposed
    BY <1>4, <1>11
  <2>2. fin'.active < p.policy
    BY <1>0, <1>1, <1>2, <2>1, PendingCases
  <2> QED BY <1>3, <1>4, <1>11, <2>1, <2>2
<1>12. /\ fin'.pending.policy \in Nat /\ fin'.pending.policy <= fin.generation
       /\ fin'.pending # NoPending => fin'.active < fin'.pending.policy
       /\ \A r \in NextProposed(l) : fin'.pending.policy < r.policy
  <2>1. CASE fin'.pending = NoPending
    <3>1. fin'.pending.policy = 0
      BY <2>1 DEF NoPending
    <3>2. \A r \in NextProposed(l) : r.policy \in Nat /\ r.policy > 0
      BY <1>3, <1>5
    <3> QED BY <1>3, <2>1, <3>1, <3>2
  <2>2. CASE fin'.pending = fin.pending /\ fin.pending \in Policy /\ fin'.active = fin.active
    BY <1>2, <1>3, <1>5, <2>2
  <2> QED BY <1>10, <1>11, <2>1, <2>2
<1>13. \A p \in fin'.proposed : /\ p.num \in Nat /\ p.policy \in Nat
                                /\ fin'.active < p.policy /\ p.policy <= fin'.generation /\ fin'.pending.policy < p.policy
  <2> TAKE p \in fin'.proposed
  <2>1. CASE p \in NextProposed(l)
    BY <1>3, <1>7, <1>12, <2>1
  <2>2. CASE p.num = k + 1 /\ p.policy = fin.generation + 1 /\ p.policy = fin'.generation
    BY <1>0, <1>3, <1>7, <1>12, <2>2
  <2> QED BY <1>3, <2>1, <2>2
<1>14. ASSUME NEW p \in fin'.proposed, NEW r \in fin'.proposed
       PROVE  p.num < r.num <=> p.policy < r.policy
  <2>1. CASE p \in NextProposed(l) /\ r \in NextProposed(l)
    BY <1>2, <1>3, <2>1
  <2>2. \A x \in NextProposed(l) : x.num \in Nat /\ x.policy \in Nat /\ x.num < k + 1 /\ x.policy < fin.generation + 1
    BY <1>0, <1>3
  <2>3. CASE p \notin NextProposed(l) \/ r \notin NextProposed(l)
    BY <1>0, <1>3, <1>13, <2>2, <2>3
  <2> QED BY <2>1, <2>3
<1>15. \/ fin'.generation = fin'.active
       \/ fin'.pending # NoPending /\ fin'.pending.policy = fin'.generation
       \/ \E p \in fin'.proposed : p.policy = fin'.generation
  <2>1. CASE fin'.generation # fin.generation
    BY <1>3, <2>1
  <2>2. CASE fin'.generation = fin.generation /\ fin.generation = fin.active
    BY <1>2, <1>3, <1>7, <2>2
  <2>3. CASE fin'.generation = fin.generation /\ fin.pending \in Policy /\ fin.generation = fin.pending.policy
    BY <1>0, <1>1, <1>5, <2>3, PendingCases
  <2>4. ASSUME fin'.generation = fin.generation, NEW p \in fin.proposed, p.policy = fin.generation
        PROVE  \/ fin'.pending # NoPending /\ fin'.pending.policy = fin'.generation
               \/ \E r \in fin'.proposed : r.policy = fin'.generation
    <3>1. CASE p \in NextProposed(l)
      BY <1>3, <2>4, <3>1
    <3>2. CASE p \notin NextProposed(l)
      <4>1. p \in Target(l) /\ NextProposed(l) # Target(l) \cup Reversible(l)
        BY <1>0, <1>1, <1>4, <2>4, <3>2, PendingCases
      <4>2. PICK r \in Target(l) : fin'.pending = [num |-> k1, policy |-> r.policy]
        BY <1>0, <1>1, <4>1, PendingCases
      <4>3. r = p
        BY <1>4, <4>1, <4>2
      <4>4. fin'.pending.policy = fin'.generation /\ fin'.pending.policy > 0
        BY <1>3, <1>5, <2>4, <4>2, <4>3
      <4> QED BY <4>4 DEF NoPending
    <3> QED BY <3>1, <3>2
  <2> QED BY <1>2, <2>1, <2>2, <2>3, <2>4
<1>16. InFlight' = fin'.proposed \cup (IF fin'.pending = NoPending THEN {} ELSE {fin'.pending})
  BY DEF InFlight
<1>17. \A p \in InFlight' : fin'.active < p.policy /\ p.policy <= fin'.generation
  BY <1>3, <1>12, <1>13, <1>16
<1>18. fin'.generation = fin'.active \/ \E p \in InFlight' : p.policy = fin'.generation
  BY <1>15, <1>16
<1> QED BY <1>9, <1>13, <1>14, <1>17, <1>18 DEF PoliciesInOrder

\* A step keeps the finalizer policies in shape.
LEMMA FinInvStep ==
  ASSUME NEW g, NEW k, NEW t, NEW l, NEW q, NEW new, Stepping(g, k, t, l, q, new)
  PROVE  FinInv(l, k + 1, q)'
<1>1. ProposedBefore(k + 1)'
  <2>1. k \in Nat
    BY DEF Stepping
  <2> QED BY <2>1, ProposedAfter DEF ProposedBefore
<1> QED BY <1>1, FinTypeStep, RememberedStep, PendingSinceStep, OrderStep DEF FinInv

\* The genesis block.
LEMMA PolicyInit == Init => PolicyInv
<1> SUFFICES ASSUME Init PROVE PolicyInv
  OBVIOUS
<1>1. PICK hash \in Hash : core = GenesisCore(hash) /\ head = BlockRef(GenesisId(hash), GenesisTime)
  BY DEF Init
<1>2. View(core, G, G, G, G)
  BY <1>1, GenesisTied DEF IInv
<1>3. G \in Nat /\ GenesisTime \in Nat /\ G..(G - 1) = {} /\ G..G = {G}
  BY GenesisAssumption DEF G
<1>4. HeadFollows(core, head, G, G)
  <2>1. head \in Ref /\ head.block_id.num = G
    BY <1>1, <1>3 DEF BlockRef, GenesisId, Ref, Id, G
  <2> QED BY <1>3, <2>1 DEF HeadFollows
<1>5. /\ fin = [active |-> 1, pending |-> NoPending, proposed |-> {}, generation |-> 1, latest_qc_claim_active |-> 0]
      /\ gens = [n \in {G} |-> [active |-> 1, pending |-> 0]]
  BY DEF Init, G
<1>6. gens[G].active = 1 /\ gens[G].pending = 0 /\ gens \in [G..G -> Gens]
  BY <1>3, <1>5 DEF Gens
<1>7. FinType(G, G)
  BY <1>5, <1>6 DEF FinType
<1>8. Remembered(G, G) /\ PendingSince(G, G) /\ ProposedBefore(G)
  BY <1>3, <1>5, <1>6 DEF Remembered, PendingSince, ProposedBefore
<1>9. PoliciesInOrder
  BY <1>5 DEF PoliciesInOrder, InFlight, NoPending
<1> QED BY <1>2, <1>4, <1>7, <1>8, <1>9 DEF PolicyInv, FinInv

\* A step in terms of the lemmas above.
LEMMA NextIsStep ==
  ASSUME PolicyInv, Next
  PROVE  \E f, g, k, t, ff, l, q, new :
           /\ View(core, f, g, k, t) /\ View(core', ff, l, k + 1, q)
           /\ HeadFollows(core', head', l, k + 1)
           /\ Stepping(g, k, t, l, q, new)
<1>1. PICK f, g, k, t : View(core, f, g, k, t) /\ HeadFollows(core, head, g, k) /\ FinInv(g, k, t)
  BY DEF PolicyInv
<1>2. PICK hash \in Hash, gap \in Gaps, n \in GenesisNum..current_block_num(core), strong, a, b \in BOOLEAN :
        finish_next(hash, gap, QcClaim(n, strong), a, b)
  BY DEF Next
<1>3. PICK claim \in Claim : claim = QcClaim(n, strong)
  <2>1. QcClaim(n, strong) \in Claim
    <3>1. current_block_num(core) \in Nat
      BY <1>1, ViewAccessors DEF View
    <3>2. n \in Nat
      BY <3>1, GenesisAssumption
    <3> QED BY <3>2 DEF QcClaim, Claim
  <2> QED BY <2>1
<1>4. /\ k \in Nat /\ g \in Nat /\ t \in Nat /\ g <= t /\ t <= k
      /\ claim.block_num \in t..k /\ NewLastFinal(core, claim) \in g..claim.block_num
      /\ current_block_num(core) = k
      /\ View(core', NewFrontSource(core, claim), NewLastFinal(core, claim), k + 1, claim.block_num)
      /\ HeadFollows(core', head', NewLastFinal(core, claim), k + 1)
  <2>1. finish_next(hash, gap, claim, a, b)
    BY <1>2, <1>3
  <2> QED BY <1>1, <2>1, CoreStep
<1>5. FinStep(g, k, NewLastFinal(core, claim), claim.block_num, a)
  BY <1>2, <1>3, <1>4, IsFinStep
<1>6. Stepping(g, k, t, NewLastFinal(core, claim), claim.block_num, a)
  BY <1>1, <1>4, <1>5 DEF Stepping
<1> QED BY <1>1, <1>4, <1>6

\* Every block keeps the invariant of the finalizer policies.
LEMMA PolicyNext == PolicyInv /\ [Next]_vars => PolicyInv'
<1> SUFFICES ASSUME PolicyInv, [Next]_vars PROVE PolicyInv'
  OBVIOUS
<1>1. CASE UNCHANGED vars
  <2>1. PICK f, g, k, t : View(core, f, g, k, t) /\ HeadFollows(core, head, g, k) /\ FinInv(g, k, t)
    BY DEF PolicyInv
  <2>2. core' = core /\ head' = head /\ fin' = fin /\ gens' = gens
    BY <1>1 DEF vars
  <2>3. PoliciesInOrder'
    <3>1. InFlight' = InFlight
      BY <2>2 DEF InFlight
    <3> QED BY <2>1, <2>2, <3>1 DEF FinInv, PoliciesInOrder
  <2>4. FinInv(g, k, t)'
    BY <2>1, <2>2, <2>3 DEF FinInv, FinType, Remembered, PendingSince, ProposedBefore
  <2> QED BY <2>1, <2>2, <2>4 DEF PolicyInv
<1>2. CASE Next
  <2>1. PICK f, g, k, t, ff, l, q, new :
           /\ View(core', ff, l, k + 1, q) /\ HeadFollows(core', head', l, k + 1)
           /\ Stepping(g, k, t, l, q, new)
    BY <1>2, NextIsStep
  <2>2. FinInv(l, k + 1, q)'
    BY <2>1, FinInvStep
  <2> QED BY <2>1, <2>2 DEF PolicyInv
<1> QED BY <1>1, <1>2

\* The inductive invariant holds on every branch.
THEOREM PolicyInvariance == Spec => []PolicyInv
  BY PolicyInit, PolicyNext, PTL DEF Spec

-------------------------------------------------------------------------------
\* What the invariant says of the properties checked by the run.
LEMMA PolicyInvImplies == PolicyInv => TypeOK /\ PoliciesAreKnown /\ PoliciesInOrder
<1> SUFFICES ASSUME NEW f, NEW g, NEW k, NEW t, View(core, f, g, k, t), FinInv(g, k, t)
             PROVE  TypeOK /\ PoliciesAreKnown /\ PoliciesInOrder
  BY DEF PolicyInv
<1>1. current_block_num(core) = k /\ latest_qc_claim(core).block_num = t /\ last_final_block_num(core) = g
  BY ViewAccessors
<1>2. g \in Nat /\ k \in Nat /\ t \in Nat /\ g <= t /\ t <= k
  BY DEF View
<1>3. FinType(g, k) /\ Remembered(t, k) /\ PoliciesInOrder
  BY DEF FinInv
<1>4. TypeOK
  BY <1>1, <1>3 DEF FinType, TypeOK, Policy, Gens
<1>5. ASSUME NEW n \in t..k PROVE get_finalizer_policies(gens[n]) = gens[n]
  <2>1. n \in g..k
    BY <1>2
  <2> QED BY <1>3, <2>1, RetrievalIsExact
<1> QED BY <1>1, <1>3, <1>4, <1>5 DEF PoliciesAreKnown

\* The members of a header state keep their types (block_header_state.hpp), on
\* branches of any length.
THEOREM PolicyTypes == Spec => []TypeOK
  BY PolicyInvariance, PolicyInvImplies, PTL

\* get_finalizer_policies never fails with its "Logic error" for a block that a child
\* may claim, and returns the policies that were active and pending there.
THEOREM PoliciesAreKnownTheorem == Spec => []PoliciesAreKnown
  BY PolicyInvariance, PolicyInvImplies, PTL

\* Finalizer policies become pending and active in the order of their proposals, and
\* the newest one is not lost (evaluate_finalizer_policies_for_promotion).
THEOREM PoliciesInOrderTheorem == Spec => []PoliciesInOrder
  BY PolicyInvariance, PolicyInvImplies, PTL

\* A finalizer policy becomes active only when it was pending from the last final
\* block on (evaluate_finalizer_policies_for_promotion).
THEOREM DualQuorumTheorem == Spec => ActivatedAfterDualQuorum
<1>1. ASSUME PolicyInv, Next, fin'.active # fin.active
      PROVE  \A n \in last_final_block_num(core')..current_block_num(core) :
               gens[n] = [active |-> fin.active, pending |-> fin'.active]
  <2>1. PICK f, g, k, t, ff, l, q, new :
           /\ View(core, f, g, k, t) /\ View(core', ff, l, k + 1, q)
           /\ Stepping(g, k, t, l, q, new)
    BY <1>1, NextIsStep
  <2>2. last_final_block_num(core') = l /\ current_block_num(core) = k
    BY <2>1, ViewAccessors
  <2> QED BY <1>1, <2>1, <2>2, ActivationIsJoint
<1>2. PolicyInv /\ [Next]_vars =>
        [fin'.active # fin.active =>
           \A n \in last_final_block_num(core')..current_block_num(core) :
             gens[n] = [active |-> fin.active, pending |-> fin'.active]]_vars
  BY <1>1
<1> QED BY <1>2, PolicyInvariance, PTL DEF Spec, ActivatedAfterDualQuorum

\* No promotion of a finalizer policy is missed.
THEOREM NoPromotionTheorem == Spec => []NoPromotionIsMissed
<1>1. Init => NoPromotionIsMissed
  BY DEF Init, NoPromotionIsMissed
<1>2. NoPromotionIsMissed /\ PolicyInv /\ [Next]_vars => NoPromotionIsMissed'
  <2> SUFFICES ASSUME NoPromotionIsMissed, PolicyInv, [Next]_vars PROVE NoPromotionIsMissed'
    OBVIOUS
  <2>1. CASE UNCHANGED vars
    BY <2>1 DEF vars, NoPromotionIsMissed
  <2>2. CASE Next
    <3>1. PICK f, g, k, t, ff, l, q, new : View(core', ff, l, k + 1, q) /\ Stepping(g, k, t, l, q, new)
      BY <2>2, NextIsStep
    <3>2. last_final_block_num(core') = l
      BY <3>1, ViewAccessors
    <3>3. /\ fin'.pending # NoPending => fin'.pending.num > l
          /\ \A p, r \in fin'.proposed : p.num <= l => fin'.pending # NoPending /\ (r.num <= l => r = p)
      BY <3>1, NoneMissedStep
    <3>4. last_final_block_num(core)' = l
      BY <3>2 DEF last_final_block_num, FrontLink
    <3> QED BY <3>3, <3>4 DEF NoPromotionIsMissed
  <2> QED BY <2>1, <2>2
<1> QED BY <1>1, <1>2, PolicyInvariance, PTL DEF Spec

-------------------------------------------------------------------------------
(* Proposer policies.                                                        *)

R == producer_repetitions

\* A round starts at a multiple of its length.
LEMMA RoundIsMultiple ==
  ASSUME NEW t \in Nat
  PROVE  \E n \in Nat : Round(t) = R * n /\ R * n <= t /\ t < R * n + R
<1>1. R \in Nat /\ R > 0
  BY RoundAssumption DEF R
<1>2. t \div R \in Nat
  BY <1>1
<1>3. t = R * (t \div R) + (t % R)
  BY <1>1
<1>4. t % R \in 0..(R - 1)
  BY <1>1
<1>5. t - (t % R) = R * (t \div R)
  BY <1>1, <1>2, <1>3, <1>4
<1> QED BY <1>1, <1>2, <1>3, <1>4, <1>5 DEF Round, get_current_round_start_slot, R

\* Multiples of the length of a round are that length apart.
LEMMA Multiples ==
  ASSUME NEW r \in Nat, r > 0, NEW a \in Nat, NEW b \in Nat, r * a < r * b
  PROVE  r * a + r <= r * b
<1>1. a < b
  OBVIOUS
<1>2. a + 1 <= b
  BY <1>1
<1>3. r * (a + 1) <= r * b
  BY <1>2
<1> QED BY <1>3

\* The rounds of slots (get_current_round_start_slot).
LEMMA Rounds ==
  ASSUME NEW t \in Nat, NEW u \in Nat
  PROVE  /\ R \in Nat /\ R > 0 /\ Round(t) \in Nat /\ Round(t) <= t /\ t < Round(t) + R
         /\ t < Round(u) => Round(t) + R <= Round(u)
         /\ Round(t) + R <= u => Round(t) + R <= Round(u)
         /\ t <= u => Round(t) <= Round(u)
<1>1. R \in Nat /\ R > 0
  BY RoundAssumption DEF R
<1>2. PICK a \in Nat : Round(t) = R * a /\ R * a <= t /\ t < R * a + R
  BY RoundIsMultiple
<1>3. PICK b \in Nat : Round(u) = R * b /\ R * b <= u /\ u < R * b + R
  BY RoundIsMultiple
<1>4. R * a \in Nat /\ R * b \in Nat
  BY <1>1
<1>5. t < Round(u) => Round(t) + R <= Round(u)
  <2>1. t < Round(u) => R * a < R * b
    BY <1>2, <1>3, <1>4
  <2> QED BY <1>1, <1>2, <1>3, <2>1, Multiples
<1>6. Round(t) + R <= u => Round(t) + R <= Round(u)
  <2>1. Round(t) + R <= u => R * a < R * b
    BY <1>1, <1>2, <1>3, <1>4
  <2> QED BY <1>1, <1>2, <1>3, <2>1, Multiples
<1>7. t <= u => Round(t) <= Round(u)
  <2>1. R * b < R * a => R * b + R <= R * a
    BY <1>1, Multiples
  <2> QED BY <1>1, <1>2, <1>3, <1>4, <2>1
<1> QED BY <1>1, <1>2, <1>4, <1>5, <1>6, <1>7

Proposer == [version : Nat, proposal_time : Nat]

\* The inductive invariant of the proposer policies, at a head with this timestamp.
PropInv(time) ==
  /\ time \in Nat
  /\ prop.active \in Proposer /\ prop.pending \in Proposer /\ prop.proposed \in Proposer
  /\ prop.active.version > 0
  /\ prop.pending # NoProposer => Round(prop.pending.proposal_time) + R <= Round(time)
  /\ prop.proposed # NoProposer => prop.proposed.proposal_time <= time
  /\ SchedulesInOrder

\* The active policy of the next block, and what is left in flight.
LEMMA ActivationCases ==
  ASSUME NEW t, NEW p, p = AfterActivation(get_active_proposer_policy_for_block_at(t))
  PROVE  \/ p.active = prop.active /\ p.pending = prop.pending /\ p.proposed = prop.proposed
         \/ /\ p.active = prop.proposed /\ p.pending = NoProposer /\ p.proposed = NoProposer
            /\ prop.proposed # NoProposer /\ ~ in_same_round(t, head.timestamp)
            /\ BeforePriorRound(prop.proposed) /\ ProposedInFinalBlock(prop.proposed)
         \/ /\ p.active = prop.pending /\ p.pending = NoProposer
            /\ p.proposed = prop.proposed \/ p.proposed = NoProposer
            /\ prop.pending # NoProposer /\ ~ in_same_round(t, head.timestamp) /\ ProposedInFinalBlock(prop.pending)
<1> DEFINE a == get_active_proposer_policy_for_block_at(t)
<1>1. \/ a = prop.active
      \/ a = prop.proposed /\ prop.proposed # NoProposer /\ ~ in_same_round(t, head.timestamp)
           /\ BeforePriorRound(prop.proposed) /\ ProposedInFinalBlock(prop.proposed)
      \/ a = prop.pending /\ prop.pending # NoProposer /\ ~ in_same_round(t, head.timestamp)
           /\ ProposedInFinalBlock(prop.pending)
  BY DEF get_active_proposer_policy_for_block_at
<1> HIDE DEF a
<1>2. p = AfterActivation(a)
  BY DEF a
<1>3. CASE a = prop.active
  BY <1>2, <1>3 DEF AfterActivation
<1>4. CASE a # prop.active /\ a = prop.proposed /\ a # prop.pending
  BY <1>1, <1>2, <1>4 DEF AfterActivation
<1>5. CASE a # prop.active /\ a # prop.proposed
  BY <1>1, <1>2, <1>5 DEF AfterActivation
<1>6. CASE a # prop.active /\ a = prop.proposed /\ a = prop.pending
  <2>1. p.active = a /\ p.pending = NoProposer /\ p.proposed = NoProposer
    BY <1>2, <1>6 DEF AfterActivation
  <2> QED BY <1>1, <1>6, <2>1
<1> QED BY <1>3, <1>4, <1>5, <1>6

\* finish_next on the proposer policies.
LEMMA PropStep ==
  ASSUME NEW t, NEW gap \in Nat, gap > 0, NEW time, time = head.timestamp, t = time + gap,
         PropInv(time), NEW b \in BOOLEAN, prop' = NextProposers(t, b)
  PROVE  /\ PropInv(t)'
         /\ prop'.active # prop.active =>
              /\ Round(time) < Round(t)
              /\ ProposedInFinalBlock(prop'.active)
              /\ Round(prop'.active.proposal_time) + 2 * R <= Round(t)
<1> DEFINE p == AfterActivation(get_active_proposer_policy_for_block_at(t))
           e == evaluate_proposer_policies_for_promotion(t)
<1>0. /\ time \in Nat /\ t \in Nat /\ time < t /\ R \in Nat /\ R > 0
      /\ prop.active \in Proposer /\ prop.pending \in Proposer /\ prop.proposed \in Proposer
      /\ prop.active.version > 0
      /\ prop.pending # NoProposer => Round(prop.pending.proposal_time) + R <= Round(time)
      /\ prop.proposed # NoProposer => prop.proposed.proposal_time <= time
      /\ SchedulesInOrder
  BY RoundAssumption DEF PropInv, R
<1>1. \A x \in Proposer : x.version \in Nat /\ x.proposal_time \in Nat
  BY DEF Proposer
<1>2. NoProposer \in Proposer /\ NoProposer.version = 0 /\ NoProposer.proposal_time = 0
  BY DEF NoProposer, Proposer
<1>3. /\ prop.pending # NoProposer => prop.active.version < prop.pending.version
      /\ prop.proposed # NoProposer => /\ prop.active.version < prop.proposed.version
                                       /\ prop.pending.version < prop.proposed.version
                                       /\ prop.pending.proposal_time < prop.proposed.proposal_time
  BY <1>0 DEF SchedulesInOrder
<1>4. \/ p.active = prop.active /\ p.pending = prop.pending /\ p.proposed = prop.proposed
      \/ /\ p.active = prop.proposed /\ p.pending = NoProposer /\ p.proposed = NoProposer
         /\ prop.proposed # NoProposer /\ ~ in_same_round(t, time)
         /\ BeforePriorRound(prop.proposed) /\ ProposedInFinalBlock(prop.proposed)
      \/ /\ p.active = prop.pending /\ p.pending = NoProposer
         /\ p.proposed = prop.proposed \/ p.proposed = NoProposer
         /\ prop.pending # NoProposer /\ ~ in_same_round(t, time) /\ ProposedInFinalBlock(prop.pending)
  BY ActivationCases
<1>5. /\ e.active = p.active
      /\ \/ e.pending = p.pending /\ e.proposed = p.proposed
         \/ e.pending = p.proposed /\ e.proposed = NoProposer /\ time < Round(t) /\ p.proposed # NoProposer
  BY DEF evaluate_proposer_policies_for_promotion, first_block_of_round, Round
<1>6. ~ in_same_round(t, time) => Round(time) + R <= Round(t)
  <2>1. in_same_round(t, time) <=> t < Round(time) + R
    BY DEF in_same_round, Round, R
  <2>2. Round(time) \in Nat /\ (Round(time) + R <= t => Round(time) + R <= Round(t))
    BY <1>0, Rounds
  <2> QED BY <1>0, <2>1, <2>2
<1>7. Round(time) \in Nat /\ Round(t) \in Nat /\ Round(time) <= Round(t)
  BY <1>0, Rounds
<1> HIDE DEF p, e
\* A policy becomes active two rounds after its own.
<1>8. ASSUME p.active # prop.active
      PROVE  /\ Round(time) < Round(t) /\ ProposedInFinalBlock(p.active)
             /\ Round(p.active.proposal_time) + 2 * R <= Round(t)
  <2>1. CASE p.active = prop.proposed /\ ~ in_same_round(t, time) /\ BeforePriorRound(prop.proposed)
               /\ ProposedInFinalBlock(prop.proposed)
    <3>1. prop.proposed.proposal_time < Round(time) - R
      BY <2>1 DEF BeforePriorRound, Round, R
    <3>2. prop.proposed.proposal_time \in Nat
      BY <1>0, <1>1
    <3>3. Round(prop.proposed.proposal_time) \in Nat /\ Round(prop.proposed.proposal_time) <= prop.proposed.proposal_time
      BY <1>0, <3>2, Rounds
    <3> QED BY <1>0, <1>6, <1>7, <2>1, <3>1, <3>2, <3>3
  <2>2. CASE p.active = prop.pending /\ prop.pending # NoProposer /\ ~ in_same_round(t, time)
               /\ ProposedInFinalBlock(prop.pending)
    <3>1. prop.pending.proposal_time \in Nat
      BY <1>0, <1>1
    <3>2. Round(prop.pending.proposal_time) \in Nat
      BY <1>0, <3>1, Rounds
    <3> QED BY <1>0, <1>6, <1>7, <2>2, <3>2
  <2> QED BY <1>4, <1>8, <2>1, <2>2
\* The policies before a new proposal.
<1>9. /\ e.active \in Proposer /\ e.pending \in Proposer /\ e.proposed \in Proposer /\ e.active.version > 0
      /\ e.pending # NoProposer => Round(e.pending.proposal_time) + R <= Round(t)
      /\ e.proposed # NoProposer => e.proposed = prop.proposed
  <2>1. /\ p.active \in Proposer /\ p.pending \in Proposer /\ p.proposed \in Proposer /\ p.active.version > 0
    BY <1>0, <1>1, <1>2, <1>3, <1>4
  <2>2. p.proposed # NoProposer => p.proposed = prop.proposed /\ p.proposed.proposal_time <= time
    BY <1>0, <1>4
  <2>3. p.pending # NoProposer => Round(p.pending.proposal_time) + R <= Round(time)
    BY <1>0, <1>4
  <2>4. p.pending # NoProposer => Round(p.pending.proposal_time) + R <= Round(t)
    <3>1. p.pending.proposal_time \in Nat /\ Round(p.pending.proposal_time) \in Nat
      BY <1>0, <1>1, <2>1, Rounds
    <3> QED BY <1>0, <1>7, <2>3, <3>1
  <2>5. p.proposed # NoProposer /\ time < Round(t) => Round(p.proposed.proposal_time) + R <= Round(t)
    <3>1. p.proposed.proposal_time \in Nat
      BY <1>1, <2>1
    <3>2. p.proposed.proposal_time < Round(t) => Round(p.proposed.proposal_time) + R <= Round(t)
      BY <1>0, <3>1, Rounds
    <3> QED BY <1>0, <1>7, <2>2, <3>1, <3>2
  <2> QED BY <1>2, <1>5, <2>1, <2>2, <2>4, <2>5
<1>10. /\ e.pending # NoProposer => e.active.version < e.pending.version
       /\ e.proposed # NoProposer => /\ e.active.version < e.proposed.version
                                     /\ e.pending.version < e.proposed.version
                                     /\ e.pending.proposal_time < e.proposed.proposal_time
  <2>1. /\ p.pending # NoProposer => p.active.version < p.pending.version
        /\ p.proposed # NoProposer => /\ p.active.version < p.proposed.version
                                      /\ p.pending.version < p.proposed.version
                                      /\ p.pending.proposal_time < p.proposed.proposal_time
    BY <1>0, <1>1, <1>2, <1>3, <1>4
  <2> QED BY <1>5, <2>1
\* All of them are older than a new proposal.
<1>11. LET n == NewProposer(t)
       IN /\ n \in Proposer /\ n.proposal_time = t /\ n.version > 0
          /\ e.active.version < n.version /\ e.pending.version < n.version /\ e.pending.proposal_time < t
  <2> DEFINE last == get_last_proposed_proposer_policy
  <2>1. /\ last \in Proposer
        /\ prop.active.version <= last.version /\ prop.pending.version <= last.version
        /\ prop.proposed.version <= last.version
    BY <1>0, <1>1, <1>2, <1>3 DEF get_last_proposed_proposer_policy
  <2>2. NewProposer(t) = [version |-> last.version + 1, proposal_time |-> t]
    BY DEF NewProposer
  <2> HIDE DEF last
  <2>3. e.active.version <= last.version /\ e.pending.version <= last.version
    BY <1>1, <1>2, <1>4, <1>5, <2>1
  <2>4. e.pending.proposal_time < t
    <3>1. CASE e.pending = NoProposer
      BY <1>0, <1>2, <3>1
    <3>2. CASE e.pending # NoProposer
      <4>1. e.pending.proposal_time \in Nat
        BY <1>1, <1>9
      <4>2. /\ Round(e.pending.proposal_time) \in Nat /\ e.pending.proposal_time < Round(e.pending.proposal_time) + R
            /\ Round(t) <= t
        BY <1>0, <4>1, Rounds
      <4> QED BY <1>0, <1>7, <1>9, <3>2, <4>1, <4>2
    <3> QED BY <3>1, <3>2
  <2>5. last.version \in Nat /\ e.active.version \in Nat /\ e.pending.version \in Nat
    BY <1>1, <1>9, <2>1
  <2> QED BY <1>0, <2>2, <2>3, <2>4, <2>5 DEF Proposer
<1>12. /\ prop'.active = e.active /\ prop'.pending = e.pending
       /\ prop'.proposed = IF b THEN NewProposer(t) ELSE e.proposed
  BY DEF NextProposers, e
<1>13. prop'.active = p.active
  BY <1>5, <1>12
<1>14. SchedulesInOrder'
  <2>1. CASE b
    BY <1>9, <1>10, <1>11, <1>12, <2>1 DEF SchedulesInOrder
  <2>2. CASE ~ b
    BY <1>10, <1>12, <2>2 DEF SchedulesInOrder
  <2> QED BY <2>1, <2>2
<1>15. prop'.proposed \in Proposer /\ (prop'.proposed # NoProposer => prop'.proposed.proposal_time <= t)
  <2>1. CASE b
    <3>1. prop'.proposed = NewProposer(t)
      BY <1>12, <2>1
    <3>2. NewProposer(t) \in Proposer /\ NewProposer(t).proposal_time = t
      BY <1>11
    <3> QED BY <1>0, <3>1, <3>2
  <2>2. CASE ~ b
    <3>1. prop.proposed.proposal_time \in Nat
      BY <1>0, <1>1
    <3> QED BY <1>0, <1>9, <1>12, <2>2, <3>1
  <2> QED BY <2>1, <2>2
<1>16. PropInv(t)'
  BY <1>0, <1>9, <1>12, <1>14, <1>15 DEF PropInv, Round, R
<1> QED BY <1>8, <1>13, <1>16

\* The genesis block and a step, for the head's timestamp.
LEMMA ScheduleInit == Init => PropInv(head.timestamp)
<1> SUFFICES ASSUME Init PROVE PropInv(head.timestamp)
  OBVIOUS
<1>1. head.timestamp = GenesisTime /\ GenesisTime \in Nat
  BY GenesisAssumption DEF Init, BlockRef
<1>2. prop = [active |-> [version |-> 1, proposal_time |-> 0], pending |-> NoProposer, proposed |-> NoProposer]
  BY DEF Init
<1> QED BY <1>1, <1>2 DEF PropInv, SchedulesInOrder, Proposer, NoProposer

\* A block advances the head and the proposer policies by PropStep.
LEMMA ScheduleNext ==
  ASSUME PropInv(head.timestamp), Next
  PROVE  /\ PropInv(head.timestamp)'
         /\ prop'.active # prop.active =>
              /\ Round(head.timestamp) < Round(head'.timestamp)
              /\ prop'.active.proposal_time <= last_final_block_timestamp(core)
              /\ Round(prop'.active.proposal_time) + 2 * R <= Round(head'.timestamp)
<1>1. PICK hash \in Hash, gap \in Gaps, n \in GenesisNum..current_block_num(core), strong, a, b \in BOOLEAN :
        finish_next(hash, gap, QcClaim(n, strong), a, b)
  BY DEF Next
<1>2. gap \in Nat /\ gap > 0
  BY GapAssumption
<1>3. PICK t : t = head.timestamp + gap
  OBVIOUS
<1>4. head'.timestamp = t /\ prop' = NextProposers(t, b)
  BY <1>1, <1>3 DEF finish_next, BlockRef
<1>5. /\ PropInv(t)'
      /\ prop'.active # prop.active =>
           /\ Round(head.timestamp) < Round(t)
           /\ ProposedInFinalBlock(prop'.active)
           /\ Round(prop'.active.proposal_time) + 2 * R <= Round(t)
  BY <1>2, <1>3, <1>4, PropStep
<1>6. PropInv(head.timestamp)'
  BY <1>4, <1>5 DEF PropInv
<1> QED BY <1>4, <1>5, <1>6 DEF ProposedInFinalBlock

\* The invariant of the proposer policies holds on every branch.
THEOREM ScheduleInvariance == Spec => []PropInv(head.timestamp)
<1>1. PropInv(head.timestamp) /\ [Next]_vars => PropInv(head.timestamp)'
  <2> SUFFICES ASSUME PropInv(head.timestamp), [Next]_vars PROVE PropInv(head.timestamp)'
    OBVIOUS
  <2>1. CASE UNCHANGED vars
    BY <2>1 DEF vars, PropInv, SchedulesInOrder
  <2> QED BY <2>1, ScheduleNext
<1> QED BY <1>1, ScheduleInit, PTL DEF Spec

\* The schedules in flight are in the order of their versions and proposals
\* (evaluate_proposer_policies_for_promotion).
THEOREM SchedulesInOrderTheorem == Spec => []SchedulesInOrder
<1>1. PropInv(head.timestamp) => SchedulesInOrder
  BY DEF PropInv
<1> QED BY <1>1, ScheduleInvariance, PTL

\* A schedule becomes active at the start of a round, two rounds or more after its
\* own and only if its proposal is final, for every length of a round
\* (get_active_proposer_policy_for_block_at).
THEOREM TwoRoundsTheorem == Spec => SchedulesTakeTwoRounds
<1>1. PropInv(head.timestamp) /\ [Next]_vars =>
        [prop'.active # prop.active =>
           /\ Round(head.timestamp) < Round(head'.timestamp)
           /\ prop'.active.proposal_time <= last_final_block_timestamp(core)
           /\ Round(prop'.active.proposal_time) + 2 * producer_repetitions <= Round(head'.timestamp)]_vars
  BY ScheduleNext DEF R
<1> QED BY <1>1, ScheduleInvariance, PTL DEF Spec, SchedulesTakeTwoRounds
===============================================================================
