------------------------------- MODULE QcProofs -------------------------------
(***************************************************************************)
(* The safety properties of AggregatingQc, for any policies, threads and   *)
(* finalizers, whatever the weights and the widths of the integers.        *)
(***************************************************************************)
EXTENDS AggregatingQc, FiniteSetTheorems, TLAPS

\* Most leaves are pure logic: Zenon is asked first, the SMT solver what it leaves open,
\* and Zenon once more when both ran out of time.
USE ZenonT(5), SMTT(60), ZenonT(60)

-------------------------------------------------------------------------------
(* Sums of weights.                                                          *)

Weighted(p) ==
  IsFiniteSet(Finalizers(p)) /\ p.weight \in [Finalizers(p) -> Nat]

\* The units of one finalizer.
LEMMA UnitsOfOne ==
  ASSUME NEW k, NEW w \in Nat
  PROVE  IsFiniteSet({k} \X (1..w)) /\ Cardinality({k} \X (1..w)) = w
<1>1. IsFiniteSet({k}) /\ Cardinality({k}) = 1
  BY FS_Singleton
<1>2. IsFiniteSet(1..w) /\ Cardinality(1..w) = IF 1 > w THEN 0 ELSE w - 1 + 1
  BY FS_Interval, 1 \in Int, w \in Int
<1>3. IsFiniteSet({k} \X (1..w)) /\ Cardinality({k} \X (1..w)) = Cardinality({k}) * Cardinality(1..w)
  BY <1>1, <1>2, FS_Product
<1> QED BY <1>1, <1>2, <1>3

\* The units of a set of finalizers are finitely many.
LEMMA UnitsFinite ==
  ASSUME NEW p, Weighted(p), NEW S \in SUBSET Finalizers(p)
  PROVE  IsFiniteSet(Units(p, S)) /\ Weight(p, S) \in Nat
<1> DEFINE T == {{k} \X (1..p.weight[k]) : k \in S}
           f == [k \in S |-> {k} \X (1..p.weight[k])]
<1>1. IsFiniteSet(S)
  BY FS_Subset DEF Weighted
<1>2. f \in Surjection(S, T)
  BY DEF Surjection
<1>3. IsFiniteSet(T)
  BY <1>1, <1>2, FS_Surjection
<1>4. ASSUME NEW k \in S PROVE IsFiniteSet({k} \X (1..p.weight[k]))
  <2>1. p.weight[k] \in Nat
    BY DEF Weighted
  <2> QED BY <2>1, UnitsOfOne
<1>5. IsFiniteSet(UNION T)
  <2> HIDE DEF T
  <2>1. \A t \in T : IsFiniteSet(t)
    BY <1>4 DEF T
  <2> QED BY <1>3, <2>1, FS_UNION
<1> QED BY <1>5, FS_CardinalityType DEF Units, Weight

\* The weights of disjoint sets of finalizers add up.
LEMMA WeightSplit ==
  ASSUME NEW p, Weighted(p), NEW S \in SUBSET Finalizers(p), NEW T \in SUBSET Finalizers(p), S \cap T = {}
  PROVE  Weight(p, S \cup T) = Weight(p, S) + Weight(p, T)
<1>1. Units(p, S \cup T) = Units(p, S) \cup Units(p, T)
  BY DEF Units
<1>2. Units(p, S) \cap Units(p, T) = {}
  <2> SUFFICES ASSUME NEW u, u \in Units(p, S), u \in Units(p, T) PROVE FALSE
    OBVIOUS
  <2>1. PICK k \in S : u \in {k} \X (1..p.weight[k])
    BY DEF Units
  <2>2. PICK m \in T : u \in {m} \X (1..p.weight[m])
    BY DEF Units
  <2>3. u[1] = k /\ u[1] = m
    BY <2>1, <2>2
  <2> QED BY <2>3
<1>3. IsFiniteSet(Units(p, S)) /\ IsFiniteSet(Units(p, T)) /\ Weight(p, S) \in Nat /\ Weight(p, T) \in Nat
  BY UnitsFinite
<1>4. Weight(p, S \cup T) = Weight(p, S) + Weight(p, T) - Cardinality({})
  <2>1. Cardinality(Units(p, S) \cup Units(p, T))
          = Cardinality(Units(p, S)) + Cardinality(Units(p, T)) - Cardinality(Units(p, S) \cap Units(p, T))
    BY <1>3, FS_Union
  <2> QED BY <1>1, <1>2, <2>1 DEF Weight
<1> QED BY <1>3, <1>4, FS_EmptySet

\* The weight of a single finalizer.
LEMMA WeightOne ==
  ASSUME NEW p, Weighted(p), NEW k \in Finalizers(p)
  PROVE  Weight(p, {k}) = p.weight[k] /\ p.weight[k] \in Nat
<1>1. p.weight[k] \in Nat
  BY DEF Weighted
<1>2. Units(p, {k}) = {k} \X (1..p.weight[k])
  BY DEF Units
<1> QED BY <1>1, <1>2, UnitsOfOne DEF Weight

\* No finalizers, no weight.
LEMMA WeightNone ==
  ASSUME NEW p
  PROVE  Weight(p, {}) = 0
<1>1. Units(p, {}) = {}
  BY DEF Units
<1> QED BY <1>1, FS_EmptySet DEF Weight

-------------------------------------------------------------------------------
(* The limit on weak votes.                                                  *)

\* A remainder is determined by its range.
LEMMA Remainder ==
  ASSUME NEW n \in Nat, n > 0, NEW x \in Int, NEW m \in Int, 0 <= x + n * m, x + n * m < n
  PROVE  x % n = x + n * m
<1> DEFINE q == x \div n
           r == x % n
<1>1. q \in Int /\ r \in Int /\ x = n * q + r /\ 0 <= r /\ r < n
  OBVIOUS
<1>2. PICK d \in Int : d = q + m
  BY <1>1
<1>3. x + n * m = n * d + r
  BY <1>1, <1>2
<1>4. d = 0
  <2>1. CASE d >= 1
    <3>1. n * d >= n
      BY <2>1, <1>2
    <3> QED BY <3>1, <1>1, <1>3
  <2>2. CASE d <= -1
    <3>1. n * d <= - n
      BY <2>2, <1>2
    <3> QED BY <3>1, <1>1, <1>3
  <2> QED BY <2>1, <2>2, <1>2
<1> QED BY <1>1, <1>3, <1>4

\* An int holds a sum up to a multiple of its number of values.
LEMMA IntOf ==
  ASSUME NEW v \in Nat
  PROVE  \E m \in Nat, half \in Nat \ {0} :
           /\ IntValues = 2 * half
           /\ ToInt(v) = v - IntValues * m
           /\ - half <= ToInt(v) /\ ToInt(v) < half
<1>1. PICK half \in Nat \ {0} : IntValues = 2 * half
  BY WidthAssumption
<1>2. IntValues \in Nat /\ IntValues > 0 /\ IntValues \div 2 = half
  BY <1>1
<1>3. PICK q \in Int, r \in Int : q = v \div IntValues /\ r = v % IntValues
  BY <1>2
<1>4. v = IntValues * q + r /\ 0 <= r /\ r < IntValues
  BY <1>2, <1>3
<1>5. q >= 0
  <2> SUFFICES ASSUME q <= -1 PROVE FALSE
    BY <1>3
  <2>1. IntValues * q <= - IntValues
    BY <1>2
  <2> QED BY <1>2, <1>4, <2>1
<1>6. CASE r < half
  <2>1. ToInt(v) = r
    BY <1>2, <1>3, <1>6 DEF ToInt
  <2> QED BY <1>1, <1>4, <1>5, <1>6, <2>1
<1>7. CASE r >= half
  <2>1. ToInt(v) = r - IntValues
    BY <1>2, <1>3, <1>7 DEF ToInt
  <2>2. IntValues * (q + 1) = IntValues * q + IntValues
    BY <1>2, <1>3
  <2>3. q + 1 \in Nat
    BY <1>3, <1>5
  <2>4. ToInt(v) = v - IntValues * (q + 1)
    BY <1>2, <1>3, <1>4, <2>1, <2>2
  <2>5. - half <= ToInt(v) /\ ToInt(v) < half
    BY <1>1, <1>3, <1>4, <1>7, <2>1
  <2> QED BY <1>1, <2>3, <2>4, <2>5
<1> QED BY <1>1, <1>3, <1>6, <1>7

\* The limit on weak votes that the narrow sum gives is never below the right one
\* (max_weak_sum_before_weak_final): a block is not ruled out too early.
LEMMA WeakLimit ==
  ASSUME NEW p, PolicyOK(p)
  PROVE  /\ max_weak_sum_before_weak_final(p) \in Nat
         /\ Weight(p, Finalizers(p)) - p.threshold <= max_weak_sum_before_weak_final(p)
<1>1. PICK w \in Nat, t \in Nat : w = Weight(p, Finalizers(p)) /\ t = p.threshold
  <2>1. Weight(p, Finalizers(p)) \in Nat
    BY UnitsFinite DEF PolicyOK, Weighted
  <2> QED BY <2>1 DEF PolicyOK
<1>2. w < LongValues /\ t <= w /\ 2 * t > w
  BY <1>1 DEF PolicyOK
<1>3. PICK m \in Nat, half \in Nat \ {0} :
        /\ IntValues = 2 * half
        /\ ToInt(w) = w - IntValues * m
        /\ - half <= ToInt(w) /\ ToInt(w) < half
  BY IntOf
<1>4. PICK n \in Nat : LongValues = IntValues * n
  BY WidthAssumption
<1>5. PICK i \in Int : i = ToInt(w)
  BY <1>3
<1>6. LongValues \in Nat /\ LongValues > 0
  BY <1>2, WidthAssumption
<1>7. max_weak_sum_before_weak_final(p) = (i - t) % LongValues
  BY <1>1, <1>5 DEF max_weak_sum_before_weak_final
<1>8. CASE m = 0
  <2>1. i = w
    BY <1>3, <1>5, <1>8
  <2>2. (i - t) % LongValues = (i - t) + LongValues * 0
    <3>1. 0 <= (i - t) + LongValues * 0 /\ (i - t) + LongValues * 0 < LongValues
      BY <1>2, <1>6, <2>1
    <3> QED BY <1>6, <3>1, Remainder
  <2> QED BY <1>1, <1>2, <1>6, <1>7, <2>1, <2>2
<1>9. CASE m >= 1
  <2>1. PICK a \in Nat : a = IntValues * m
    BY WidthAssumption
  <2>2. a >= 2 * half
    BY <1>3, <1>9, <2>1
  <2>3. i - t < 0
    BY <1>2, <1>3, <1>5, <2>1, <2>2
  <2>4. m <= n
    <3> SUFFICES ASSUME m >= n + 1 PROVE FALSE
      OBVIOUS
    <3>1. IntValues * m >= IntValues * n + IntValues
      BY <1>3
    <3> QED BY <1>2, <1>3, <1>4, <1>5, <2>1, <3>1
  <2>5. a <= LongValues
    BY <1>3, <1>4, <2>1, <2>4
  <2>6. (i - t) % LongValues = (i - t) + LongValues * 1
    <3>1. 0 <= (i - t) + LongValues * 1 /\ (i - t) + LongValues * 1 < LongValues
      BY <1>2, <1>3, <1>5, <1>6, <2>1, <2>3, <2>5
    <3> QED BY <1>6, <3>1, Remainder
  <2>7. i + LongValues >= w
    BY <1>3, <1>5, <1>6, <2>1, <2>5
  <2> QED BY <1>1, <1>2, <1>6, <1>7, <2>6, <2>7
<1> QED BY <1>8, <1>9

-------------------------------------------------------------------------------
(* The votes for one policy.                                                 *)

State == {"unrestricted", "restricted", "weak_achieved", "weak_final", "strong"}

\* A certificate, or none, of this policy.
QcType(p) == [strong : SUBSET Finalizers(p), weak : SUBSET Finalizers(p), is_weak : BOOLEAN]

SigType(p) ==
  [state : State, strong_sum : Nat, weak_sum : Nat, strong : SUBSET Finalizers(p), weak : SUBSET Finalizers(p),
   received : QcType(p)]

\* What the sums and the state of s say of the votes in it.
Matches(p, s) ==
  /\ s.strong_sum = Weight(p, s.strong) /\ s.weak_sum = Weight(p, s.weak)
  /\ IsQuorumMet(s) <=> s.strong_sum + s.weak_sum >= p.threshold
  /\ s.state = "strong" => s.strong_sum >= p.threshold
  /\ s.state = "restricted" => s.strong_sum + Rest(p, s) < p.threshold

SigInv(p, s) == s \in SigType(p) /\ s.strong \cap s.weak = {} /\ Matches(p, s)

\* All the votes make up the weight of the policy.
LEMMA VotesAndRest ==
  ASSUME NEW p, PolicyOK(p), NEW s \in SigType(p), s.strong \cap s.weak = {}
  PROVE  /\ Rest(p, s) \in Nat
         /\ Weight(p, Finalizers(p)) = Weight(p, s.strong) + Weight(p, s.weak) + Rest(p, s)
         /\ Weight(p, s.strong) \in Nat /\ Weight(p, s.weak) \in Nat
<1> DEFINE F == Finalizers(p)
           V == s.strong \cup s.weak
<1>1. Weighted(p)
  BY DEF PolicyOK, Weighted
<1>2. /\ s.strong \in SUBSET F /\ s.weak \in SUBSET F /\ V \in SUBSET F
      /\ F \ V \in SUBSET F /\ V \cap (F \ V) = {} /\ V \cup (F \ V) = F
  BY DEF SigType
<1>3. Weight(p, V) = Weight(p, s.strong) + Weight(p, s.weak)
  BY <1>1, <1>2, WeightSplit
<1>4. Weight(p, V \cup (F \ V)) = Weight(p, V) + Weight(p, F \ V)
  BY <1>1, <1>2, WeightSplit
<1>5. Weight(p, s.strong) \in Nat /\ Weight(p, s.weak) \in Nat /\ Weight(p, F \ V) \in Nat
  BY <1>1, <1>2, UnitsFinite
<1> QED BY <1>2, <1>3, <1>4, <1>5 DEF Rest

\* A vote that is added takes its weight from the rest.
LEMMA VoteFromRest ==
  ASSUME NEW p, PolicyOK(p), NEW s \in SigType(p), NEW k \in Finalizers(p), k \notin s.strong \cup s.weak
  PROVE  /\ p.weight[k] \in Nat
         /\ Weight(p, s.strong \cup {k}) = Weight(p, s.strong) + p.weight[k]
         /\ Weight(p, s.weak \cup {k}) = Weight(p, s.weak) + p.weight[k]
<1>1. Weighted(p)
  BY DEF PolicyOK, Weighted
<1>2. s.strong \in SUBSET Finalizers(p) /\ s.weak \in SUBSET Finalizers(p) /\ {k} \in SUBSET Finalizers(p)
  BY DEF SigType
<1>3. s.strong \cap {k} = {} /\ s.weak \cap {k} = {}
  OBVIOUS
<1>4. Weight(p, {k}) = p.weight[k] /\ p.weight[k] \in Nat
  BY <1>1, WeightOne
<1>5. /\ Weight(p, s.strong \cup {k}) = Weight(p, s.strong) + Weight(p, {k})
      /\ Weight(p, s.weak \cup {k}) = Weight(p, s.weak) + Weight(p, {k})
  BY <1>1, <1>2, <1>3, WeightSplit
<1> QED BY <1>4, <1>5

\* How a strong vote changes the state (add_strong_vote).
LEMMA StrongVote ==
  ASSUME NEW p, PolicyOK(p), NEW s, SigInv(p, s), NEW k \in Finalizers(p), k \notin s.strong \cup s.weak,
         NEW n, n = add_strong_vote(p, s, k)
  PROVE  /\ SigInv(p, n)
         /\ n.strong = s.strong \cup {k} /\ n.weak = s.weak /\ n.received = s.received
         /\ IsQuorumMet(s) => IsQuorumMet(n)
         /\ s.state = "strong" => n.state = "strong"
<1> DEFINE sum == s.strong_sum + p.weight[k]
<1>1. s \in SigType(p) /\ s.strong \cap s.weak = {} /\ Matches(p, s)
  BY DEF SigInv
<1>2. /\ p.weight[k] \in Nat
      /\ Weight(p, s.strong \cup {k}) = Weight(p, s.strong) + p.weight[k]
  BY <1>1, VoteFromRest
<1>3. p.threshold \in Nat
  BY DEF PolicyOK
<1>4. /\ n.strong = s.strong \cup {k} /\ n.weak = s.weak /\ n.received = s.received
      /\ n.strong_sum = sum /\ n.weak_sum = s.weak_sum
      /\ n.state = CASE s.state \in Undecided \cup {"weak_achieved"} /\ sum >= p.threshold -> "strong"
                     [] s.state \in Undecided /\ sum < p.threshold /\ s.weak_sum + sum >= p.threshold ->
                          IF s.state = "restricted" THEN "weak_final" ELSE "weak_achieved"
                     [] OTHER -> s.state
  BY <1>1 DEF add_strong_vote, SigType
<1>5. s.strong_sum \in Nat /\ s.weak_sum \in Nat /\ s.state \in State /\ sum \in Nat
  BY <1>1, <1>2 DEF SigType
<1>6. n.state \in State
  BY <1>3, <1>4, <1>5 DEF State, Undecided
<1>7. n \in SigType(p)
  <2>1. n.strong \in SUBSET Finalizers(p)
    BY <1>1, <1>4 DEF SigType
  <2>2. n = [state |-> n.state, strong_sum |-> sum, weak_sum |-> s.weak_sum, strong |-> n.strong,
             weak |-> s.weak, received |-> s.received]
    BY <1>1, <1>4 DEF add_strong_vote, SigType
  <2> QED BY <1>1, <1>5, <1>6, <2>1, <2>2 DEF SigType
<1>8. n.strong \cap n.weak = {}
  BY <1>1, <1>4
<1>9. /\ Rest(p, n) \in Nat
      /\ Weight(p, n.strong) + Weight(p, n.weak) + Rest(p, n) = Weight(p, s.strong) + Weight(p, s.weak) + Rest(p, s)
      /\ Rest(p, s) \in Nat
  BY <1>1, <1>7, <1>8, VotesAndRest
<1>10. n.strong_sum = Weight(p, n.strong) /\ n.weak_sum = Weight(p, n.weak)
  BY <1>1, <1>2, <1>4 DEF Matches
<1>11. IsQuorumMet(s) <=> s.strong_sum + s.weak_sum >= p.threshold
  BY <1>1 DEF Matches
<1>12. IsQuorumMet(n) <=> n.strong_sum + n.weak_sum >= p.threshold
  BY <1>2, <1>3, <1>4, <1>5, <1>11 DEF IsQuorumMet, Undecided, State
<1>13. n.state = "strong" => n.strong_sum >= p.threshold
  BY <1>1, <1>2, <1>3, <1>4, <1>5 DEF Undecided, State, Matches
<1>14. n.state = "restricted" => n.strong_sum + Rest(p, n) < p.threshold
  <2>1. n.state = "restricted" => s.state = "restricted"
    BY <1>3, <1>4, <1>5 DEF Undecided, State
  <2>2. n.strong_sum + Rest(p, n) = s.strong_sum + Rest(p, s)
    BY <1>1, <1>2, <1>4, <1>5, <1>9, <1>10 DEF Matches
  <2> QED BY <1>1, <2>1, <2>2 DEF Matches
<1>15. s.state = "strong" => n.state = "strong"
  BY <1>4 DEF Undecided
<1>16. IsQuorumMet(s) => IsQuorumMet(n)
  BY <1>2, <1>3, <1>4, <1>5, <1>11, <1>12
<1> QED BY <1>4, <1>7, <1>8, <1>10, <1>12, <1>13, <1>14, <1>15, <1>16 DEF SigInv, Matches

\* How a weak vote changes the state (add_weak_vote).
LEMMA WeakVote ==
  ASSUME NEW p, PolicyOK(p), NEW s, SigInv(p, s), NEW k \in Finalizers(p), k \notin s.strong \cup s.weak,
         NEW n, n = add_weak_vote(p, s, k)
  PROVE  /\ SigInv(p, n)
         /\ n.strong = s.strong /\ n.weak = s.weak \cup {k} /\ n.received = s.received
         /\ IsQuorumMet(s) => IsQuorumMet(n)
         /\ s.state = "strong" => n.state = "strong"
<1> DEFINE sum   == s.weak_sum + p.weight[k]
           limit == max_weak_sum_before_weak_final(p)
<1>1. s \in SigType(p) /\ s.strong \cap s.weak = {} /\ Matches(p, s)
  BY DEF SigInv
<1>2. /\ p.weight[k] \in Nat
      /\ Weight(p, s.weak \cup {k}) = Weight(p, s.weak) + p.weight[k]
  BY <1>1, VoteFromRest
<1>3. p.threshold \in Nat
  BY DEF PolicyOK
<1>4. limit \in Nat /\ Weight(p, Finalizers(p)) - p.threshold <= limit
  BY WeakLimit
<1>5. /\ n.strong = s.strong /\ n.weak = s.weak \cup {k} /\ n.received = s.received
      /\ n.strong_sum = s.strong_sum /\ n.weak_sum = sum
      /\ n.state = CASE s.state \in Undecided /\ sum + s.strong_sum >= p.threshold /\ sum > limit -> "weak_final"
                     [] s.state \in Undecided /\ sum + s.strong_sum >= p.threshold /\ ~ sum > limit ->
                          "weak_achieved"
                     [] s.state \in Undecided /\ ~ sum + s.strong_sum >= p.threshold /\ sum > limit -> "restricted"
                     [] s.state = "weak_achieved" /\ sum >= limit -> "weak_final"
                     [] OTHER -> s.state
  BY <1>1 DEF add_weak_vote, SigType
<1> HIDE DEF limit
<1>6. s.strong_sum \in Nat /\ s.weak_sum \in Nat /\ s.state \in State /\ sum \in Nat
  BY <1>1, <1>2 DEF SigType
<1>7. n.state \in State
  BY <1>3, <1>4, <1>5, <1>6 DEF State, Undecided
<1>8. n \in SigType(p)
  <2>1. n.weak \in SUBSET Finalizers(p)
    BY <1>1, <1>5 DEF SigType
  <2>2. n = [state |-> n.state, strong_sum |-> s.strong_sum, weak_sum |-> sum, strong |-> s.strong,
             weak |-> n.weak, received |-> s.received]
    BY <1>1, <1>5 DEF add_weak_vote, SigType
  <2> QED BY <1>1, <1>6, <1>7, <2>1, <2>2 DEF SigType
<1>9. n.strong \cap n.weak = {}
  BY <1>1, <1>5
<1>10. /\ Rest(p, n) \in Nat /\ Rest(p, s) \in Nat
       /\ Weight(p, Finalizers(p)) = Weight(p, n.strong) + Weight(p, n.weak) + Rest(p, n)
       /\ Weight(p, Finalizers(p)) = Weight(p, s.strong) + Weight(p, s.weak) + Rest(p, s)
  BY <1>1, <1>8, <1>9, VotesAndRest
<1>11. n.strong_sum = Weight(p, n.strong) /\ n.weak_sum = Weight(p, n.weak)
  BY <1>1, <1>2, <1>5 DEF Matches
<1>12. IsQuorumMet(s) <=> s.strong_sum + s.weak_sum >= p.threshold
  BY <1>1 DEF Matches
<1>13. IsQuorumMet(n) <=> n.strong_sum + n.weak_sum >= p.threshold
  BY <1>2, <1>3, <1>4, <1>5, <1>6, <1>12 DEF IsQuorumMet, Undecided, State
<1>14. n.state = "strong" => n.strong_sum >= p.threshold
  BY <1>1, <1>3, <1>4, <1>5, <1>6 DEF Undecided, State, Matches
<1>15. n.state = "restricted" => n.strong_sum + Rest(p, n) < p.threshold
  <2>1. n.state = "restricted" => s.state = "restricted" \/ sum > limit
    BY <1>3, <1>4, <1>5, <1>6 DEF Undecided, State
  <2>2. CASE s.state = "restricted"
    <3>1. s.strong_sum + Rest(p, s) < p.threshold
      BY <1>1, <2>2 DEF Matches
    <3>2. s.strong_sum = Weight(p, s.strong) /\ s.weak_sum = Weight(p, s.weak)
      BY <1>1 DEF Matches
    <3>3. Rest(p, n) <= Rest(p, s)
      BY <1>2, <1>5, <1>6, <1>10, <1>11, <3>2
    <3> QED BY <1>3, <1>5, <1>6, <1>10, <3>1, <3>3
  <2>3. CASE sum > limit
    BY <1>3, <1>4, <1>5, <1>6, <1>10, <1>11, <2>3
  <2> QED BY <2>1, <2>2, <2>3
<1>16. s.state = "strong" => n.state = "strong"
  BY <1>5 DEF Undecided
<1>17. IsQuorumMet(s) => IsQuorumMet(n)
  BY <1>2, <1>3, <1>5, <1>6, <1>12, <1>13
<1> QED BY <1>5, <1>8, <1>9, <1>11, <1>13, <1>14, <1>15, <1>16, <1>17 DEF SigInv, Matches

-------------------------------------------------------------------------------
(* Certificates.                                                             *)

\* What the receivers of a block accept as a part of its certificate.
Accepted(p, qc) == verify_vote_format(p, qc) /\ verify(p, qc, Voters(TRUE), Voters(FALSE))

\* The votes in s were cast, and the certificate in it was verified.
SigFor(p, s) ==
  /\ SigInv(p, s)
  /\ s.strong \subseteq Voters(TRUE) /\ s.weak \subseteq Voters(FALSE)
  /\ s.received = NoQc \/ Accepted(p, s.received)

\* A certificate has votes in it, because a threshold is positive.
LEMMA AcceptedHasVotes ==
  ASSUME NEW p, PolicyOK(p), NEW qc, Accepted(p, qc)
  PROVE  qc # NoQc
<1> SUFFICES ASSUME qc = NoQc PROVE FALSE
  OBVIOUS
<1>1. p.threshold \in Nat /\ p.threshold > 0
  <2>1. Weight(p, Finalizers(p)) \in Nat
    BY UnitsFinite DEF PolicyOK, Weighted
  <2> QED BY <2>1 DEF PolicyOK
<1>2. Weight(p, {}) = 0
  BY WeightNone
<1>3. qc.strong = {} /\ qc.weak = {} /\ qc.is_weak = TRUE
  BY DEF NoQc
<1> QED BY <1>1, <1>2, <1>3 DEF Accepted, verify

\* The certificate that the votes make is accepted.
LEMMA ExtractedIsAccepted ==
  ASSUME NEW p, PolicyOK(p), NEW s, SigFor(p, s), IsQuorumMet(s)
  PROVE  /\ Accepted(p, extract_qc_sig_from_aggregating(s))
         /\ extract_qc_sig_from_aggregating(s).is_weak = (s.state # "strong")
<1>1. s \in SigType(p) /\ s.strong \cap s.weak = {} /\ Matches(p, s)
  BY DEF SigFor, SigInv
<1>2. s.strong \subseteq Voters(TRUE) /\ s.weak \subseteq Voters(FALSE)
  BY DEF SigFor
<1>3. s.strong \subseteq Finalizers(p) /\ s.weak \subseteq Finalizers(p)
  BY <1>1 DEF SigType
<1>4. CASE s.state = "strong"
  <2>1. Weight(p, s.strong) >= p.threshold
    BY <1>1, <1>4 DEF Matches
  <2> QED BY <1>2, <1>3, <1>4, <2>1
          DEF extract_qc_sig_from_aggregating, Accepted, verify_vote_format, verify
<1>5. CASE s.state # "strong"
  <2>1. Weight(p, s.strong) + Weight(p, s.weak) >= p.threshold
    BY <1>1 DEF Matches
  <2> QED BY <1>1, <1>2, <1>3, <1>5, <2>1
          DEF extract_qc_sig_from_aggregating, Accepted, verify_vote_format, verify
<1> QED BY <1>4, <1>5

\* So is the best certificate, if there is one.
LEMMA BestIsAccepted ==
  ASSUME NEW p, PolicyOK(p), NEW s, SigFor(p, s), get_best_qc(s) # NoQc
  PROVE  Accepted(p, get_best_qc(s))
<1>1. s.received = NoQc \/ Accepted(p, s.received)
  BY DEF SigFor
<1>2. IsQuorumMet(s) => Accepted(p, extract_qc_sig_from_aggregating(s))
  BY ExtractedIsAccepted
<1> QED BY <1>1, <1>2 DEF get_best_qc

\* How good the best certificate is: by the certificate received and by the votes.
LEMMA StrengthIs ==
  ASSUME NEW p, PolicyOK(p), NEW s, SigFor(p, s)
  PROVE  Strength(s) = IF (s.received # NoQc /\ ~ s.received.is_weak) \/ s.state = "strong" THEN 2
                       ELSE IF s.received # NoQc \/ IsQuorumMet(s) THEN 1 ELSE 0
<1> DEFINE agg == extract_qc_sig_from_aggregating(s)
<1>1. IsQuorumMet(s) => agg # NoQc /\ agg.is_weak = (s.state # "strong")
  BY ExtractedIsAccepted, AcceptedHasVotes
<1>2. s.state = "strong" => IsQuorumMet(s)
  BY DEF IsQuorumMet
<1>3. s.received.is_weak \in BOOLEAN
  BY DEF SigFor, SigInv, SigType, QcType
<1> HIDE DEF agg
<1>4. get_best_qc(s) = IF ~ IsQuorumMet(s) THEN s.received
                       ELSE IF s.received # NoQc /\ (~ s.received.is_weak \/ agg.is_weak) THEN s.received ELSE agg
  BY DEF get_best_qc, agg
<1>5. CASE ~ IsQuorumMet(s)
  BY <1>2, <1>4, <1>5 DEF Strength
<1>6. CASE IsQuorumMet(s)
  BY <1>1, <1>3, <1>4, <1>6 DEF Strength
<1> QED BY <1>5, <1>6

\* A vote is added (add_vote): it is counted once, and the best certificate does not
\* become worse.
LEMMA VoteAdded ==
  ASSUME NEW p, PolicyOK(p), NEW s, SigFor(p, s), NEW k \in Finalizers(p),
         NEW strong \in BOOLEAN, k \in Voters(strong), NEW n, n = add_vote(p, s, k, strong)
  PROVE  /\ SigFor(p, n)
         /\ s.strong \subseteq n.strong /\ s.weak \subseteq n.weak
         /\ n.strong \subseteq s.strong \cup {k} /\ n.weak \subseteq s.weak \cup {k}
         /\ ~ has_voted(s, k) /\ strong => k \in n.strong /\ n.weak = s.weak
         /\ ~ has_voted(s, k) /\ ~ strong => k \in n.weak /\ n.strong = s.strong
         /\ has_voted(s, k) => n = s
         /\ Strength(s) <= Strength(n)
<1>1. CASE has_voted(s, k)
  <2>1. n = s
    BY <1>1 DEF add_vote, has_voted
  <2>2. Strength(s) <= Strength(n)
    BY <2>1 DEF Strength
  <2> QED BY <1>1, <2>1, <2>2
<1>2. CASE ~ has_voted(s, k)
  <2>1. k \notin s.strong \cup s.weak
    BY <1>2 DEF has_voted
  <2>2. SigInv(p, s) /\ s.strong \subseteq Voters(TRUE) /\ s.weak \subseteq Voters(FALSE)
    BY DEF SigFor
  <2>3. CASE strong = TRUE
    <3>1. n = add_strong_vote(p, s, k)
      BY <2>1, <2>3 DEF add_vote
    <3>2. /\ SigInv(p, n)
          /\ n.strong = s.strong \cup {k} /\ n.weak = s.weak /\ n.received = s.received
          /\ IsQuorumMet(s) => IsQuorumMet(n)
          /\ s.state = "strong" => n.state = "strong"
      BY <2>1, <2>2, <3>1, StrongVote
    <3>3. SigFor(p, n)
      BY <2>2, <2>3, <3>2 DEF SigFor
    <3>4. Strength(s) <= Strength(n)
      BY <3>2, <3>3, StrengthIs
    <3> QED BY <1>2, <2>3, <3>2, <3>3, <3>4
  <2>4. CASE strong = FALSE
    <3>1. n = add_weak_vote(p, s, k)
      BY <2>1, <2>4 DEF add_vote
    <3>2. /\ SigInv(p, n)
          /\ n.strong = s.strong /\ n.weak = s.weak \cup {k} /\ n.received = s.received
          /\ IsQuorumMet(s) => IsQuorumMet(n)
          /\ s.state = "strong" => n.state = "strong"
      BY <2>1, <2>2, <3>1, WeakVote
    <3>3. SigFor(p, n)
      BY <2>2, <2>4, <3>2 DEF SigFor
    <3>4. Strength(s) <= Strength(n)
      BY <3>2, <3>3, StrengthIs
    <3> QED BY <1>2, <2>4, <3>2, <3>3, <3>4
  <2> QED BY <2>3, <2>4
<1> QED BY <1>1, <1>2

\* A certificate is received (set_received_qc_sig).
LEMMA QcReceived ==
  ASSUME NEW p, PolicyOK(p), NEW s, SigFor(p, s), NEW qc \in QcType(p), Accepted(p, qc),
         NEW n, n = set_received_qc_sig(s, qc)
  PROVE  /\ SigFor(p, n)
         /\ n.strong = s.strong /\ n.weak = s.weak
         /\ Strength(s) <= Strength(n)
<1>1. CASE n = s
  <2>1. Strength(s) <= Strength(n)
    BY <1>1 DEF Strength
  <2> QED BY <1>1, <2>1
<1>2. CASE s.received = NoQc \/ (s.received.is_weak /\ ~ qc.is_weak)
  <2>1. s \in SigType(p)
    BY DEF SigFor, SigInv
  <2>2. /\ n \in SigType(p) /\ n.received = qc
        /\ n.strong = s.strong /\ n.weak = s.weak /\ n.strong_sum = s.strong_sum /\ n.weak_sum = s.weak_sum
        /\ n.state = s.state
    BY <1>2, <2>1 DEF set_received_qc_sig, SigType
  <2>3. IsQuorumMet(n) = IsQuorumMet(s) /\ Rest(p, n) = Rest(p, s)
    BY <2>2 DEF IsQuorumMet, Rest
  <2>4. SigFor(p, n)
    BY <2>2, <2>3 DEF SigFor, SigInv, Matches
  <2>5. qc # NoQc
    BY AcceptedHasVotes
  <2>6. Strength(s) <= Strength(n)
    BY <1>2, <2>2, <2>3, <2>4, <2>5, StrengthIs
  <2> QED BY <2>2, <2>4, <2>6
<1> QED BY <1>1, <1>2 DEF set_received_qc_sig

-------------------------------------------------------------------------------
(* The two policies.                                                         *)

\* The vote of k for the active policy, by its strength.
CountedAs(k, strong) == k \in (IF strong THEN active_policy_sig.strong ELSE active_policy_sig.weak)

\* A vote that a thread is in the middle of: it was cast, and when it has come to the
\* pending policy it is the one that was counted for the active policy.
VoteInv(v) ==
  /\ v.key \in Key /\ v.strong \in cast[v.key]
  /\ v.at = "active" => InActive(v.key)
  /\ v.at # "active" => InPending(v.key) /\ (InActive(v.key) => CountedAs(v.key, v.strong))

\* A certificate of which the pending policy's part is still to be set.
ReceivingInv(qc) == qc[2] \in QcType(pending_policy) /\ Accepted(pending_policy, qc[2])

QcTypeOK ==
  /\ PolicyOK(active_policy) /\ (HasPending => PolicyOK(pending_policy))
  /\ cast \in [Key -> SUBSET BOOLEAN]

QcInv ==
  /\ QcTypeOK
  /\ SigFor(active_policy, active_policy_sig)
  /\ IF HasPending THEN SigFor(pending_policy, pending_policy_sig) ELSE pending_policy_sig = NewSig
  /\ \A v \in processing : VoteInv(v)
  /\ \A qc \in receiving : HasPending /\ ReceivingInv(qc)
  /\ \A k \in DualFinalizers : /\ k \in pending_policy_sig.strong => CountedAs(k, TRUE)
                               /\ k \in pending_policy_sig.weak => CountedAs(k, FALSE)

\* Before the first vote.
LEMMA NewSigIsFine ==
  ASSUME NEW p, PolicyOK(p)
  PROVE  SigFor(p, NewSig)
<1>1. Weight(p, {}) = 0
  BY WeightNone
<1>2. p.threshold \in Nat /\ p.threshold > 0
  <2>1. Weight(p, Finalizers(p)) \in Nat
    BY UnitsFinite DEF PolicyOK, Weighted
  <2> QED BY <2>1 DEF PolicyOK
<1>3. NewSig \in SigType(p)
  BY DEF NewSig, SigType, NoQc, QcType, State
<1>4. Matches(p, NewSig)
  BY <1>1, <1>2 DEF NewSig, Matches, IsQuorumMet
<1> QED BY <1>3, <1>4 DEF SigFor, SigInv, NewSig

\* No vote and no certificate has come in yet.
LEMMA QcInvInit == Init => QcInv
<1> SUFFICES ASSUME Init PROVE QcInv
  OBVIOUS
<1>1. QcTypeOK
  <2>1. PICK p \in Policies : active_policy = p[1] /\ pending_policy = p[2]
    BY DEF Init
  <2>2. PolicyOK(active_policy) /\ (HasPending => PolicyOK(pending_policy))
    BY <2>1, PolicyAssumption DEF HasPending
  <2>3. cast \in [Key -> SUBSET BOOLEAN]
    <3>1. cast \in [Key -> {{TRUE}, {FALSE}, BOOLEAN}]
      BY DEF Init
    <3>2. {{TRUE}, {FALSE}, BOOLEAN} \subseteq SUBSET BOOLEAN
      OBVIOUS
    <3> QED BY <3>1, <3>2
  <2> QED BY <2>2, <2>3 DEF QcTypeOK
<1>2. SigFor(active_policy, active_policy_sig)
  BY <1>1, NewSigIsFine DEF Init, QcTypeOK
<1>3. HasPending => SigFor(pending_policy, pending_policy_sig)
  BY <1>1, NewSigIsFine DEF Init, QcTypeOK
<1>4. pending_policy_sig = NewSig /\ processing = {} /\ receiving = {}
  BY DEF Init
<1>5. pending_policy_sig.strong = {} /\ pending_policy_sig.weak = {}
  BY <1>4 DEF NewSig
<1> QED BY <1>1, <1>2, <1>3, <1>4, <1>5 DEF QcInv

\* The policies and the votes cast stay as they are.
Same == active_policy' = active_policy /\ pending_policy' = pending_policy /\ cast' = cast

\* What depends on nothing else stays with them.
LEMMA SameFacts ==
  ASSUME Same
  PROVE  /\ HasPending' = HasPending /\ DualFinalizers' = DualFinalizers
         /\ QcTypeOK => QcTypeOK'
         /\ \A k : InActive(k)' = InActive(k) /\ InPending(k)' = InPending(k)
         /\ \A p, s : SigFor(p, s)' = SigFor(p, s)
         /\ \A qc : ReceivingInv(qc)' = ReceivingInv(qc)
<1>1. /\ HasPending' = HasPending
      /\ \A k : InActive(k)' = InActive(k) /\ InPending(k)' = InPending(k)
  BY DEF Same, HasPending, InActive, InPending
<1>2. DualFinalizers' = DualFinalizers
  BY DEF Same, HasPending, InActive, InPending, DualFinalizers
<1>3. QcTypeOK => QcTypeOK'
  BY <1>1 DEF Same, QcTypeOK
<1>4. \A p, s : SigFor(p, s)' = SigFor(p, s)
  BY DEF Same, SigFor, Accepted, Voters
<1>5. \A qc : ReceivingInv(qc)' = ReceivingInv(qc)
  BY DEF Same, ReceivingInv, Accepted, Voters
<1> QED BY <1>1, <1>2, <1>3, <1>4, <1>5

\* The votes for the active policy only grow.
Grows == /\ active_policy_sig.strong \subseteq active_policy_sig'.strong
         /\ active_policy_sig.weak \subseteq active_policy_sig'.weak

\* A vote on its way to the pending policy is still the one counted.
LEMMA VoteStays ==
  ASSUME Same, Grows, NEW v, VoteInv(v)
  PROVE  VoteInv(v)'
BY SameFacts DEF Same, Grows, VoteInv, CountedAs

-------------------------------------------------------------------------------
(* The steps.                                                                *)

Better == /\ Strength(active_policy_sig) <= Strength(active_policy_sig')
          /\ Strength(pending_policy_sig) <= Strength(pending_policy_sig')

\* A vote is taken up (aggregate_vote), or nothing of this changes.
LEMMA SigsUnchanged ==
  ASSUME QcInv, Same, UNCHANGED <<active_policy_sig, pending_policy_sig, receiving>>,
         \A v \in processing' : v \in processing \/ VoteInv(v)
  PROVE  QcInv' /\ Better
<1>1. Grows
  BY DEF Grows
<1>2. \A v \in processing' : VoteInv(v)'
  BY <1>1, VoteStays DEF QcInv
<1>3. /\ SigFor(active_policy, active_policy_sig)'
      /\ HasPending' => SigFor(pending_policy, pending_policy_sig)'
  BY SameFacts DEF QcInv, Same
<1>4. \A k \in DualFinalizers' : /\ k \in pending_policy_sig'.strong => CountedAs(k, TRUE)'
                                 /\ k \in pending_policy_sig'.weak => CountedAs(k, FALSE)'
  BY SameFacts DEF QcInv, CountedAs
<1>5. QcInv'
  <2>1. ~ HasPending' => pending_policy_sig' = NewSig
    BY SameFacts DEF QcInv
  <2>2. \A qc \in receiving' : HasPending' /\ ReceivingInv(qc)'
    BY SameFacts DEF QcInv
  <2>3. QcTypeOK'
    BY SameFacts DEF QcInv
  <2> QED BY <1>2, <1>3, <1>4, <2>1, <2>2, <2>3 DEF QcInv
<1>6. Better
  BY DEF Better, Strength
<1> QED BY <1>5, <1>6

\* A vote is counted for the active policy (add_vote under the mutex of active_policy_sig).
LEMMA AddToActiveStep ==
  ASSUME QcInv, NEW v \in processing, AddToActive(v)
  PROVE  QcInv' /\ Better
<1>1. Same /\ pending_policy_sig' = pending_policy_sig /\ receiving' = receiving
  BY DEF AddToActive, policies, Same
<1>2. VoteInv(v) /\ QcTypeOK /\ SigFor(active_policy, active_policy_sig) /\ PolicyOK(active_policy)
  BY DEF QcInv, QcTypeOK
<1>3. v.key \in Finalizers(active_policy)
  BY <1>2 DEF AddToActive, VoteInv, InActive
<1>4. v.strong \in BOOLEAN /\ v.key \in Voters(v.strong)
  BY <1>2 DEF VoteInv, QcTypeOK, Voters
<1>5. /\ SigFor(active_policy, active_policy_sig')
      /\ Grows
      /\ ~ has_voted(active_policy_sig, v.key) =>
           v.key \in (IF v.strong THEN active_policy_sig'.strong ELSE active_policy_sig'.weak)
      /\ Strength(active_policy_sig) <= Strength(active_policy_sig')
  <2> DEFINE key == v.key
             strong == v.strong
  <2>1. key \in Finalizers(active_policy) /\ strong \in BOOLEAN /\ key \in Voters(strong)
    BY <1>3, <1>4
  <2>2. active_policy_sig' = add_vote(active_policy, active_policy_sig, key, strong)
    BY DEF AddToActive
  <2> HIDE DEF key, strong
  <2>3. /\ SigFor(active_policy, active_policy_sig')
        /\ Grows
        /\ ~ has_voted(active_policy_sig, key) /\ strong => key \in active_policy_sig'.strong
        /\ ~ has_voted(active_policy_sig, key) /\ ~ strong => key \in active_policy_sig'.weak
        /\ Strength(active_policy_sig) <= Strength(active_policy_sig')
    BY <1>2, <2>1, <2>2, VoteAdded DEF Grows
  <2> QED BY <2>3 DEF key, strong
<1>6. \A w \in processing' : VoteInv(w)'
  <2> SUFFICES ASSUME NEW w \in processing' PROVE VoteInv(w)'
    OBVIOUS
  <2>1. CASE w \in processing
    BY <1>1, <1>5, <2>1, VoteStays DEF QcInv
  <2>2. CASE w \notin processing
    <3>1. InPending(v.key) /\ ~ has_voted(active_policy_sig, v.key) /\ w = At(v, "check_pending")
      BY <2>2 DEF AddToActive, AfterActive
    <3>2. w.key = v.key /\ w.strong = v.strong /\ w.at = "check_pending"
      BY <3>1 DEF At
    <3>3. CountedAs(w.key, w.strong)'
      BY <1>5, <3>1, <3>2 DEF CountedAs
    <3>4. InPending(w.key)'
      BY <1>1, <3>1, <3>2, SameFacts
    <3>5. w.key \in Key /\ w.strong \in cast'[w.key]
      BY <1>1, <1>2, <3>2 DEF VoteInv, Same
    <3> QED BY <3>2, <3>3, <3>4, <3>5 DEF VoteInv
  <2> QED BY <2>1, <2>2
<1>7. \A k \in DualFinalizers' : /\ k \in pending_policy_sig'.strong => CountedAs(k, TRUE)'
                                 /\ k \in pending_policy_sig'.weak => CountedAs(k, FALSE)'
  BY <1>1, <1>5, SameFacts DEF QcInv, CountedAs, Grows
<1>8. SigFor(active_policy, active_policy_sig)'
  BY <1>1, <1>5, SameFacts DEF Same
<1>9. HasPending' => SigFor(pending_policy, pending_policy_sig)'
  BY <1>1, SameFacts DEF QcInv, Same
<1>10. QcInv'
  <2>1. ~ HasPending' => pending_policy_sig' = NewSig
    BY <1>1, SameFacts DEF QcInv
  <2>2. \A qc \in receiving' : HasPending' /\ ReceivingInv(qc)'
    BY <1>1, SameFacts DEF QcInv
  <2>3. QcTypeOK'
    BY <1>1, SameFacts DEF QcInv
  <2> QED BY <1>6, <1>7, <1>8, <1>9, <2>1, <2>2, <2>3 DEF QcInv
<1>11. Better
  BY <1>1, <1>5 DEF Better, Strength
<1> QED BY <1>10, <1>11

\* The vote is counted for the pending policy.
LEMMA AddToPendingStep ==
  ASSUME QcInv, NEW v \in processing, AddToPending(v)
  PROVE  QcInv' /\ Better
<1>1. Same /\ active_policy_sig' = active_policy_sig /\ receiving' = receiving
  BY DEF AddToPending, policies, Same
<1>2. VoteInv(v) /\ QcTypeOK
  BY DEF QcInv
<1>3. HasPending /\ v.key \in Finalizers(pending_policy) /\ (InActive(v.key) => CountedAs(v.key, v.strong))
  BY <1>2 DEF AddToPending, VoteInv, InPending
<1>4. PolicyOK(pending_policy) /\ SigFor(pending_policy, pending_policy_sig)
  BY <1>3 DEF QcInv, QcTypeOK
<1>5. v.strong \in BOOLEAN /\ v.key \in Voters(v.strong)
  BY <1>2 DEF VoteInv, QcTypeOK, Voters
<1>6. PICK key, strong : key = v.key /\ strong = v.strong
  OBVIOUS
<1>7. /\ SigFor(pending_policy, pending_policy_sig')
      /\ pending_policy_sig'.strong \subseteq pending_policy_sig.strong \cup {key}
      /\ pending_policy_sig'.weak \subseteq pending_policy_sig.weak \cup {key}
      /\ has_voted(pending_policy_sig, key) => pending_policy_sig' = pending_policy_sig
      /\ ~ has_voted(pending_policy_sig, key) /\ strong => pending_policy_sig'.weak = pending_policy_sig.weak
      /\ ~ has_voted(pending_policy_sig, key) /\ ~ strong => pending_policy_sig'.strong = pending_policy_sig.strong
      /\ Strength(pending_policy_sig) <= Strength(pending_policy_sig')
  <2>1. pending_policy_sig' = add_vote(pending_policy, pending_policy_sig, key, strong)
    BY <1>6 DEF AddToPending
  <2>2. key \in Finalizers(pending_policy) /\ strong \in BOOLEAN /\ key \in Voters(strong)
    BY <1>3, <1>5, <1>6
  <2> QED BY <1>4, <2>1, <2>2, VoteAdded
<1>8. \A k \in DualFinalizers' : /\ k \in pending_policy_sig'.strong => CountedAs(k, TRUE)'
                                 /\ k \in pending_policy_sig'.weak => CountedAs(k, FALSE)'
  <2> SUFFICES ASSUME NEW k \in DualFinalizers
               PROVE  /\ k \in pending_policy_sig'.strong => CountedAs(k, TRUE)'
                      /\ k \in pending_policy_sig'.weak => CountedAs(k, FALSE)'
    BY <1>1, SameFacts
  <2>1. /\ k \in pending_policy_sig.strong => CountedAs(k, TRUE)
        /\ k \in pending_policy_sig.weak => CountedAs(k, FALSE)
    BY DEF QcInv
  <2>2. \A b : CountedAs(k, b)' = CountedAs(k, b)
    BY <1>1 DEF CountedAs
  <2>3. CASE k # key \/ has_voted(pending_policy_sig, key)
    BY <1>7, <2>1, <2>2, <2>3
  <2>4. CASE k = key /\ ~ has_voted(pending_policy_sig, key)
    <3>1. CountedAs(key, strong)
      BY <1>3, <1>6, <2>4 DEF DualFinalizers
    <3>2. key \notin pending_policy_sig.strong /\ key \notin pending_policy_sig.weak
      BY <2>4 DEF has_voted
    <3>3. CASE strong = TRUE
      BY <1>7, <2>2, <2>4, <3>1, <3>2, <3>3
    <3>4. CASE strong = FALSE
      BY <1>7, <2>2, <2>4, <3>1, <3>2, <3>4
    <3> QED BY <1>5, <1>6, <3>3, <3>4
  <2> QED BY <2>3, <2>4
<1>9. Grows
  BY <1>1 DEF Grows
<1>10. \A w \in processing' : VoteInv(w)'
  BY <1>1, <1>9, VoteStays DEF AddToPending, QcInv
<1>11. SigFor(active_policy, active_policy_sig)' /\ SigFor(pending_policy, pending_policy_sig)'
  BY <1>1, <1>7, SameFacts DEF QcInv, Same
<1>12. QcInv'
  BY <1>1, <1>3, <1>8, <1>10, <1>11, SameFacts DEF QcInv
<1>13. Better
  BY <1>1, <1>7 DEF Better, Strength
<1> QED BY <1>12, <1>13

\* A received certificate is verified: each of its parts is.
LEMMA ReceivedParts ==
  ASSUME NEW qc \in ReceivedQcs
  PROVE  /\ qc[1] \in QcType(active_policy) /\ Accepted(active_policy, qc[1])
         /\ HasPending => ReceivingInv(qc)
<1>1. verify_qc(qc)
  BY DEF ReceivedQcs
<1>2. qc[1] \in SigsOf(active_policy) /\ (HasPending => qc[2] \in SigsOf(pending_policy))
  BY DEF ReceivedQcs
<1>3. \A p : SigsOf(p) \subseteq QcType(p)
  BY DEF SigsOf, QcType
<1> QED BY <1>1, <1>2, <1>3 DEF verify_qc, Accepted, ReceivingInv

\* The certificate of a received block is set for the active policy (set_received_qc).
LEMMA SetReceivedStep ==
  ASSUME QcInv, NEW qc \in ReceivedQcs, SetReceivedQc(qc)
  PROVE  QcInv' /\ Better
<1>1. Same /\ pending_policy_sig' = pending_policy_sig /\ processing' = processing
  BY DEF SetReceivedQc, policies, Same
<1>2. SigFor(active_policy, active_policy_sig) /\ PolicyOK(active_policy)
  BY DEF QcInv, QcTypeOK
<1>3. /\ qc[1] \in QcType(active_policy) /\ Accepted(active_policy, qc[1])
      /\ HasPending => ReceivingInv(qc)
  BY ReceivedParts
<1>4. PICK part : part = qc[1]
  OBVIOUS
<1>5. /\ SigFor(active_policy, active_policy_sig')
      /\ active_policy_sig'.strong = active_policy_sig.strong /\ active_policy_sig'.weak = active_policy_sig.weak
      /\ Strength(active_policy_sig) <= Strength(active_policy_sig')
  <2>1. active_policy_sig' = set_received_qc_sig(active_policy_sig, part)
    BY <1>4 DEF SetReceivedQc
  <2> QED BY <1>2, <1>3, <1>4, <2>1, QcReceived
<1>6. Grows
  BY <1>5 DEF Grows
<1>7. QcInv'
  <2>1. QcTypeOK'
    BY <1>1, SameFacts DEF QcInv
  <2>2. SigFor(active_policy, active_policy_sig)'
    BY <1>1, <1>5, SameFacts DEF Same
  <2>3. /\ HasPending' => SigFor(pending_policy, pending_policy_sig)'
        /\ ~ HasPending' => pending_policy_sig' = NewSig
    BY <1>1, SameFacts DEF QcInv, Same
  <2>4. \A v \in processing' : VoteInv(v)'
    BY <1>1, <1>6, VoteStays DEF QcInv
  <2>5. \A x \in receiving' : HasPending' /\ ReceivingInv(x)'
    BY <1>1, <1>3, SameFacts DEF QcInv, SetReceivedQc
  <2>6. \A k \in DualFinalizers' : /\ k \in pending_policy_sig'.strong => CountedAs(k, TRUE)'
                                   /\ k \in pending_policy_sig'.weak => CountedAs(k, FALSE)'
    BY <1>1, <1>5, SameFacts DEF QcInv, CountedAs
  <2> QED BY <2>1, <2>2, <2>3, <2>4, <2>5, <2>6 DEF QcInv
<1>8. Better
  BY <1>1, <1>5 DEF Better, Strength
<1> QED BY <1>7, <1>8

\* Then its other part is set for the pending policy.
LEMMA SetReceivedPendingStep ==
  ASSUME QcInv, NEW qc \in receiving, SetReceivedPending(qc)
  PROVE  QcInv' /\ Better
<1>1. Same /\ active_policy_sig' = active_policy_sig /\ processing' = processing
  BY DEF SetReceivedPending, policies, Same
<1>2. HasPending /\ ReceivingInv(qc)
  BY DEF QcInv
<1>3. SigFor(pending_policy, pending_policy_sig) /\ PolicyOK(pending_policy)
  BY <1>2 DEF QcInv, QcTypeOK
<1>4. PICK part : part = qc[2]
  OBVIOUS
<1>5. /\ SigFor(pending_policy, pending_policy_sig')
      /\ pending_policy_sig'.strong = pending_policy_sig.strong
      /\ pending_policy_sig'.weak = pending_policy_sig.weak
      /\ Strength(pending_policy_sig) <= Strength(pending_policy_sig')
  <2>1. pending_policy_sig' = set_received_qc_sig(pending_policy_sig, part)
    BY <1>4 DEF SetReceivedPending
  <2>2. part \in QcType(pending_policy) /\ Accepted(pending_policy, part)
    BY <1>2, <1>4 DEF ReceivingInv
  <2> QED BY <1>3, <2>1, <2>2, QcReceived
<1>6. Grows
  BY <1>1 DEF Grows
<1>7. QcInv'
  <2>1. QcTypeOK'
    BY <1>1, SameFacts DEF QcInv
  <2>2. SigFor(active_policy, active_policy_sig)' /\ SigFor(pending_policy, pending_policy_sig)'
    BY <1>1, <1>5, SameFacts DEF QcInv, Same
  <2>3. HasPending'
    BY <1>1, <1>2, SameFacts
  <2>4. \A v \in processing' : VoteInv(v)'
    BY <1>1, <1>6, VoteStays DEF QcInv
  <2>5. \A x \in receiving' : HasPending' /\ ReceivingInv(x)'
    BY <1>1, SameFacts DEF QcInv, SetReceivedPending
  <2>6. \A k \in DualFinalizers' : /\ k \in pending_policy_sig'.strong => CountedAs(k, TRUE)'
                                   /\ k \in pending_policy_sig'.weak => CountedAs(k, FALSE)'
    BY <1>1, <1>5, SameFacts DEF QcInv, CountedAs
  <2> QED BY <2>1, <2>2, <2>3, <2>4, <2>5, <2>6 DEF QcInv
<1>8. Better
  BY <1>1, <1>5 DEF Better, Strength
<1> QED BY <1>7, <1>8

\* Every step keeps the invariant and never makes a best certificate worse.
LEMMA QcStep ==
  ASSUME QcInv, [Next]_vars
  PROVE  QcInv' /\ Better
<1>1. ASSUME NEW t \in Thread, NEW k \in Key, NEW strong \in cast[k], StartVote(t, k, strong)
      PROVE  QcInv' /\ Better
  <2>1. Same /\ UNCHANGED <<active_policy_sig, pending_policy_sig, receiving>>
    BY <1>1 DEF StartVote, policies, Same
  <2>2. \A v \in processing' : v \in processing \/ VoteInv(v)
    BY <1>1 DEF StartVote, At, VoteInv
  <2> QED BY <2>1, <2>2, SigsUnchanged
<1>2. ASSUME NEW v \in processing, CheckPending(v)
      PROVE  QcInv' /\ Better
  <2>1. Same /\ UNCHANGED <<active_policy_sig, pending_policy_sig, receiving>>
    BY <1>2 DEF CheckPending, policies, Same
  <2>2. \A w \in processing' : w \in processing \/ VoteInv(w)
    <3>1. VoteInv(v)
      BY DEF QcInv
    <3>2. VoteInv(At(v, "pending"))
      BY <1>2, <3>1 DEF CheckPending, At, VoteInv
    <3> QED BY <1>2, <3>2 DEF CheckPending
  <2> QED BY <2>1, <2>2, SigsUnchanged
<1>3. ASSUME ReadActive \/ ReadPending \/ UNCHANGED vars
      PROVE  QcInv' /\ Better
  <2>1. Same /\ UNCHANGED <<active_policy_sig, pending_policy_sig, receiving, processing>>
    BY <1>3 DEF ReadActive, ReadPending, vars, policies, Same
  <2> QED BY <2>1, SigsUnchanged
<1>4. ASSUME NEW v \in processing, VoteStep(v)
      PROVE  QcInv' /\ Better
  BY <1>2, <1>4, AddToActiveStep, AddToPendingStep DEF VoteStep
<1> QED BY <1>1, <1>3, <1>4, SetReceivedStep, SetReceivedPendingStep DEF Next

-------------------------------------------------------------------------------
(* The theorems.                                                             *)

\* The inductive invariant.
THEOREM QcInvariant == Spec => []QcInv
<1>1. QcInv /\ [Next]_vars => QcInv'
  BY QcStep
<1> QED BY <1>1, QcInvInit, PTL DEF Spec

\* One vote of each finalizer is counted, the same one for both policies
\* (aggregate_vote, check_duplicate), whatever the policies, threads and votes.
THEOREM OneVoteEachHolds == Spec => []OneVoteEach
<1>1. QcInv => OneVoteEach
  <2> SUFFICES ASSUME QcInv PROVE OneVoteEach
    OBVIOUS
  <2>1. active_policy_sig.strong \cap active_policy_sig.weak = {}
    BY DEF QcInv, SigFor, SigInv
  <2>2. HasPending => pending_policy_sig.strong \cap pending_policy_sig.weak = {}
    BY DEF QcInv, SigFor, SigInv
  <2>3. \A x \in Sigs : x[2].strong \cap x[2].weak = {}
    BY <2>1, <2>2 DEF Sigs
  <2>4. \A k \in DualFinalizers : /\ k \in active_policy_sig.strong => k \notin pending_policy_sig.weak
                                  /\ k \in active_policy_sig.weak => k \notin pending_policy_sig.strong
    BY <2>1 DEF QcInv, CountedAs
  <2> QED BY <2>3, <2>4 DEF OneVoteEach
<1> QED BY <1>1, QcInvariant, PTL

\* The state of a policy's votes (state_t) says what the weights of the votes say, for
\* every accepted policy, whatever the sum of its weights does to an int.
THEOREM StateMatchesVotesHolds == Spec => []StateMatchesVotes
<1>1. QcInv => StateMatchesVotes
  <2> SUFFICES ASSUME QcInv PROVE StateMatchesVotes
    OBVIOUS
  <2>1. Matches(active_policy, active_policy_sig)
    BY DEF QcInv, SigFor, SigInv
  <2>2. HasPending => Matches(pending_policy, pending_policy_sig)
    BY DEF QcInv, SigFor, SigInv
  <2>3. \A x \in Sigs : Matches(x[1], x[2])
    BY <2>1, <2>2 DEF Sigs
  <2> QED BY <2>3 DEF StateMatchesVotes, Matches
<1> QED BY <1>1, QcInvariant, PTL

\* Each part of the best certificate (get_best_qc) passes the verification of qc_sig_t.
THEOREM EachPartVerifiesHolds == Spec => []EachPartVerifies
<1>1. QcInv => EachPartVerifies
  <2> SUFFICES ASSUME QcInv PROVE EachPartVerifies
    OBVIOUS
  <2>1. get_best_qc(active_policy_sig) # NoQc => Accepted(active_policy, get_best_qc(active_policy_sig))
    BY BestIsAccepted DEF QcInv, QcTypeOK
  <2>2. HasPending /\ get_best_qc(pending_policy_sig) # NoQc =>
          Accepted(pending_policy, get_best_qc(pending_policy_sig))
    BY BestIsAccepted DEF QcInv, QcTypeOK
  <2>3. \A x \in Sigs : get_best_qc(x[2]) # NoQc => Accepted(x[1], get_best_qc(x[2]))
    BY <2>1, <2>2 DEF Sigs
  <2> QED BY <2>3 DEF EachPartVerifies, Accepted
<1> QED BY <1>1, QcInvariant, PTL

\* No vote and no received certificate makes the best certificate worse.
THEOREM BestNeverWorsensHolds == Spec => BestNeverWorsens
<1>1. QcInv /\ [Next]_vars =>
        [/\ Strength(active_policy_sig) <= Strength(active_policy_sig')
         /\ Strength(pending_policy_sig) <= Strength(pending_policy_sig')]_vars
  BY QcStep DEF Better
<1> QED BY <1>1, QcInvariant, PTL DEF Spec, BestNeverWorsens
===============================================================================
