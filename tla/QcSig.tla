--------------------------------- MODULE QcSig ---------------------------------
(***************************************************************************)
(* The votes for one finalizer policy on one block (aggregating_qc_sig_t), *)
(* the quorum certificate they make (qc_sig_t), and how a certificate is   *)
(* verified.                                                               *)
(*                                                                         *)
(* A policy is a record [weight, threshold], weight a function on its      *)
(* finalizers.  A certificate is a record [strong, weak, is_weak]: the     *)
(* finalizers in its two bitsets, and whether it has a weak bitset.        *)
(***************************************************************************)
EXTENDS Integers, FiniteSets

CONSTANTS
  IntValues,    \* the number of values of an int
  LongValues    \* and of an uint64_t

\* Half of the values of an int are negative; an uint64_t is some ints wide.
ASSUME WidthAssumption ==
  /\ IntValues \in Nat /\ LongValues \in Nat
  /\ \E half \in 1..IntValues : IntValues = 2 * half
  /\ \E ints \in 1..LongValues : LongValues = IntValues * ints

Finalizers(p) == DOMAIN p.weight

\* The weights of the finalizers in S, unit by unit, and their sum.
Units(p, S)  == UNION {{k} \X (1..p.weight[k]) : k \in S}
Weight(p, S) == Cardinality(Units(p, S))

\* Policies that set_finalizers accepts: the sum of the weights does not overflow.
PolicyOK(p) ==
  LET sum == Weight(p, Finalizers(p))
  IN  /\ IsFiniteSet(Finalizers(p)) /\ p.weight \in [Finalizers(p) -> Nat] /\ p.threshold \in Nat
      /\ sum < LongValues
      /\ sum >= p.threshold /\ p.threshold > sum \div 2

\* std::accumulate from an int: the accumulated value is an int.
ToInt(v) == LET r == v % IntValues IN IF r < IntValues \div 2 THEN r ELSE r - IntValues

max_weak_sum_before_weak_final(p) == (ToInt(Weight(p, Finalizers(p))) - p.threshold) % LongValues

-------------------------------------------------------------------------------
NoQc == [strong |-> {}, weak |-> {}, is_weak |-> TRUE]

NewSig == [state |-> "unrestricted", strong_sum |-> 0, weak_sum |-> 0, strong |-> {}, weak |-> {},
           received |-> NoQc]

has_voted(s, k) == k \in s.strong \cup s.weak

IsQuorumMet(s) == s.state \in {"strong", "weak_achieved", "weak_final"}

Undecided == {"unrestricted", "restricted"}

add_strong_vote(p, s, k) ==
  LET strong_sum == s.strong_sum + p.weight[k]
      state == CASE s.state \in Undecided \cup {"weak_achieved"} /\ strong_sum >= p.threshold -> "strong"
                 [] s.state \in Undecided /\ strong_sum < p.threshold
                      /\ s.weak_sum + strong_sum >= p.threshold ->
                      IF s.state = "restricted" THEN "weak_final" ELSE "weak_achieved"
                 [] OTHER -> s.state
  IN [s EXCEPT !.strong = @ \cup {k}, !.strong_sum = strong_sum, !.state = state]

\* Mutant: a weak vote too many is not noticed before there is a quorum, and then
\* is taken to rule out a strong certificate one vote early.
Mut_RestrictedEarly(p, s, k) ==
  LET weak_sum == s.weak_sum + p.weight[k]
      quorum   == weak_sum + s.strong_sum >= p.threshold
      over     == weak_sum >= max_weak_sum_before_weak_final(p)
      state == CASE s.state \in Undecided /\ quorum /\ over -> "weak_final"
                 [] s.state \in Undecided /\ quorum /\ ~ over -> "weak_achieved"
                 [] s.state \in Undecided /\ ~ quorum /\ over -> "restricted"
                 [] s.state = "weak_achieved" /\ over -> "weak_final"
                 [] OTHER -> s.state
  IN [s EXCEPT !.weak = @ \cup {k}, !.weak_sum = weak_sum, !.state = state]

add_weak_vote(p, s, k) ==
  LET weak_sum == s.weak_sum + p.weight[k]
      quorum   == weak_sum + s.strong_sum >= p.threshold
      over     == weak_sum > max_weak_sum_before_weak_final(p)
      state == CASE s.state \in Undecided /\ quorum /\ over -> "weak_final"
                 [] s.state \in Undecided /\ quorum /\ ~ over -> "weak_achieved"
                 [] s.state \in Undecided /\ ~ quorum /\ over -> "restricted"
                 [] s.state = "weak_achieved" /\ weak_sum >= max_weak_sum_before_weak_final(p) -> "weak_final"
                 [] OTHER -> s.state
  IN [s EXCEPT !.weak = @ \cup {k}, !.weak_sum = weak_sum, !.state = state]

\* check_duplicate, then the vote
add_vote(p, s, k, strong) ==
  IF k \in s.strong \cup s.weak THEN s
  ELSE IF strong THEN add_strong_vote(p, s, k) ELSE add_weak_vote(p, s, k)

-------------------------------------------------------------------------------
\* Mutant: the weak votes are left out of a weak certificate.
Mut_ExtractStrongOnly(s) == [strong |-> s.strong, weak |-> {}, is_weak |-> s.state # "strong"]

extract_qc_sig_from_aggregating(s) ==
  IF s.state = "strong" THEN [strong |-> s.strong, weak |-> {}, is_weak |-> FALSE]
  ELSE [strong |-> s.strong, weak |-> s.weak, is_weak |-> TRUE]

\* Mutant: a received certificate always wins.
Mut_BestIsReceived(s) ==
  IF s.received # NoQc THEN s.received
  ELSE IF IsQuorumMet(s) THEN extract_qc_sig_from_aggregating(s) ELSE NoQc

\* The certificate received in a block wins a tie.
get_best_qc(s) ==
  IF ~ IsQuorumMet(s) THEN s.received
  ELSE LET agg == extract_qc_sig_from_aggregating(s)
       IN IF s.received # NoQc /\ (~ s.received.is_weak \/ agg.is_weak) THEN s.received ELSE agg

set_received_qc_sig(s, qc) ==
  IF s.received = NoQc \/ (s.received.is_weak /\ ~ qc.is_weak) THEN [s EXCEPT !.received = qc] ELSE s

-------------------------------------------------------------------------------
verify_vote_format(p, qc) ==
  /\ qc.strong \cup qc.weak \subseteq Finalizers(p)
  /\ qc.strong \cap qc.weak = {}
  /\ ~ qc.is_weak => qc.weak = {}

\* The weights, and the aggregate signature: strong_voters and weak_voters signed.
verify(p, qc, strong_voters, weak_voters) ==
  /\ IF qc.is_weak THEN Weight(p, qc.strong) + Weight(p, qc.weak) >= p.threshold
     ELSE Weight(p, qc.strong) >= p.threshold
  /\ qc.strong \subseteq strong_voters /\ qc.weak \subseteq weak_voters

vote_same_at(qc1, qc2, k) ==
  (k \in qc1.strong <=> k \in qc2.strong) /\ (k \in qc1.weak <=> k \in qc2.weak)
===============================================================================
