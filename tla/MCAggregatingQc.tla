---------------------------- MODULE MCAggregatingQc ----------------------------
(* A block with one policy of three finalizers, or with an active and a pending *)
(* one that share finalizers.                                                   *)
EXTENDS AggregatingQc

CONSTANTS a, b, c, d

Policy(k1, w1, k2, w2, k3, w3, threshold) ==
  [weight |-> [k \in {k1, k2, k3} |-> CASE k = k1 -> w1 [] k = k2 -> w2 [] OTHER -> w3],
   threshold |-> threshold]

Equal(k1, k2, k3) == Policy(k1, 1, k2, 1, k3, 1, 2)
Heavy(k1, k2, k3) == Policy(k1, 2, k2, 1, k3, 1, 3)

\* A policy whose weights do not fit an int of four bits.
Large == Policy(a, 3, b, 3, c, 3, 5)

Singles == {<<p, NoPolicy>> : p \in {Equal(a, b, c), Heavy(a, b, c), Large}}
Duals   == {<<Equal(a, b, c), Heavy(d, b, c)>>, <<Heavy(a, b, c), Equal(b, c, d)>>}

\* Two finalizers in each policy, one of them in both.
Pair(k1, k2) == [weight |-> [k \in {k1, k2} |-> IF k = k1 THEN 2 ELSE 1], threshold |-> 2]

MCPolicies == Singles \cup {<<Pair(a, b), Pair(b, c)>>}
===============================================================================
