---------------------------- MODULE MCTransactions ----------------------------
(* Two branches of two blocks each, one of which ends with a block that the node *)
(* may produce itself, a third block on that one, and a transaction that any of  *)
(* them may include.                                                             *)
EXTENDS Transactions, TLC

CONSTANTS g, a1, b1, b2, own, c3, t

MCPath == (g :> <<>>) @@ (a1 :> <<a1>>) @@ (b1 :> <<b1>>) @@ (b2 :> <<b1, b2>>)
          @@ (own :> <<a1, own>>) @@ (c3 :> <<a1, own, c3>>)
MCExpiration == t :> 2
===============================================================================
