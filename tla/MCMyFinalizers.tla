---------------------------- MODULE MCMyFinalizers ----------------------------
(* A fork: X1 and X2, which claims a QC on X1, against Y1, in the slot of X2.  *)
(* One of the keys is in the policies of all three, the other in X1's only.    *)
EXTENDS MyFinalizers, Branch

CONSTANTS x, y, j, k

g  == GenesisBranch(x)
gc == GenesisCore(x)

Weak(n)   == QcClaim(n, FALSE)
Strong(n) == QcClaim(n, TRUE)

X1 == Extend(g, x, 2, Weak(1))
X2 == Extend(X1, x, 3, Strong(2))
Y1 == Extend(g, y, 3, Weak(1))

xc == ChildCore(gc, g, Weak(1))

BlockAt(h, core, voters) == [id |-> Tip(h).id, timestamp |-> Tip(h).timestamp, core |-> core, voters |-> voters]

MCBlocks == {BlockAt(X1, xc, {j, k}), BlockAt(X2, ChildCore(xc, X1, Strong(2)), {j}),
             BlockAt(Y1, xc, {j})}

NoRef   == BlockRef([num |-> 0, hash |-> x], 0)
MCUnset == [last_vote |-> NoRef, lock |-> NoRef, other_branch_latest_time |-> 0]

\* At startup, and at the transition.
MCDefaults == {[MCUnset EXCEPT !.lock = TipRef(g)], [MCUnset EXCEPT !.lock = TipRef(g), !.last_vote = TipRef(g)]}
===============================================================================
