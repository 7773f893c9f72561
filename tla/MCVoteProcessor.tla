---------------------------- MODULE MCVoteProcessor ----------------------------
(***************************************************************************)
(* Instances of VoteProcessor: two remote threads and the local one.       *)
(***************************************************************************)
EXTENDS VoteProcessor

CONSTANTS w1, w2, l

MCWorkers == {w1, w2}
MCOneWorker == {w1}

Vote(nr, conn, block) == [nr |-> nr, conn |-> conn, block |-> block]

\* Two peers and this node vote on a block.  With a global limit of one the second
\* peer's vote is rejected while the first one's is held.
MCMsg == {Vote(1, 1, 1), Vote(2, 2, 1), Vote(3, 0, 1)}
===============================================================================
