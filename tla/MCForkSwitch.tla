----------------------------- MODULE MCForkSwitch -----------------------------
(***************************************************************************)
(* Instances of Restart: two branches from block 1,                        *)
(*                                                                         *)
(*      1 - 2 - 3              (no certificate on 2 or 3)                  *)
(*        \ 4 - 5 - 6 - 7      (5 claims 4; 6 claims 5: then 4 is final;   *)
(*                              7 claims 6: then 5 is final)               *)
(*                                                                         *)
(* A final block is valid in every instance: finalizers vote for a block   *)
(* that claims it only after they validated it.                            *)
(***************************************************************************)
EXTENDS Restart

MCBlk   == 1..6
MCFinal == {1, 2, 4, 5, 6, 7}

MCPrevious  == <<0, 1, 2, 1, 4, 5, 6>>
MCAncestry  == <<{1}, {1, 2}, {1, 2, 3}, {1, 4}, {1, 4, 5}, {1, 4, 5, 6}, {1, 4, 5, 6, 7}>>
MCNum       == <<1, 2, 3, 2, 3, 4, 5>>
MCTimestamp == <<1, 2, 3, 4, 5, 6, 7>>

QcClaim(n, strong) == [block_num |-> n, is_strong_qc |-> strong]

MCClaim == <<QcClaim(1, FALSE), QcClaim(1, TRUE), QcClaim(1, TRUE), QcClaim(1, TRUE), QcClaim(2, TRUE),
             QcClaim(3, TRUE), QcClaim(4, TRUE)>>

\* Here 2 is younger than 5, which claims no more than 2 does: a node on 5 moves to 2,
\* and back when 6 comes, which claims 5; and 7 makes 4 and 5 final at once.
MCLateTimestamp == <<1, 4, 8, 2, 3, 5, 6>>
MCLateClaim == [MCClaim EXCEPT ![5] = QcClaim(1, TRUE)]

MCInvalids      == {{}, {3}, {5}, {6}}
MCFinalInvalids == {{2}, {7}}
===============================================================================
