------------------------------- MODULE MCSavanna -------------------------------
(* Honest finalizers a and b, and a Byzantine one, z, with weights 2, 1 and 1 *)
(* and threshold 3.  b may lag behind: a and z have a quorum without it.      *)
EXTENDS Savanna

CONSTANTS a, b, z

\* The smallest quorums; a larger one adds no QC.
MCQuorum == {{a, b}, {a, z}}

\* Hashes only tell the blocks of a number apart: the first of them has GenesisHash.
HashesInOrder == \A id \in Ids : [num |-> id.num, hash |-> GenesisHash] \in Ids
===============================================================================
