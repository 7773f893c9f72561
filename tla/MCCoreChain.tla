------------------------------ MODULE MCCoreChain ------------------------------
(* CoreChain with interchangeable hashes.                                    *)
EXTENDS CoreChain, TLC

HashSymmetry == Permutations(Hash)
===============================================================================
