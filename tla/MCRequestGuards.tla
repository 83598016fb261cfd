-------------------------- MODULE MCRequestGuards --------------------------
(***************************************************************************)
(* A small instance of RequestGuards for TLC.                              *)
(***************************************************************************)
EXTENDS RequestGuards, TLC

CONSTANTS k1, g1

OneEach(r) == IF r \in Uploads THEN g1 ELSE k1

Symmetry == Permutations(Writes) \cup Permutations(Uploads)
=============================================================================
