--------------------------- MODULE MCCurateQueue ---------------------------
(***************************************************************************)
(* Small instances of CurateQueue for TLC.                                 *)
(***************************************************************************)
EXTENDS CurateQueue, TLC

CONSTANTS x, y, b1, b2, b3, b4, b5, b6

(* b4 is about another subject.                                            *)
TwoSubjects == [b \in Batches |-> IF b = b4 THEN y ELSE x]

(* Distill workers run the same code, as do curators, and the batches of   *)
(* one subject are alike.                                                  *)
Symmetry == Permutations(Distillers) \cup Permutations(Curators)
              \cup Permutations(Batches \ {b4})
=============================================================================
