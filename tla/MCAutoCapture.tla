--------------------------- MODULE MCAutoCapture ---------------------------
(***************************************************************************)
(* Small instances of AutoCapture for TLC.                                 *)
(***************************************************************************)
EXTENDS AutoCapture, TLC

CONSTANTS a1, a2, s1, s2, s3, s4, t1, t2, t3, t4, c1, c2

(* One agent writes every turn.                                            *)
OneAuthor == [t \in Turns |-> a1]

(* A second agent writes one turn.                                         *)
TwoAuthors == [t \in Turns |-> IF t = t1 THEN a2 ELSE a1]

(* Session ids are random and interchangeable.                             *)
SessionSymmetry == Permutations(Sessions)
=============================================================================
