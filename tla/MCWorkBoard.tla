---------------------------- MODULE MCWorkBoard ----------------------------
(***************************************************************************)
(* A small instance of WorkBoard for TLC.                                  *)
(***************************************************************************)
EXTENDS WorkBoard, TLC

CONSTANTS i1, i2, i3

(* Two items have one title.                                               *)
Titles == [i \in {i1, i2, i3} |-> IF i = i3 THEN "ship" ELSE "fix"]

(* Requests and projects are interchangeable.                              *)
Symmetry == Permutations(Requests) \cup Permutations(Projects)
=============================================================================
