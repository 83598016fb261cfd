--------------------------- MODULE MCSharedFiles ---------------------------
(***************************************************************************)
(* A small instance of SharedFiles for TLC.                                *)
(***************************************************************************)
EXTENDS SharedFilesSerial, TLC

(* Requests are interchangeable.                                           *)
RequestSymmetry == Permutations(Requests)
=============================================================================
