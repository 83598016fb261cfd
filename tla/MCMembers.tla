----------------------------- MODULE MCMembers -----------------------------
(***************************************************************************)
(* A small instance of Members for TLC.                                    *)
(***************************************************************************)
EXTENDS Members, TLC

CONSTANTS home, o1, o2, c1, c2, c3, owner, guest

Symmetric == Permutations(Calls) \cup Permutations({o1, o2})
=============================================================================
