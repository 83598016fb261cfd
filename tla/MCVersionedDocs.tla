-------------------------- MODULE MCVersionedDocs --------------------------
(***************************************************************************)
(* A small instance of VersionedDocs for TLC.                              *)
(***************************************************************************)
EXTENDS VersionedDocs, TLC

CONSTANTS play, lint, mission, page

FourTables ==
  (play :> "procedures") @@ (lint :> "skills") @@ (mission :> "statements")
    @@ (page :> "wiki_pages")

(* A playbook of one skill, as the console saves it or pinned; and of the  *)
(* same skill twice, pinned and not.                                       *)
AnyLint == [name |-> lint, version |-> Nil]
FirstLint == [name |-> lint, version |-> 1]
SomeRecipes == {<<AnyLint>>, <<FirstLint, AnyLint>>}

(* Requests and organisations are interchangeable.                         *)
Symmetry == Permutations(Requests) \cup Permutations(Orgs)
=============================================================================
