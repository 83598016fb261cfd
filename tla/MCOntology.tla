----------------------------- MODULE MCOntology -----------------------------
(***************************************************************************)
(* A small instance of Ontology for TLC: people work at organisations and  *)
(* are mentioned with them.                                                *)
(***************************************************************************)
EXTENDS Ontology, TLC

CONSTANTS Person, Organization, alice, acme, worksAt, mentions, note

SeedTypes ==
  [p \in {worksAt, mentions} |->
     IF p = worksAt THEN [from |-> {Person}, to |-> {Organization}]
                    ELSE [from |-> {}, to |-> {}]]

CustomTypes == {[from |-> {Organization}, to |-> {}], [from |-> {}, to |-> {Person}]}

BothWays == {<<alice, worksAt, acme>>, <<acme, worksAt, alice>>, <<alice, mentions, acme>>}

NoteRefs == [m \in {note} |-> <<<<alice, mentions, acme>>, <<alice, worksAt, acme>>>>]

CallSymmetry == Permutations(Calls)
=============================================================================
