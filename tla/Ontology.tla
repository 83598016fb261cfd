------------------------------ MODULE Ontology ------------------------------
(***************************************************************************)
(* The ontology of an organisation: link types that constrain the kinds of *)
(* what they link, typed entities, the edges of the graph, and governed    *)
(* actions with their log (memory/ontology.py, memory/graph_pg.py,         *)
(* memory/autolink.py, the graph, ontology and action handlers of          *)
(* memory/facade.py, the end of ingestion/pipeline.py).                    *)
(*                                                                         *)
(* A link is validated by four reads, each a transaction of its own, and   *)
(* written by a fifth; an action is carried out first and logged after.    *)
(***************************************************************************)
EXTENDS Integers, Sequences, FiniteSets

CONSTANTS
  Absent,
  Kinds,       (* object kinds                                             *)
  Names,       (* of entities; two names of one slug are one name here     *)
  Predicates,
  Starter,     (* [Predicates -> link types]: what seed_defaults inserts   *)
  Types,       (* the link types memory_ontology_link_type_set may set     *)
  Links,       (* the <<subject, predicate, object>> calls ask for         *)
  Memories,    (* contents to remember                                     *)
  Refs,        (* [Memories -> Seq(Links)]: what extract_entity_refs finds *)
  Calls,       (* each made at most once                                   *)
  AtOnce,      (* how many are under way at a time                         *)
  Mishaps      (* how many database errors and cut-off calls there may be  *)

LinkType == [from : SUBSET Kinds, to : SUBSET Kinds]

ASSUME OntologyAssumption ==
  /\ Links \subseteq Names \X Predicates \X Names
  /\ Starter \in [Predicates -> LinkType] /\ Types \subseteq LinkType
  /\ Refs \in [Memories -> Seq(Links)]
  /\ AtOnce \in Nat /\ Mishaps \in Nat
  /\ Absent \notin Kinds \cup Links \cup Memories \cup LinkType \cup {"applied", "failed"}

VARIABLES
  linkTypes,   (* [Predicates -> link types, or Absent]                    *)
  kinds,       (* the registered object kinds                              *)
  actions,     (* whether the action types are seeded                      *)
  entity,      (* [Names -> the kind of the entity, or Absent]             *)
  edges,       (* [Links -> weight]                                        *)
  stored,      (* the contents stored                                      *)
  log,         (* [Calls -> "applied", "failed", or Absent: not logged]    *)
  call,        (* what each call holds between two transactions            *)
  calm,        (* history: calls during which the registry and the         *)
               (* entities have not changed                                *)
  hurt         (* history: calls cut off or met by a database error        *)

registry == <<linkTypes, kinds, actions, entity>>
ontologyVars == <<registry, edges, stored, log, call, calm, hurt>>

Idle == [pc |-> "new", action |-> FALSE, content |-> Absent, link |-> Absent,
         refs |-> <<>>, allowed |-> {}, type |-> Absent, subject |-> Absent, ok |-> FALSE,
         new |-> FALSE, made |-> {}]

(* An organisation that is not seeded, or seeded (cli.py) with some names  *)
(* proposed as entities.                                                   *)
OntologyInit ==
  /\ \/ /\ linkTypes = [p \in Predicates |-> Absent]
        /\ kinds = {} /\ actions = FALSE
        /\ entity = [n \in Names |-> Absent]
     \/ /\ linkTypes = Starter
        /\ kinds = Kinds /\ actions = TRUE
        /\ entity \in [Names -> Kinds \cup {Absent}]
  /\ edges = [l \in Links |-> 0]
  /\ stored = {}
  /\ log = [c \in Calls |-> Absent]
  /\ call = [c \in Calls |-> Idle]
  /\ calm = {} /\ hurt = {}

----------------------------------------------------------------------------
Over == {"done", "failed"}
Running == {c \in Calls : call[c].pc \notin Over \cup {"new"}}

Free(c) == call[c].pc = "new" /\ Cardinality(Running) < AtOnce

Resume(c, state) == call' = [call EXCEPT ![c] = state]

(* A handler has its result: an action is logged next.                     *)
Finished(state, ok) ==
  [state EXCEPT !.pc = IF state.action THEN "log" ELSE "done", !.ok = ok]

(* apply_autolink goes on to the next reference whose predicate is         *)
(* allowed; the one link of graph_relate has none after it.                *)
Onward(state) ==
  LET found == {k \in DOMAIN state.refs : state.refs[k][2] \in state.allowed}
      first == CHOOSE k \in found : \A j \in found : k <= j
  IN  IF found = {} THEN Finished(state, TRUE)
      ELSE [state EXCEPT !.pc = "predicate", !.link = state.refs[first],
                         !.refs = SubSeq(@, first + 1, Len(@))]

(* graph_relate answers kind_mismatch, apply_autolink skips the reference. *)
Refused(state) ==
  IF state.content = Absent THEN Finished(state, FALSE) ELSE Onward(state)

----------------------------------------------------------------------------
(* The registry.  Every write is one transaction of a short call.          *)

Changes(c) ==
  /\ Free(c)
  /\ Resume(c, [Idle EXCEPT !.pc = "done"])
  /\ calm' = {}
  /\ UNCHANGED <<edges, stored, log, hurt>>

(* seed_defaults: what is there stays (ON CONFLICT DO NOTHING).            *)
Seed(c) ==
  /\ Changes(c)
  /\ linkTypes' = [p \in Predicates |->
                     IF linkTypes[p] = Absent THEN Starter[p] ELSE linkTypes[p]]
  /\ kinds' = Kinds /\ actions' = TRUE
  /\ UNCHANGED entity

LinkTypeSet(c, p, t) ==
  /\ Changes(c)
  /\ linkTypes' = [linkTypes EXCEPT ![p] = t]
  /\ UNCHANGED <<kinds, actions, entity>>

ObjectKindSet(c, k) ==
  /\ Changes(c)
  /\ kinds' = kinds \cup {k}
  /\ UNCHANGED <<linkTypes, actions, entity>>

(* propose_entity, also for each candidate of a backfill: an unknown kind  *)
(* is refused; an entity of the slug is overwritten with its kind, active. *)
ProposeEntity(c, n, k) ==
  /\ Changes(c)
  /\ k \in kinds
  /\ entity' = [entity EXCEPT ![n] = k]
  /\ UNCHANGED <<linkTypes, kinds, actions>>

----------------------------------------------------------------------------
(* A call begins: bare, or as an action whose type is looked up first.     *)

Relate(l) == [Idle EXCEPT !.pc = "predicate", !.link = l]
Remember(m) == [Idle EXCEPT !.pc = "duplicate", !.content = m]

Begin(c, state) ==
  /\ Free(c)
  /\ Resume(c, state)
  /\ calm' = calm \cup {c}
  /\ UNCHANGED <<registry, edges, stored, log, hurt>>

(* action_apply: link_entities and remember_fact, known once seeded.       *)
ActionApply(c, state) ==
  /\ actions
  /\ Begin(c, [state EXCEPT !.action = TRUE])

----------------------------------------------------------------------------
(* validate_link.                                                          *)

Go(c, state) == Resume(c, state) /\ UNCHANGED <<registry, edges, stored, log, calm, hurt>>

(* validate_predicate: an unknown predicate is refused when any is known.  *)
(* Two reads as one: link types are only ever added.                       *)
ValidatePredicate(c) ==
  LET state == call[c]
  IN  /\ state.pc = "predicate"
      /\ Go(c, IF linkTypes[state.link[2]] = Absent
                    /\ \E p \in Predicates : linkTypes[p] # Absent
               THEN Refused(state) ELSE [state EXCEPT !.pc = "type"])

GetLinkType(c) ==
  LET state == call[c]
      type == linkTypes[state.link[2]]
  IN  /\ state.pc = "type"
      /\ Go(c, [state EXCEPT
                  !.pc = IF type = Absent \/ type = [from |-> {}, to |-> {}]
                         THEN "add" ELSE "subject",
                  !.type = type])

(* Mutant: the kind of the subject is taken for that of the object.        *)
BugOneKind(c) ==
  LET state == call[c]
  IN  /\ state.pc = "subject"
      /\ Go(c, [state EXCEPT !.pc = "object",
                             !.subject = entity[state.link[3]]])

ResolveSubject(c) ==
  LET state == call[c]
  IN  /\ state.pc = "subject"
      /\ Go(c, [state EXCEPT !.pc = "object",
                             !.subject = entity[state.link[1]]])

(* What the three reads decide: a subject without an entity is let through *)
(* with a warning, and then the object is not looked at.                   *)
Allowed(type, subject, object) ==
  \/ type.from # {} /\ subject = Absent
  \/ /\ type.from = {} \/ subject \in type.from
     /\ type.to = {} \/ object = Absent \/ object \in type.to

ResolveObject(c) ==
  LET state == call[c]
  IN  /\ state.pc = "object"
      /\ Go(c, IF Allowed(state.type, state.subject, entity[state.link[3]])
               THEN [state EXCEPT !.pc = "add"] ELSE Refused(state))

(* add_relation: INSERT, or add to the weight that is there.               *)
AddRelation(c) ==
  LET state == call[c]
  IN  /\ state.pc = "add"
      /\ edges' = [edges EXCEPT ![state.link] = @ + 1]
      /\ Resume(c, Onward([state EXCEPT !.made = @ \cup {state.link}]))
      /\ UNCHANGED <<registry, stored, log, calm, hurt>>

----------------------------------------------------------------------------
(* ingest: duplicate check, INSERT, and the links the content speaks of.   *)

FindDuplicate(c) ==
  LET state == call[c]
  IN  /\ state.pc = "duplicate"
      /\ Go(c, IF state.content \in stored THEN Finished(state, TRUE)
               ELSE [state EXCEPT !.pc = "store"])

Store(c) ==
  LET state == call[c]
  IN  /\ state.pc = "store"
      /\ stored' = stored \cup {state.content}
      /\ Resume(c, [state EXCEPT !.pc = "allowed", !.new = TRUE])
      /\ UNCHANGED <<registry, edges, log, calm, hurt>>

(* _autolink_allowed_predicates: those that are registered, or any.        *)
AllowedPredicates(c) ==
  LET state == call[c]
      known == {p \in Predicates : linkTypes[p] # Absent}
  IN  /\ state.pc = "allowed"
      /\ Go(c, Onward([state EXCEPT !.allowed = IF known = {} THEN Predicates ELSE known,
                                    !.refs = Refs[state.content]]))

----------------------------------------------------------------------------
(* Mutant: what the wrapped handler answered is not looked at.             *)
BugAlwaysApplied(c) ==
  /\ call[c].pc = "log"
  /\ log' = [log EXCEPT ![c] = "applied"]
  /\ Resume(c, [call[c] EXCEPT !.pc = "done"])
  /\ UNCHANGED <<registry, edges, stored, calm, hurt>>

(* log_action.                                                             *)
LogAction(c) ==
  /\ call[c].pc = "log"
  /\ log' = [log EXCEPT ![c] = IF call[c].ok THEN "applied" ELSE "failed"]
  /\ Resume(c, [call[c] EXCEPT !.pc = "done"])
  /\ UNCHANGED <<registry, edges, stored, calm, hurt>>

(* A transaction fails.  Autolink swallows it where it adds an edge, and   *)
(* an action logs it; otherwise the call fails.                            *)
DatabaseError(c) ==
  LET state == call[c]
  IN  /\ Cardinality(hurt) < Mishaps
      /\ c \in Running
      /\ Resume(c, IF state.pc = "add" /\ state.content # Absent THEN Onward(state)
                   ELSE IF state.action /\ state.pc # "log" THEN Finished(state, FALSE)
                   ELSE [state EXCEPT !.pc = "failed"])
      /\ hurt' = hurt \cup {c}
      /\ UNCHANGED <<registry, edges, stored, log, calm>>

(* The call is cut off between two transactions.                           *)
CutOff(c) ==
  /\ Cardinality(hurt) < Mishaps
  /\ c \in Running
  /\ Resume(c, [call[c] EXCEPT !.pc = "failed"])
  /\ hurt' = hurt \cup {c}
  /\ UNCHANGED <<registry, edges, stored, log, calm>>

CallStep(c) ==
  \/ Seed(c)
  \/ \E p \in Predicates, t \in Types : LinkTypeSet(c, p, t)
  \/ \E k \in Kinds : ObjectKindSet(c, k) \/ \E n \in Names : ProposeEntity(c, n, k)
  \/ \E state \in {Relate(l) : l \in Links} \cup {Remember(m) : m \in Memories} :
       Begin(c, state) \/ ActionApply(c, state)
  \/ ValidatePredicate(c) \/ GetLinkType(c) \/ ResolveSubject(c) \/ ResolveObject(c)
  \/ AddRelation(c)
  \/ FindDuplicate(c) \/ Store(c) \/ AllowedPredicates(c)
  \/ LogAction(c)
  \/ DatabaseError(c) \/ CutOff(c)

OntologyNext == \E c \in Calls : CallStep(c)

OntologySpec == OntologyInit /\ [][OntologyNext]_ontologyVars

----------------------------------------------------------------------------
(* Properties.                                                             *)

(* The registry allows a link: nothing is registered, or its predicate is  *)
(* and the kinds of the two ends are, as far as they are entities.         *)
Conforms(l) ==
  LET type == linkTypes[l[2]]
  IN  \/ \A p \in Predicates : linkTypes[p] = Absent
      \/ type # Absent /\ Allowed(type, entity[l[1]], entity[l[3]])

(* A call that returns, during which neither the registry nor an entity    *)
(* changed and no transaction failed, has written exactly the links asked  *)
(* for that the registry allows: of graph_relate the one, of a memory it   *)
(* stored all that the content speaks of.                                  *)
Mentioned(m) == {Refs[m][k] : k \in DOMAIN Refs[m]}
Asked(state) == IF state.content = Absent THEN {state.link} ELSE Mentioned(state.content)

LinkedIffConforms ==
  \A c \in calm \ hurt :
    call[c].pc \in {"log", "done"} /\ (call[c].content = Absent \/ call[c].new)
      => call[c].made = {l \in Asked(call[c]) : Conforms(l)}

(* The action log tells what happened: what it calls applied is in the     *)
(* graph or in the memory, what it calls failed has written nothing, and   *)
(* what an action has written is in the log, unless the action was cut off *)
(* or met a database error.                                                *)
Wrote(state) == state.made # {} \/ state.new

LogTellsEffects ==
  \A c \in Calls :
    /\ log[c] = "applied" =>
         IF call[c].content = Absent THEN edges[call[c].link] > 0
                                   ELSE call[c].content \in stored
    /\ log[c] = "failed" /\ Wrote(call[c]) => c \in hurt
    /\ call[c].action /\ call[c].pc \in Over /\ Wrote(call[c]) /\ log[c] = Absent
         => c \in hurt
=============================================================================
