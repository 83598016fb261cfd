--------------------------- MODULE VersionedDocs ---------------------------
(***************************************************************************)
(* Documents kept as version rows: playbooks (table procedures), skills,   *)
(* strategic statements and wiki pages.  A save reads MAX(version) + 1 and *)
(* inserts a row in one READ COMMITTED transaction; the UNIQUE key of the  *)
(* table has to settle what two saves do at once.  Forgetting a name soft- *)
(* deletes its active rows.  A playbook names the skills it is composed of, and    *)
(* reading it expanded reads the playbook and then each skill, in          *)
(* transactions of their own (memory/procedural.py, memory/skills.py,      *)
(* memory/strategic.py, memory/wiki.py, playbook/compose.py).              *)
(*                                                                         *)
(* The goals of an organisation are plain rows: plans, objectives of a     *)
(* plan, key results of an objective, initiatives of a plan.  The tree of  *)
(* a plan is read by four statements.                                      *)
(*                                                                         *)
(* The soul of a person is one row, replaced as a whole: by a text, or by  *)
(* what was read of it and one observation more (memory/soul.py).          *)
(***************************************************************************)
EXTENDS Integers, Sequences, FiniteSets

CONSTANTS
  Nil,
  Orgs,        (* organisations, each with its own documents               *)
  Names,       (* names of playbooks and skills, kinds of statements       *)
  Table,       (* [Names -> Tables]                                        *)
  Recipes,     (* sequences of skill references a playbook is saved with   *)
  Requests,    (* tool calls and console posts, each made at most once     *)
  Scenarios,   (* bound: which families of requests meet, a set of sets    *)
  SoulMax,     (* soul_max_chars, in notes of one length                   *)
  DocFaults    (* "abort": a request may be cut off                        *)

Tables == {"procedures", "skills", "statements", "wiki_pages"}
Skills == {n \in Names : Table[n] = "skills"}

(* A skill reference, pinned to a version or not (SkillRef).               *)
Refs == [name : Skills, version : {Nil} \cup (Nat \ {0})]

ASSUME DocsAssumption ==
  /\ Table \in [Names -> Tables]
  /\ Recipes \subseteq Seq(Refs) /\ Recipes # {}
  /\ Scenarios \subseteq SUBSET {"playbooks", "pages", "goals", "soul"}
  /\ SoulMax \in Nat \ {0}
  /\ DocFaults \subseteq {"abort"}
  /\ Nil \notin Orgs \cup Names \cup Requests \cup Nat

VARIABLES
  rows,        (* the committed rows of the three tables                   *)
  goals,       (* the committed goals of one organisation                  *)
  soul,        (* the soul of one person in it                             *)
  scenario,    (* the families of requests of this behaviour               *)
  req          (* what each request holds between two statements           *)

docsVars == <<rows, goals, soul, scenario, req>>

(* status "quarantined" is in the schema, but _store_status stores every   *)
(* accepted text as "active".  The text of a row is the request that       *)
(* saved it.                                                               *)
Rows == [org : Orgs, name : Names, version : Nat \ {0}, text : Requests,
         recipe : Seq(Refs), status : {"active", "soft_deleted"}]

(* The id of a goal is the request that set it; of is the objective it     *)
(* belongs to or, for an initiative, is aligned with.                      *)
Goals == [id : Requests, kind : {"plan", "objective", "key_result", "initiative"},
          plan : Requests \cup {Nil}, of : Requests \cup {Nil}]

(* The body of a soul is the notes it is made of, each the request that    *)
(* first gave it; Nil is the line "...(trimmed)", as long as a note.       *)
Souls == [version : Nat, body : Seq(Requests \cup {Nil})]

(* base is what a request saw at its start, kept for the properties: the   *)
(* rows of the name it saves, the skills of the playbook it expands, the   *)
(* goals when it asked for the plan; shown is what its tree holds so far.  *)
Fresh == [pc |-> "new", op |-> Nil, org |-> Nil, name |-> Nil, n |-> 0,
          recipe |-> <<>>, locked |-> {}, base |-> {}, sections |-> <<>>,
          shown |-> {}, body |-> <<>>, from |-> 0]

NoSoul == [version |-> 0, body |-> <<>>]

DocsInit ==
  /\ rows = {} /\ goals = {} /\ soul = NoSoul
  /\ scenario \in Scenarios
  /\ req = [r \in Requests |-> Fresh]

Begin(r, family) == req[r].pc = "new" /\ family \in scenario

(* A playbook and its skills belong together; each other document is one   *)
(* of its own.                                                             *)
Family(n) == IF Table[n] \in {"procedures", "skills"} THEN "playbooks" ELSE "pages"

Become(r, state) == req' = [req EXCEPT ![r] = state]

----------------------------------------------------------------------------
(* Row-level security: a statement sees the rows of its own organisation.  *)
Of(o, n) == {row \in rows : row.org = o /\ row.name = n}
Active(set) == {row \in set : row.status = "active"}
Versions(set) == {row.version : row \in set}
Newest(set) == IF set = {} THEN 0
               ELSE CHOOSE v \in Versions(set) : \A w \in Versions(set) : w <= v

(* The version a reader of the name is given: get_procedure, get_skill,    *)
(* get_active_statement.                                                   *)
Latest(o, n) == Newest(Active(Of(o, n)))

(* The row a reference is resolved to, at most one: the pinned version if  *)
(* it is active, else the newest active one.                               *)
Found(o, n, version) ==
  {row \in Active(Of(o, n)) :
     row.version = IF version = Nil THEN Latest(o, n) ELSE version}

(* UNIQUE (org_id, name, version) of skills and UNIQUE (org_id, kind,      *)
(* version) of statements; the key of procedures is still the              *)
(* UNIQUE (name, version) of its first migration, without the org_id that  *)
(* a later one added.                                                      *)
SameKey(o, n, v, p, m, w) ==
  n = m /\ v = w /\ (o = p \/ Table[n] = "procedures")

----------------------------------------------------------------------------
(* A save.                                                                 *)

(* What a tool or a page is given: only a playbook has a recipe.           *)
RecipesOf(n) == IF Table[n] = "procedures" THEN Recipes ELSE {<<>>}

Save(o, n, recipe, version) ==
  [Fresh EXCEPT !.pc = "insert", !.op = "save", !.org = o, !.name = n,
                !.n = version, !.recipe = recipe, !.base = Of(o, n)]

(* Mutant: forgotten versions do not count.                                *)
BugActiveMax(r, o, n, recipes) ==
  /\ \E recipe \in recipes : Become(r, Save(o, n, recipe, Latest(o, n) + 1))
  /\ UNCHANGED <<rows, goals, soul, scenario>>

(* SELECT COALESCE(MAX(version), 0) + 1, over the rows of every status.    *)
SaveRead(r, o, n, recipes) ==
  /\ \E recipe \in recipes : Become(r, Save(o, n, recipe, Newest(Of(o, n)) + 1))
  /\ UNCHANGED <<rows, goals, soul, scenario>>

SetByTool(r, o, n) ==
  /\ Begin(r, "playbooks") /\ Family(n) = "playbooks"
  /\ SaveRead(r, o, n, RecipesOf(n))

StatementSet(r, o, n) ==
  Begin(r, "pages") /\ Table[n] = "statements" /\ SaveRead(r, o, n, RecipesOf(n))

(* The curator writes the next version of a page.                          *)
Curate(r, o, n) ==
  Begin(r, "pages") /\ Table[n] = "wiki_pages" /\ SaveRead(r, o, n, RecipesOf(n))

(* playbook_edit and playbook_new: the form holds the names of the skills, *)
(* not their versions.                                                     *)
Unpinned(recipe) == [i \in DOMAIN recipe |-> [recipe[i] EXCEPT !.version = Nil]]

PlaybookForm(r, o, n) ==
  LET found == Found(o, n, Nil)
  IN  /\ Begin(r, Family(n))
      /\ Table[n] = "procedures"
      /\ \E recipe \in IF found = {} THEN Recipes ELSE {row.recipe : row \in found} :
           Become(r, [Fresh EXCEPT !.pc = "form", !.op = "save", !.org = o, !.name = n,
                                   !.recipe = Unpinned(recipe)])
      /\ UNCHANGED <<rows, goals, soul, scenario>>

(* playbook_save: what was shown is saved, whatever was saved since.       *)
PlaybookPost(r) ==
  /\ req[r].pc = "form"
  /\ Table[req[r].name] = "procedures"
  /\ SaveRead(r, req[r].org, req[r].name, {req[r].recipe})

(* wiki_edit and wiki_edit_save: the form shows the page there is, and     *)
(* posting it asks again only whether there is one, for the permission.    *)
WikiForm(r, o, n) ==
  /\ Begin(r, Family(n))
  /\ Table[n] = "wiki_pages"
  /\ Become(r, [Fresh EXCEPT !.pc = "form", !.op = "save", !.org = o, !.name = n])
  /\ UNCHANGED <<rows, goals, soul, scenario>>

WikiPost(r) ==
  /\ req[r].pc = "form"
  /\ Table[req[r].name] = "wiki_pages"
  /\ SaveRead(r, req[r].org, req[r].name, {<<>>})

(* ingest_procedure and its siblings refuse a principal without            *)
(* memory.create, a playbook without skills and steps, and a text with a   *)
(* secret, before any statement of the save; _ingest_strategic does the    *)
(* same for a statement or a goal.                                         *)
SaveRejected(r) ==
  /\ req[r].pc \in {"new", "form"} /\ scenario # {"soul"}
  /\ Become(r, [Fresh EXCEPT !.pc = "rejected"])
  /\ UNCHANGED <<rows, goals, soul, scenario>>

Taken(r) ==
  \E row \in rows :
    SameKey(req[r].org, req[r].name, req[r].n, row.org, row.name, row.version)

(* The row of another open transaction has the key: the INSERT waits.      *)
Blocked(r) ==
  \E q \in Requests \ {r} :
    /\ req[q].pc = "commit"
    /\ SameKey(req[r].org, req[r].name, req[r].n, req[q].org, req[q].name, req[q].n)

(* INSERT: the row is in the table, but nobody sees it yet.                *)
SaveInsert(r) ==
  /\ req[r].pc = "insert"
  /\ ~ Blocked(r)
  /\ ~ Taken(r)
  /\ Become(r, [req[r] EXCEPT !.pc = "commit"])
  /\ UNCHANGED <<rows, goals, soul, scenario>>

(* The UNIQUE key refuses the row: the tool call raises, the console page  *)
(* answers flash=error.                                                    *)
SaveRefused(r) ==
  /\ req[r].pc = "insert"
  /\ ~ Blocked(r)
  /\ Taken(r)
  /\ Become(r, [req[r] EXCEPT !.pc = "refused"])
  /\ UNCHANGED <<rows, goals, soul, scenario>>

RowOf(r) ==
  [org |-> req[r].org, name |-> req[r].name, version |-> req[r].n, text |-> r,
   recipe |-> req[r].recipe, status |-> "active"]

(* COMMIT; the audit record that follows is best effort.                   *)
SaveCommit(r) ==
  /\ req[r].pc = "commit"
  /\ rows' = rows \cup {RowOf(r)}
  /\ Become(r, [req[r] EXCEPT !.pc = "done"])
  /\ UNCHANGED <<goals, soul, scenario>>

----------------------------------------------------------------------------
(* forget_by_name.                                                         *)

Forgotten(set) == {[row EXCEPT !.status = "soft_deleted"] : row \in set}

(* Mutant: only the newest active version is deleted.                      *)
BugForgetNewest(r, o, n) ==
  LET targets == Found(o, n, Nil)
  IN  /\ Begin(r, Family(n))
      /\ Table[n] \in {"procedures", "skills"}
      /\ \A q \in Requests : req[q].locked \cap targets = {}
      /\ Become(r, [Fresh EXCEPT !.pc = "forget", !.op = "forget",
                                 !.org = o, !.name = n, !.locked = targets])
      /\ UNCHANGED <<rows, goals, soul, scenario>>

(* The UPDATE sees and locks the active rows there are; a second UPDATE of *)
(* them waits for the first to commit.  No tool forgets a statement or a   *)
(* wiki page.                                                              *)
ForgetUpdate(r, o, n) ==
  LET targets == Active(Of(o, n))
  IN  /\ Begin(r, Family(n))
      /\ Table[n] \in {"procedures", "skills"}
      /\ \A q \in Requests : req[q].locked \cap targets = {}
      /\ Become(r, [Fresh EXCEPT !.pc = "forget", !.op = "forget",
                                 !.org = o, !.name = n, !.locked = targets])
      /\ UNCHANGED <<rows, goals, soul, scenario>>

ForgetCommit(r) ==
  /\ req[r].pc = "forget"
  /\ rows' = (rows \ req[r].locked) \cup Forgotten(req[r].locked)
  /\ Become(r, [req[r] EXCEPT !.pc = "done", !.locked = {}])
  /\ UNCHANGED <<goals, soul, scenario>>

----------------------------------------------------------------------------
(* procedure_get with expand_skills, and skill_resolve: the playbook and   *)
(* then, one transaction after the other, the skills of its recipe.        *)

ExpandRead(r, o, n) ==
  /\ Begin(r, Family(n))
  /\ Table[n] = "procedures"
  /\ \E version \in {Nil} \cup Versions(Of(o, n)) :
       LET found == Found(o, n, version)
       IN  Become(r, [Fresh EXCEPT
                 !.pc = IF found = {} THEN "done" ELSE "expand",
                 !.op = "expand", !.org = o, !.name = n,
                 !.n = Newest(found),
                 !.recipe = IF found = {} THEN <<>>
                            ELSE (CHOOSE row \in found : TRUE).recipe,
                 !.base = {row \in rows : row.org = o /\ row.name \in Skills}])
  /\ UNCHANGED <<rows, goals, soul, scenario>>

(* Mutant: the pin is not passed on.                                       *)
BugIgnorePin(r) ==
  LET ref == req[r].recipe[Len(req[r].sections) + 1]
  IN  /\ req[r].pc = "expand"
      /\ Len(req[r].sections) < Len(req[r].recipe)
      /\ Become(r, [req[r] EXCEPT !.sections =
           Append(@, Newest(Found(req[r].org, ref.name, Nil)))])
      /\ UNCHANGED <<rows, goals, soul, scenario>>

(* One section: the version found, or 0 for the placeholder "unavailable". *)
ExpandSkill(r) ==
  LET ref == req[r].recipe[Len(req[r].sections) + 1]
  IN  /\ req[r].pc = "expand"
      /\ Len(req[r].sections) < Len(req[r].recipe)
      /\ Become(r, [req[r] EXCEPT !.sections =
           Append(@, Newest(Found(req[r].org, ref.name, ref.version)))])
      /\ UNCHANGED <<rows, goals, soul, scenario>>

ExpandDone(r) ==
  /\ req[r].pc = "expand"
  /\ Len(req[r].sections) = Len(req[r].recipe)
  /\ Become(r, [req[r] EXCEPT !.pc = "done"])
  /\ UNCHANGED <<rows, goals, soul, scenario>>

----------------------------------------------------------------------------
(* Goals.  An INSERT alone in its transaction; the rows it refers to are   *)
(* named by ids the caller was given, and nothing else is asked of them.   *)

Kind(kind) == {g \in goals : g.kind = kind}
Ids(kind) == {g.id : g \in Kind(kind)}

Goal(r, kind, plan, of) == [id |-> r, kind |-> kind, plan |-> plan, of |-> of]
Plan(r) == Goal(r, "plan", Nil, Nil)
Objective(r, p) == Goal(r, "objective", p, Nil)
KeyResult(r, g) == Goal(r, "key_result", Nil, g)
Initiative(r, p, g) == Goal(r, "initiative", p, g)

Add(r, goal) ==
  /\ Begin(r, "goals")
  /\ goals' = goals \cup {goal}
  /\ Become(r, [Fresh EXCEPT !.pc = "done", !.op = "goal"])
  /\ UNCHANGED <<rows, soul, scenario>>

PlanSet(r) == Add(r, Plan(r))

ObjectiveSet(r) == \E p \in Ids("plan") : Add(r, Objective(r, p))

KeyResultSet(r) == \E g \in Ids("objective") : Add(r, KeyResult(r, g))

(* Aligned with any objective there is, of this plan or another.           *)
InitiativeSet(r) ==
  \E p \in Ids("plan"), g \in Ids("objective") \cup {Nil} : Add(r, Initiative(r, p, g))

(* get_plan_tree: the plan in a transaction, then its objectives, their    *)
(* key results and its initiatives by three statements of another, each of *)
(* which sees what has been committed until then.                          *)
TreePlan(r) ==
  /\ Begin(r, "goals")
  /\ \E p \in Ids("plan") :
       Become(r, [Fresh EXCEPT !.pc = "objectives", !.op = "tree", !.name = p,
                               !.base = goals])
  /\ UNCHANGED <<rows, goals, soul, scenario>>

Objectives(r) == {g.id : g \in {h \in req[r].shown : h.kind = "objective"}}

Show(r, from, to, found) ==
  /\ req[r].pc = from
  /\ Become(r, [req[r] EXCEPT !.pc = to, !.shown = @ \cup found])
  /\ UNCHANGED <<rows, goals, soul, scenario>>

TreeObjectives(r) ==
  Show(r, "objectives", "key_results", {g \in Kind("objective") : g.plan = req[r].name})

TreeKeyResults(r) ==
  Show(r, "key_results", "initiatives", {g \in Kind("key_result") : g.of \in Objectives(r)})

(* Mutant: an initiative without an objective is left out.                 *)
BugAlignedOnly(r) ==
  Show(r, "initiatives", "done",
       {g \in Kind("initiative") : g.plan = req[r].name /\ g.of \in Objectives(r)})

(* An initiative goes under its objective, or under the plan when it has   *)
(* none; one whose objective is not among those read is left out.          *)
TreeInitiatives(r) ==
  Show(r, "initiatives", "done",
       {g \in Kind("initiative") : g.plan = req[r].name /\ g.of \in Objectives(r) \cup {Nil}})

----------------------------------------------------------------------------
(* The soul.                                                               *)

(* compress_soul: the marker takes the place of the last note there was    *)
(* room for, with which all that follows it goes.                          *)
Compressed(body) ==
  IF Len(body) <= SoulMax THEN body ELSE Append(SubSeq(body, 1, SoulMax - 1), Nil)

(* One INSERT .. ON CONFLICT DO UPDATE.  n is the version it returns, body *)
(* the text it was given, and name the note the request is about.          *)
Upsert(r, op, note, body) ==
  /\ soul' = [version |-> soul.version + 1, body |-> Compressed(body)]
  /\ Become(r, [req[r] EXCEPT !.pc = "done", !.op = op, !.n = soul.version + 1,
                              !.name = note, !.body = body])
  /\ UNCHANGED <<rows, goals, scenario>>

(* A text of any length, too long ones included.                           *)
SoulSet(r) ==
  /\ Begin(r, "soul")
  /\ \E length \in 1 .. SoulMax + 1 : Upsert(r, "soul", r, [i \in 1 .. length |-> r])

(* absorb, after a preference was remembered: the soul is read in one      *)
(* transaction and written in another.                                     *)
AbsorbRead(r) ==
  /\ Begin(r, "soul")
  /\ Become(r, [Fresh EXCEPT !.pc = "absorb", !.op = "absorb", !.body = soul.body,
                             !.from = soul.version])
  /\ UNCHANGED <<rows, goals, soul, scenario>>

Within(body, note) == \E i \in DOMAIN body : body[i] = note

(* absorb_observation: a note that is not there yet goes under the others. *)
Absorbed(r, note) ==
  IF Within(req[r].body, note) THEN req[r].body ELSE Append(req[r].body, note)

(* The request's own observation, or one that was made before.             *)
Observed(r) == {r} \cup {note \in Requests : Within(req[r].body, note)}

(* Mutant: the notes there were make way for the new one.                  *)
BugForgetNotes(r) ==
  req[r].pc = "absorb" /\ \E note \in Observed(r) : Upsert(r, "absorb", note, <<note>>)

AbsorbWrite(r) ==
  /\ req[r].pc = "absorb"
  /\ \E note \in Observed(r) : Upsert(r, "absorb", note, Absorbed(r, note))

(* The request is cut off, and an open transaction rolled back.            *)
Abort(r) ==
  /\ "abort" \in DocFaults
  /\ req[r].pc \notin {"new", "done", "rejected", "refused", "failed"}
  /\ Become(r, [req[r] EXCEPT !.pc = "failed", !.locked = {}])
  /\ UNCHANGED <<rows, goals, soul, scenario>>

----------------------------------------------------------------------------
Step(r) ==
  \/ \E o \in Orgs, n \in Names :
       \/ SetByTool(r, o, n) \/ StatementSet(r, o, n) \/ Curate(r, o, n)
       \/ PlaybookForm(r, o, n) \/ WikiForm(r, o, n)
       \/ ForgetUpdate(r, o, n) \/ ExpandRead(r, o, n)
  \/ SaveRejected(r) \/ PlaybookPost(r) \/ WikiPost(r)
  \/ SaveInsert(r) \/ SaveRefused(r) \/ SaveCommit(r)
  \/ ForgetCommit(r)
  \/ ExpandSkill(r) \/ ExpandDone(r)
  \/ PlanSet(r) \/ ObjectiveSet(r) \/ KeyResultSet(r) \/ InitiativeSet(r)
  \/ TreePlan(r) \/ TreeObjectives(r) \/ TreeKeyResults(r) \/ TreeInitiatives(r)
  \/ SoulSet(r) \/ AbsorbRead(r) \/ AbsorbWrite(r)
  \/ Abort(r)

DocsNext == \E r \in Requests : Step(r)

DocsSpec == DocsInit /\ [][DocsNext]_docsVars

----------------------------------------------------------------------------
(* Properties.                                                             *)

(* Readers of a name never go back: a version that becomes the one they    *)
(* are given is newer than every version the name ever had, whatever was   *)
(* forgotten, refused or cut off; only a forget takes a version away, and  *)
(* then there is none until a later save commits.                          *)
NeverGoesBack ==
  [][\A o \in Orgs, n \in Names :
       Latest(o, n)' \in {Latest(o, n), 0} \cup {v \in Versions(Of(o, n)') :
                            \A w \in Versions(Of(o, n)) : w < v}]_docsVars

(* The versions of a name are numbered from 1 without a gap and without a  *)
(* duplicate, whatever saves run at once or are cut off; and a save of a   *)
(* skill or a statement is refused only when another save of the same      *)
(* organisation took its number while it was under way ("each call creates *)
(* a new version").                                                        *)
SavesNumbered ==
  /\ \A o \in Orgs, n \in Names :
       /\ Versions(Of(o, n)) = 1 .. Newest(Of(o, n))
       /\ \A row, other \in Of(o, n) : row.version = other.version => row = other
  /\ \A r \in Requests :
       req[r].pc = "refused" /\ Table[req[r].name] # "procedures" =>
         req[r].n \in Versions(Of(req[r].org, req[r].name)) \ Versions(req[r].base)

(* An expanded playbook shows a pinned skill in that version or not at     *)
(* all, and an unpinned one no older than it was when the playbook was     *)
(* read; a section is only unavailable when there was nothing to show then *)
(* or the skill was forgotten since.                                       *)
ComposedAsPinned ==
  \A r \in Requests : \A i \in DOMAIN req[r].sections :
    LET ref == req[r].recipe[i]
        shown == req[r].sections[i]
        then == {row \in Active(req[r].base) : row.name = ref.name
                   /\ ref.version \in {Nil, row.version}}
    IN  IF shown = 0 THEN Forgotten(then) \subseteq rows
        ELSE IF ref.version = Nil THEN shown >= Newest(then)
                                   ELSE shown = ref.version

(* "Fold one observation into the soul": a note that was written is in the *)
(* soul unless a text that was too long, its own or a later one, held it   *)
(* no nearer the front than the marker that took its place, or a later     *)
(* writer had not seen it.  Nothing else loses a note, and what a soul     *)
(* begins with is lost to no absorption but one that raced it.             *)
CutBy(q, note) ==
  Len(req[q].body) > SoulMax /\ \E i \in SoulMax .. Len(req[q].body) : req[q].body[i] = note

NotesKept ==
  LET wrote == {r \in Requests : req[r].pc = "done" /\ req[r].op \in {"soul", "absorb"}}
  IN  \A r \in wrote :
        \/ Within(soul.body, req[r].name)
        \/ \E q \in wrote : req[q].n >= req[r].n /\ CutBy(q, req[r].name)
        \/ \E q \in wrote : req[q].n > req[r].n /\ req[q].from < req[r].n

(* The tree of a plan holds together although it is read piecemeal while   *)
(* goals are set: all of the plan's goals that were there when it was      *)
(* asked for are in it, but initiatives aligned with another plan's        *)
(* objective, and whatever is in it is of the plan and hangs under a goal  *)
(* that is in it too.                                                      *)
TreeHangsTogether ==
  \A r \in Requests : req[r].op = "tree" /\ req[r].pc = "done" =>
    LET plan == req[r].name
        own == {g.id : g \in {h \in goals : h.kind = "objective" /\ h.plan = plan}}
        whole(set) == {g \in set : /\ g.kind # "plan"
                                   /\ g.plan \in {plan, Nil}
                                   /\ g.kind # "objective" => g.of \in own \cup {Nil}}
    IN  /\ whole(req[r].base) \subseteq req[r].shown
        /\ req[r].shown \subseteq whole(goals)
        /\ \A g \in req[r].shown : g.of \in Objectives(r) \cup {Nil}
=============================================================================
