----------------------------- MODULE WorkBoard -----------------------------
(***************************************************************************)
(* Work items, their parents, their projects and the sections of these.    *)
(* A console form is rendered from what the board shows and posted later;  *)
(* saving it is a sequence of transactions (fields, closing, episode,      *)
(* project links) that interleaves with other saves and with the tools of  *)
(* agents.  A new project looks for a free slug and then takes it          *)
(* (memory/work.py, memory/projects.py, the work_* and project_* handlers  *)
(* of memory/facade.py, the work and project pages of server/console.py).  *)
(* Ranks, comments, followers and dependencies are left out: nothing here  *)
(* reads them.                                                             *)
(***************************************************************************)
EXTENDS Integers, Sequences, FiniteSets

CONSTANTS
  Unset,       (* where the code has None                                  *)
  WorkItems,   (* work item ids                                            *)
  Title,       (* [WorkItems -> titles], which two items may share         *)
  Existing,    (* the items there are at the start, open and unrelated     *)
  Projects,
  Requests,    (* console saves and tool calls, each made at most once     *)
  InFlight,    (* how many of them are under way at a time                 *)
  Scenarios,   (* bound: which operations meet, a set of sets of them      *)
  Faults       (* "abort": cut off; "error": a failure that is swallowed   *)

ASSUME WorkAssumption ==
  /\ Existing \subseteq WorkItems /\ IsFiniteSet(Existing) /\ InFlight \in Nat
  /\ DOMAIN Title = WorkItems
  /\ Scenarios \subseteq SUBSET {"save", "create", "update", "add", "remove",
                                  "archive", "move", "section", "project"}
  /\ Faults \subseteq {"abort", "error"}
  /\ Unset \notin WorkItems \cup Projects \cup Requests

VARIABLES
  items,       (* [WorkItems -> rows of work_items]                        *)
  member,      (* [WorkItems -> its links to projects, oldest first]       *)
  archived,    (* the archived projects                                    *)
  sections,    (* project_sections, by the request that added them         *)
  slugs,       (* the slugs of the projects that were created: the slug of *)
               (* the name that all are given, or that with a number       *)
  episodes,    (* what the episodes of closings say, each a title          *)
  scenario,    (* the operations of this behaviour                         *)
  req,         (* what each request holds between two transactions         *)
  raced,       (* history: items given a parent that was not, or no more,  *)
               (* the top-level item a form offered                        *)
  excused      (* history: items created closed, or whose closing was cut  *)
               (* off or its episode lost                                  *)

grouping == <<sections, slugs, episodes, scenario>>
board == <<items, member, archived, grouping>>
history == <<raced, excused>>
boardVars == <<board, req, history>>

(* Of the six work_status values only open or terminal matters; closed_at  *)
(* is set or not.                                                          *)
ItemRow == [status : {"absent", "open", "done"}, closedAt : BOOLEAN,
        parent : {Unset} \cup WorkItems]

Link == [project : Projects, section : Requests \cup {Unset}]

Fresh == [pc |-> "new", op |-> Unset, item |-> Unset, status |-> "open",
          parent |-> Unset, project |-> Unset, fields |-> {}, offered |-> Unset,
          current |-> {}, alone |-> FALSE, n |-> 0, base |-> {}]

BoardInit ==
  /\ items = [i \in WorkItems |->
                [status |-> IF i \in Existing THEN "open" ELSE "absent",
                 closedAt |-> FALSE, parent |-> Unset]]
  /\ member = [i \in WorkItems |-> <<>>]
  /\ archived = {} /\ sections = {} /\ slugs = {} /\ episodes = {}
  /\ scenario \in Scenarios
  /\ req = [r \in Requests |-> Fresh]
  /\ raced = {} /\ excused = {}

----------------------------------------------------------------------------
(* Reading the board.                                                      *)

There == {i \in WorkItems : items[i].status # "absent"}
Open == {i \in WorkItems : items[i].status = "open"}
Links(i) == {member[i][k] : k \in DOMAIN member[i]}
In(i) == {link.project : link \in Links(i)}

OfProject(p) == {i \in Open : p \in In(i)}

(* work_list: the open items (exclude_closed), all of them (include_done), *)
(* or the open ones of one project.                                        *)
Listings == {Open, There} \cup {OfProject(p) : p \in Projects}

(* The projects a form offers, and the one it shows as selected: the       *)
(* oldest link, if that is offered.                                        *)
Offered == Projects \ archived
Selected(i) ==
  IF In(i) # {} /\ member[i][1].project \in Offered THEN member[i][1].project ELSE Unset

(* _nest_subtasks: a row goes under its parent when that is in the same    *)
(* list and not the row itself, and is top-level otherwise.  The page      *)
(* prints the top-level rows and the rows right under them.                *)
Over(list, i) ==
  IF items[i].parent \in list \ {i} THEN items[i].parent ELSE i

Climb(list, i) ==
  LET up[k \in 0 .. Cardinality(list)] ==
        IF k = 0 THEN i ELSE Over(list, up[k - 1])
  IN  up

----------------------------------------------------------------------------
Ended == {"done", "failed", "refused"}
Busy == {r \in Requests : req[r].pc \notin Ended \cup {"new"}}

Start(r, op) ==
  req[r].pc = "new" /\ op \in scenario /\ Cardinality(Busy) < InFlight

Become(r, state) == req' = [req EXCEPT ![r] = state]
Proceed(r, pc) == Become(r, [req[r] EXCEPT !.pc = pc])

(* A link is written: a save that has listed the links of the item and     *)
(* not yet finished is no longer alone with them.                          *)
Disturb(r, state) ==
  req' = [q \in Requests |->
            IF q = r THEN state
            ELSE IF req[q].item = state.item THEN [req[q] EXCEPT !.alone = FALSE]
            ELSE req[q]]

(* Mutant: items with a parent are offered too.                            *)
BugParents(i) == Open \ {i}

(* _work_link_options: the parents a form offers are open, top-level and   *)
(* not the item itself, and its projects are not archived.                 *)
Parents(i) == {p \in Open \ {i} : items[p].parent = Unset}

(* work_edit: the form shows the item; what its options do not offer, it   *)
(* shows as empty.  A user changes one field of it, or none.               *)
Form(i) ==
  [Fresh EXCEPT
     !.pc = "update", !.op = "save", !.item = i,
     !.fields = {"status", "parent"},
     !.status = items[i].status,
     !.parent = IF items[i].parent \in Parents(i) THEN items[i].parent ELSE Unset,
     !.project = Selected(i)]

Filled(i) ==
  {Form(i)}
    \cup {[Form(i) EXCEPT !.status = s] : s \in {"open", "done"}}
    \cup {[Form(i) EXCEPT !.parent = p] : p \in {Unset} \cup Parents(i)}
    \cup {[Form(i) EXCEPT !.project = p] : p \in {Unset} \cup Offered}

LoadForm(r, i) ==
  /\ Start(r, "save")
  /\ i \in There
  /\ \E form \in Filled(i) :
       Become(r, [form EXCEPT !.offered =
                    IF form.parent = Unset THEN Unset ELSE items[form.parent].parent])
  /\ UNCHANGED <<board, history>>

----------------------------------------------------------------------------
(* work_update, and work_close as the update to a terminal status alone.   *)

(* A tool call changes the status or the parent, to any item.              *)
ToolUpdate(r, i) ==
  /\ Start(r, "update")
  /\ i \in There
  /\ \E change \in [field : {"status"}, to : {"open", "done"}]
                   \cup [field : {"parent"}, to : {Unset} \cup There] :
       Become(r, [Fresh EXCEPT
         !.op = "update", !.item = i, !.fields = {change.field},
         !.pc = IF change.to = "done" THEN "close" ELSE "update",
         !.status = IF change.field = "status" THEN change.to ELSE "open",
         !.parent = IF change.field = "parent" THEN change.to ELSE Unset])
  /\ UNCHANGED <<board, history>>

Closing(r) == "status" \in req[r].fields /\ req[r].status = "done"
AfterUpdate(r) == IF req[r].op = "save" THEN "list" ELSE "done"

(* What the form showed of the parent is no longer so, or nothing was shown. *)
Misled(r) ==
  /\ req[r].parent # Unset
  /\ \/ req[r].op # "save"
     \/ items[req[r].parent].parent # req[r].offered

Reparent(r) ==
  IF "parent" \notin req[r].fields THEN UNCHANGED raced
  ELSE raced' = IF Misled(r) THEN raced \cup {req[r].item} ELSE raced \ {req[r].item}

(* Mutant: a terminal status is written like any other field.              *)
BugDirectStatus(r) ==
  /\ req[r].pc = "update"
  /\ items' = [items EXCEPT
       ![req[r].item].status = IF "status" \in req[r].fields THEN req[r].status ELSE @,
       ![req[r].item].parent = IF "parent" \in req[r].fields THEN req[r].parent ELSE @]
  /\ Reparent(r)
  /\ Proceed(r, AfterUpdate(r))
  /\ UNCHANGED <<member, archived, grouping, excused>>

(* One UPDATE of the fields given; a terminal status is left to close, in  *)
(* a transaction of its own.  Reopening leaves closed_at as it is.         *)
Update(r) ==
  /\ req[r].pc = "update"
  /\ items' = [items EXCEPT
       ![req[r].item].status =
          IF "status" \in req[r].fields /\ ~ Closing(r) THEN req[r].status ELSE @,
       ![req[r].item].parent = IF "parent" \in req[r].fields THEN req[r].parent ELSE @]
  /\ Reparent(r)
  /\ Proceed(r, IF Closing(r) THEN "close" ELSE AfterUpdate(r))
  /\ UNCHANGED <<member, archived, grouping, excused>>

(* WorkStore.close, whether the item was open or not.                      *)
Close(r) ==
  /\ req[r].pc = "close"
  /\ items' = [items EXCEPT ![req[r].item].status = "done",
                            ![req[r].item].closedAt = TRUE]
  /\ Proceed(r, "tell")
  /\ UNCHANGED <<member, archived, grouping, raced, excused>>

(* _emit_work_close_episode ingests a text of the title and of what else   *)
(* the row says, none of which changes here: one that is told already, of  *)
(* this item or of another, is a duplicate and not stored again.           *)
Tell(r) ==
  /\ req[r].pc = "tell"
  /\ Proceed(r, IF Title[req[r].item] \in episodes THEN AfterUpdate(r) ELSE "store")
  /\ UNCHANGED <<board, history>>

(* The memory is added in a transaction of its own.                        *)
Store(r) ==
  /\ req[r].pc = "store"
  /\ episodes' = episodes \cup {Title[req[r].item]}
  /\ Proceed(r, AfterUpdate(r))
  /\ UNCHANGED <<items, member, archived, sections, slugs, scenario, raced, excused>>

(* A failure of either is logged and swallowed.                            *)
Untold(r) == req[r].pc \in {"tell", "store"}

TellFails(r) ==
  /\ "error" \in Faults
  /\ Untold(r)
  /\ excused' = excused \cup {req[r].item}
  /\ Proceed(r, AfterUpdate(r))
  /\ UNCHANGED <<board, raced>>

----------------------------------------------------------------------------
(* Project links.                                                          *)

(* add_to_project is an upsert: a link there is gets the section too, and  *)
(* none if none was given.                                                 *)
Sectioned(i, p, s) ==
  [member EXCEPT ![i] =
     [k \in DOMAIN @ |-> IF @[k].project = p THEN [@[k] EXCEPT !.section = s] ELSE @[k]]]

Linked(i, p, s) ==
  member' = IF p \in In(i) THEN Sectioned(i, p, s)
            ELSE [member EXCEPT ![i] = Append(@, [project |-> p, section |-> s])]

(* DELETE of the one row there may be (PRIMARY KEY of work_item_projects). *)
Unlinked(i, p) ==
  \/ p \notin In(i) /\ UNCHANGED member
  \/ \E k \in DOMAIN member[i] :
       /\ member[i][k].project = p
       /\ member' = [member EXCEPT ![i] = SubSeq(@, 1, k - 1) \o SubSeq(@, k + 1, Len(@))]

(* Mutant: the other links are left.                                       *)
BugKeepLinks(r) ==
  /\ req[r].pc = "list"
  /\ Become(r, [req[r] EXCEPT !.pc = "link", !.current = Links(req[r].item),
                              !.alone = TRUE])
  /\ UNCHANGED <<board, history>>

(* _sync_work_project lists the links of the item, removes every other     *)
(* than the selected one, each in a transaction, and adds that one.        *)
SyncList(r) ==
  /\ req[r].pc = "list"
  /\ Become(r, [req[r] EXCEPT !.pc = "unlink", !.current = Links(req[r].item),
                              !.alone = TRUE])
  /\ UNCHANGED <<board, history>>

SyncUnlink(r) ==
  LET others == {link \in req[r].current : link.project # req[r].project}
  IN  /\ req[r].pc = "unlink"
      /\ IF others = {} THEN Proceed(r, "link") /\ UNCHANGED member
         ELSE \E link \in others :
                /\ Unlinked(req[r].item, link.project)
                /\ Disturb(r, [req[r] EXCEPT !.current = @ \ {link}])
      /\ UNCHANGED <<items, archived, grouping, history>>

SyncLink(r) ==
  LET i == req[r].item
      p == req[r].project
  IN  /\ req[r].pc = "link"
      /\ IF p = Unset \/ \E link \in req[r].current : link.project = p
         THEN Proceed(r, "done") /\ UNCHANGED member
         ELSE Linked(i, p, Unset) /\ Disturb(r, [req[r] EXCEPT !.pc = "done"])
      /\ UNCHANGED <<items, archived, grouping, history>>

(* A failure is logged and swallowed; the page says "saved".               *)
SyncFails(r) ==
  /\ "error" \in Faults
  /\ req[r].pc \in {"list", "unlink", "link"}
  /\ Become(r, [req[r] EXCEPT !.pc = "done", !.alone = FALSE])
  /\ UNCHANGED <<board, history>>

(* work_create: an INSERT, which never sets closed_at, and then, in        *)
(* another transaction, the link to the project.                           *)
NewRow(status, parent) == [status |-> status, closedAt |-> FALSE, parent |-> parent]

Create(r, i) ==
  /\ Start(r, "create")
  /\ i \notin There
  /\ \A q \in Requests : req[q].item # i
  /\ \E s \in {"open", "done"}, p \in {Unset} \cup There, in \in {Unset} \cup Projects :
       /\ items' = [items EXCEPT ![i] = NewRow(s, p)]
       /\ excused' = IF s = "done" THEN excused \cup {i} ELSE excused
       /\ Become(r, [Fresh EXCEPT !.op = "create", !.item = i, !.project = in,
                                  !.pc = IF in = Unset THEN "done" ELSE "join"])
  /\ UNCHANGED <<member, archived, grouping, raced>>

Join(r) ==
  /\ req[r].pc = "join"
  /\ Linked(req[r].item, req[r].project, Unset)
  /\ Disturb(r, [req[r] EXCEPT !.pc = "done"])
  /\ UNCHANGED <<items, archived, grouping, history>>

(* The facade passes such a call on: one transaction, and the answer.      *)
Settle(r, i) == Disturb(r, [Fresh EXCEPT !.pc = "done", !.op = "link", !.item = i])

ToolAdd(r, i, p) == \E s \in sections \cup {Unset} : Start(r, "add") /\ Linked(i, p, s)
ToolRemove(r, i, p) == Start(r, "remove") /\ Unlinked(i, p)

(* work_move finds no row to update when there is no link.                 *)
ToolMove(r, i, p) ==
  \E s \in sections \cup {Unset} : Start(r, "move") /\ member' = Sectioned(i, p, s)

ToolLink(r, i, p) ==
  /\ i \in There
  /\ ToolAdd(r, i, p) \/ ToolRemove(r, i, p) \/ ToolMove(r, i, p)
  /\ Settle(r, i)
  /\ UNCHANGED <<items, archived, grouping, history>>

(* project_archive, either way, and project_update of the status.          *)
Archive(r, p) ==
  /\ Start(r, "archive")
  /\ archived' \in {archived \cup {p}, archived \ {p}}
  /\ Become(r, [Fresh EXCEPT !.pc = "done", !.op = "archive"])
  /\ UNCHANGED <<items, member, grouping, history>>

SectionAdd(r) ==
  /\ Start(r, "section")
  /\ sections' = sections \cup {r}
  /\ Become(r, [Fresh EXCEPT !.pc = "done", !.op = "section"])
  /\ UNCHANGED <<items, member, archived, slugs, episodes, scenario, history>>

(* project_create, by the tool or the form.  One transaction: _unique_slug *)
(* asks for one slug after the other until nobody has it (base: what it    *)
(* saw taken at the first), and the INSERT is refused by UNIQUE (org_id,   *)
(* slug) when somebody took it since.                                      *)
ProjectCreate(r) ==
  /\ Start(r, "project")
  /\ Become(r, [Fresh EXCEPT !.pc = "slug", !.op = "project", !.n = 1, !.base = slugs])
  /\ UNCHANGED <<board, history>>

(* Mutant: the first number is taken unseen.                               *)
BugNumberUnseen(r) ==
  /\ req[r].pc = "slug"
  /\ Become(r, [req[r] EXCEPT !.pc = "insert", !.n = IF 1 \in slugs THEN 2 ELSE 1])
  /\ UNCHANGED <<board, history>>

UniqueSlug(r) ==
  /\ req[r].pc = "slug"
  /\ IF req[r].n \in slugs THEN Become(r, [req[r] EXCEPT !.n = @ + 1])
     ELSE Proceed(r, "insert")
  /\ UNCHANGED <<board, history>>

ProjectInsert(r) ==
  /\ req[r].pc = "insert"
  /\ slugs' = slugs \cup {req[r].n}
  /\ Proceed(r, IF req[r].n \in slugs THEN "refused" ELSE "done")
  /\ UNCHANGED <<items, member, archived, sections, episodes, scenario, history>>

(* The request is cut off.                                                 *)
Abort(r) ==
  /\ "abort" \in Faults
  /\ r \in Busy
  /\ excused' = IF Untold(r) THEN excused \cup {req[r].item} ELSE excused
  /\ Become(r, [req[r] EXCEPT !.pc = "failed", !.alone = FALSE])
  /\ UNCHANGED <<board, raced>>

----------------------------------------------------------------------------
Step(r) ==
  \/ \E i \in WorkItems :
       \/ LoadForm(r, i) \/ ToolUpdate(r, i) \/ Create(r, i)
       \/ \E p \in Projects : ToolLink(r, i, p)
  \/ \E p \in Projects : Archive(r, p)
  \/ Update(r) \/ Close(r) \/ Tell(r) \/ Store(r) \/ TellFails(r)
  \/ SyncList(r) \/ SyncUnlink(r) \/ SyncLink(r) \/ SyncFails(r)
  \/ Join(r)
  \/ SectionAdd(r) \/ ProjectCreate(r) \/ UniqueSlug(r) \/ ProjectInsert(r)
  \/ Abort(r)

BoardNext == \E r \in Requests : Step(r)

BoardSpec == BoardInit /\ [][BoardNext]_boardVars

----------------------------------------------------------------------------
(* Properties.                                                             *)

(* Every row of a list hangs, at some depth, under a top-level row of it,  *)
(* unless an item above it was given its parent by a tool call, or by a    *)
(* form whose parent had itself been moved since the form was rendered:    *)
(* two forms rendered before either is posted can put two items under each *)
(* other, and then the page shows nothing of either.                       *)
HangsFromTop ==
  \A list \in Listings : \A i \in list :
    LET above == Climb(list, i)
        top == above[Cardinality(list)]
    IN  Over(list, top) = top \/ \E k \in DOMAIN above : above[k] \in raced

(* At rest a closed item has its closing time, and an episode says what is *)
(* to be said of it, its own or that of an earlier closing or of a         *)
(* namesake, unless it was created closed, or a closing was cut off or its *)
(* episode lost.                                                           *)
ClosedIsTold ==
  Busy = {} =>
    \A i \in There \ excused :
      items[i].status = "done" => items[i].closedAt /\ Title[i] \in episodes

(* "The console models one project per task": a save that nobody           *)
(* interfered with leaves the item in the project selected and no other,   *)
(* and in the section it had there.                                        *)
OneProject ==
  [][\A r \in Requests :
       req[r].pc = "link" /\ req[r].alone /\ req'[r].pc = "done" /\ req'[r].alone
         => /\ In(req[r].item)' = {req[r].project} \ {Unset}
            /\ req[r].current \subseteq Links(req[r].item)']_boardVars

(* The projects of one name have its slug and the numbers after it, none   *)
(* left out, and creating one is refused only when another took the slug   *)
(* while it was looking for a free one (_unique_slug, whose SELECT and     *)
(* INSERT lock nothing).                                                   *)
SlugsApart ==
  /\ slugs = 1 .. Cardinality(slugs)
  /\ \A r \in Requests : req[r].pc = "refused" => req[r].n \in slugs \ req[r].base
=============================================================================
