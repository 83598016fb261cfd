-------------------------- MODULE MemoryItemsProofs --------------------------
(***************************************************************************)
(* Theorems about MemoryItems for every set of processes, items, contents  *)
(* and calls, and any number of versions, sweeps and restarts; about what  *)
(* Retrieval makes of any rows found, whoever asks and whatever fails; and *)
(* then about WorkBoard for every set of work items, projects and          *)
(* requests, and any number of these under way together.                   *)
(***************************************************************************)
EXTENDS Recalls, WorkBoard, SequenceTheorems, FiniteSetTheorems, TLAPS

MemoryRow == [status: {"none", "active", "soft_deleted"}, content: Contents \cup {None},
            version: Nat]
ItemCall == [pc: Places, item: Items \cup {None}, says: Contents \cup {None},
             old: Contents \cup {None}, ver: Nat, rows: [Items -> Nat],
             found: SUBSET Items, gone: SUBSET Items]

ItemTypeOK ==
  /\ row \in [Items -> MemoryRow]
  /\ index \in [Processes -> [Items -> Nat]]
  /\ hydrated \subseteq Processes
  /\ lock \in [Processes -> Calls \cup {None}]
  /\ missed \in [Processes -> SUBSET Items]
  /\ call \in [Calls -> ItemCall]

(* What a call has in hand is an item that was inserted, and a deletion    *)
(* has deleted it.                                                         *)
HandsFull ==
  \A c \in Calls :
    /\ call[c].pc \in {"write", "add", "drop"} =>
         call[c].item \in Items /\ row[call[c].item].status # "none"
    /\ call[c].pc = "drop" => row[call[c].item].status = "soft_deleted"

(* One call of a process loads its index, and holds the lock; what is      *)
(* loaded needs no loading.                                                *)
OneLoads ==
  /\ \A p \in Processes : lock[p] # None =>
       Home(lock[p]) = p /\ call[lock[p]].pc \in Hydrating /\ p \notin hydrated
  /\ \A c \in Calls : call[c].pc \in Hydrating => lock[Home(c)] = c

(* What a load has selected is what IndexFollows says of an index.         *)
Follows(p, f) == \A i \in Items : f[i] # Live(i) => InHand(p, i) \/ i \in missed[p]

LoadFollows == \A c \in Calls : call[c].pc = "install" => Follows(Home(c), call[c].rows)

IndexInv == ItemTypeOK /\ HandsFull /\ OneLoads /\ IndexFollows /\ LoadFollows

----------------------------------------------------------------------------
(* One call moves on, the others stay.                                     *)
Becomes(c, e) ==
  /\ e \in ItemCall
  /\ call' \in [Calls -> ItemCall]
  /\ call'[c] = e
  /\ \A d \in Calls \ {c} : call'[d] = call[d]

LEMMA Turned ==
  ASSUME ItemTypeOK, NEW c \in Calls, NEW e \in ItemCall, call' = [call EXCEPT ![c] = e]
  PROVE  Becomes(c, e)
BY DEF ItemTypeOK, Becomes

LEMMA ReturnedTyped == Returned \in ItemCall
BY DEF Returned, ItemCall, Places, Nothing, Deleted

LEMMA Locals ==
  ASSUME ItemTypeOK, NEW c \in Calls
  PROVE  /\ call[c] \in ItemCall
         /\ call[c].item \in Items \cup {None} /\ call[c].says \in Contents \cup {None}
         /\ call[c].old \in Contents \cup {None} /\ call[c].ver \in Nat
         /\ call[c].rows \in [Items -> Nat] /\ call[c].found \in SUBSET Items
         /\ call[c].gone \in SUBSET Items /\ call[c].pc \in Places
         /\ Home(c) \in Processes /\ Home(c) # None /\ c # None
BY CallsHaveHomes, NoneIsNothing DEF ItemTypeOK, ItemCall

(* What each step makes of its call.                                       *)
LEMMA WriterCalls ==
  ASSUME ItemTypeOK, HandsFull, NEW c \in Calls
  PROVE  /\ \A s \in Contents : Ingest(c, s) =>
              \/ Becomes(c, Returned)
              \/ Becomes(c, [Returned EXCEPT !.pc = "insert", !.says = Redacted(s)])
         /\ \A i \in Items : Insert(c, i) =>
              Becomes(c, [call[c] EXCEPT !.pc = "add", !.item = i, !.ver = 1, !.says = None])
         /\ \A i \in Items, s \in Contents : EditRead(c, i, s) =>
              Becomes(c, [Returned EXCEPT !.pc = "write", !.item = i, !.says = s,
                            !.old = row[i].content, !.ver = row[i].version])
         /\ EditWrite(c) =>
              Becomes(c, [call[c] EXCEPT !.pc = "add", !.ver = row[call[c].item].version + 1,
                            !.says = None, !.old = None])
         /\ (WriteThrough(c) \/ Drop(c)) => Becomes(c, Returned)
         /\ \A i \in Items : SoftDelete(c, i) =>
              \/ Active(i) /\ Becomes(c, [Returned EXCEPT !.pc = "drop", !.item = i])
              \/ ~ Active(i) /\ Becomes(c, Returned)
<1> USE Locals, ReturnedTyped
<1>1. ASSUME NEW s \in Contents, Ingest(c, s)
      PROVE  \/ Becomes(c, Returned)
             \/ Becomes(c, [Returned EXCEPT !.pc = "insert", !.says = Redacted(s)])
  <2>1. [Returned EXCEPT !.pc = "insert", !.says = Redacted(s)] \in ItemCall
    BY RedactionIsStable DEF ItemCall, Places
  <2>2. QED BY <1>1, <2>1, Turned DEF Ingest
<1>2. ASSUME NEW i \in Items, Insert(c, i)
      PROVE  Becomes(c, [call[c] EXCEPT !.pc = "add", !.item = i, !.ver = 1, !.says = None])
  <2>1. [call[c] EXCEPT !.pc = "add", !.item = i, !.ver = 1, !.says = None] \in ItemCall
    BY DEF ItemCall, Places
  <2>2. call' = [call EXCEPT ![c] = [call[c] EXCEPT !.pc = "add", !.item = i, !.ver = 1, !.says = None]]
    BY <1>2 DEF Insert, ItemTypeOK
  <2>3. QED BY <2>1, <2>2, Turned
<1>3. ASSUME NEW i \in Items, NEW s \in Contents, EditRead(c, i, s)
      PROVE  Becomes(c, [Returned EXCEPT !.pc = "write", !.item = i, !.says = s,
                           !.old = row[i].content, !.ver = row[i].version])
  <2>1. row[i].content \in Contents \cup {None} /\ row[i].version \in Nat
    BY DEF ItemTypeOK, MemoryRow
  <2>2. [Returned EXCEPT !.pc = "write", !.item = i, !.says = s,
                         !.old = row[i].content, !.ver = row[i].version] \in ItemCall
    BY <2>1 DEF ItemCall, Places
  <2>3. QED BY <1>3, <2>2, Turned DEF EditRead
<1>4. ASSUME EditWrite(c)
      PROVE  Becomes(c, [call[c] EXCEPT !.pc = "add", !.ver = row[call[c].item].version + 1,
                           !.says = None, !.old = None])
  <2>1. row[call[c].item].version + 1 \in Nat
    BY <1>4 DEF HandsFull, EditWrite, At, ItemTypeOK, MemoryRow
  <2>2. [call[c] EXCEPT !.pc = "add", !.ver = row[call[c].item].version + 1,
                        !.says = None, !.old = None] \in ItemCall
    BY <2>1 DEF ItemCall, Places
  <2>3. call' = [call EXCEPT ![c] = [call[c] EXCEPT !.pc = "add", !.ver = row[call[c].item].version + 1,
                        !.says = None, !.old = None]]
    BY <1>4 DEF EditWrite, ItemTypeOK
  <2>4. QED BY <2>2, <2>3, Turned
<1>5. (WriteThrough(c) \/ Drop(c)) => Becomes(c, Returned)
  BY Turned DEF WriteThrough, Drop
<1>6. ASSUME NEW i \in Items, SoftDelete(c, i)
      PROVE  \/ Active(i) /\ Becomes(c, [Returned EXCEPT !.pc = "drop", !.item = i])
             \/ ~ Active(i) /\ Becomes(c, Returned)
  <2>1. [Returned EXCEPT !.pc = "drop", !.item = i] \in ItemCall
    BY DEF ItemCall, Places
  <2>2. QED BY <1>6, <2>1, Turned DEF SoftDelete
<1>7. QED BY <1>1, <1>2, <1>3, <1>4, <1>5, <1>6

LEMMA SearchCalls ==
  ASSUME ItemTypeOK, NEW c \in Calls
  PROVE  /\ Search(c) => Becomes(c, [Returned EXCEPT !.pc = "recall"])
         /\ Candidates(c) => Becomes(c, [call[c] EXCEPT !.pc = "filter", !.rows = index[Home(c)]])
         /\ Lock(c) => Becomes(c, [call[c] EXCEPT !.pc = "select"])
         /\ HydrateSelect(c) =>
              Becomes(c, [call[c] EXCEPT !.pc = "install", !.rows = [i \in Items |-> Live(i)]])
         /\ HydrateInstall(c) => Becomes(c, [call[c] EXCEPT !.pc = "filter"])
         /\ HydrateFails(c) => Becomes(c, [call[c] EXCEPT !.pc = "sql", !.rows = Nothing])
         /\ SearchSql(c) => Becomes(c, [call[c] EXCEPT !.pc = "keyword",
                              !.found = {i \in Items : Active(i)}, !.rows = Nothing])
         /\ Filter(c) => Becomes(c, [call[c] EXCEPT !.pc = "keyword",
                              !.found = {i \in Items : call[c].rows[i] > 0 /\ Active(i)}, !.rows = Nothing])
         /\ Keyword(c) => Becomes(c, [call[c] EXCEPT !.pc = "done",
                              !.found = call[c].found \cup {i \in Items : Active(i)}])
         /\ SearchFails(c) => Becomes(c, [call[c] EXCEPT !.pc = "done", !.found = {}, !.rows = Nothing])
<1> USE Locals, ReturnedTyped
<1>0. /\ Nothing \in [Items -> Nat] /\ [i \in Items |-> Live(i)] \in [Items -> Nat]
      /\ index[Home(c)] \in [Items -> Nat]
  BY DEF Nothing, Live, ItemTypeOK, MemoryRow
<1>1. Search(c) => Becomes(c, [Returned EXCEPT !.pc = "recall"])
  <2>1. [Returned EXCEPT !.pc = "recall"] \in ItemCall
    BY DEF ItemCall, Places
  <2>2. QED BY <2>1, Turned DEF Search
<1>2. ASSUME Candidates(c)
      PROVE  Becomes(c, [call[c] EXCEPT !.pc = "filter", !.rows = index[Home(c)]])
  <2>1. [call[c] EXCEPT !.pc = "filter", !.rows = index[Home(c)]] \in ItemCall
    BY <1>0 DEF ItemCall, Places
  <2>2. call' = [call EXCEPT ![c] = [call[c] EXCEPT !.pc = "filter", !.rows = index[Home(c)]]]
    BY <1>2 DEF Candidates, ItemTypeOK
  <2>3. QED BY <2>1, <2>2, Turned
<1>3. ASSUME NEW place \in Places, Goto(c, place)
      PROVE  Becomes(c, [call[c] EXCEPT !.pc = place])
  <2>1. [call[c] EXCEPT !.pc = place] \in ItemCall
    BY DEF ItemCall
  <2>2. QED BY <1>3, <2>1, Turned DEF Goto, ItemTypeOK
<1>4. ASSUME HydrateSelect(c)
      PROVE  Becomes(c, [call[c] EXCEPT !.pc = "install", !.rows = [i \in Items |-> Live(i)]])
  <2>1. [call[c] EXCEPT !.pc = "install", !.rows = [i \in Items |-> Live(i)]] \in ItemCall
    BY <1>0 DEF ItemCall, Places, Hydrating
  <2>2. call' = [call EXCEPT ![c] = [call[c] EXCEPT !.pc = "install", !.rows = [i \in Items |-> Live(i)]]]
    BY <1>4 DEF HydrateSelect, ItemTypeOK
  <2>3. QED BY <2>1, <2>2, Turned
<1>5. ASSUME HydrateFails(c)
      PROVE  Becomes(c, [call[c] EXCEPT !.pc = "sql", !.rows = Nothing])
  <2>1. [call[c] EXCEPT !.pc = "sql", !.rows = Nothing] \in ItemCall
    BY <1>0 DEF ItemCall, Places
  <2>2. call' = [call EXCEPT ![c] = [call[c] EXCEPT !.pc = "sql", !.rows = Nothing]]
    BY <1>5 DEF HydrateFails, ItemTypeOK
  <2>3. QED BY <2>1, <2>2, Turned
<1>6. ASSUME NEW place \in Places, NEW F \in SUBSET Items,
             call' = [call EXCEPT ![c].pc = place, ![c].found = F, ![c].rows = Nothing]
      PROVE  Becomes(c, [call[c] EXCEPT !.pc = place, !.found = F, !.rows = Nothing])
  <2>1. [call[c] EXCEPT !.pc = place, !.found = F, !.rows = Nothing] \in ItemCall
    BY <1>0 DEF ItemCall
  <2>2. call' = [call EXCEPT ![c] = [call[c] EXCEPT !.pc = place, !.found = F, !.rows = Nothing]]
    BY <1>6 DEF ItemTypeOK
  <2>3. QED BY <2>1, <2>2, Turned
<1>7. ASSUME Keyword(c)
      PROVE  Becomes(c, [call[c] EXCEPT !.pc = "done",
                           !.found = call[c].found \cup {i \in Items : Active(i)}])
  <2>1. [call[c] EXCEPT !.pc = "done", !.found = call[c].found \cup {i \in Items : Active(i)}] \in ItemCall
    BY DEF ItemCall, Places
  <2>2. call' = [call EXCEPT ![c] = [call[c] EXCEPT !.pc = "done",
                   !.found = call[c].found \cup {i \in Items : Active(i)}]]
    BY <1>7 DEF Keyword, ItemTypeOK
  <2>3. QED BY <2>1, <2>2, Turned
<1>8. Lock(c) => Becomes(c, [call[c] EXCEPT !.pc = "select"])
  BY <1>3 DEF Lock, Places, Hydrating
<1>9. HydrateInstall(c) => Becomes(c, [call[c] EXCEPT !.pc = "filter"])
  BY <1>3 DEF HydrateInstall, Places
<1>10. SearchSql(c) => Becomes(c, [call[c] EXCEPT !.pc = "keyword",
                              !.found = {i \in Items : Active(i)}, !.rows = Nothing])
  BY <1>6 DEF SearchSql, Places
<1>11. Filter(c) => Becomes(c, [call[c] EXCEPT !.pc = "keyword",
                              !.found = {i \in Items : call[c].rows[i] > 0 /\ Active(i)}, !.rows = Nothing])
  BY <1>6 DEF Filter, Places
<1>12. SearchFails(c) => Becomes(c, [call[c] EXCEPT !.pc = "done", !.found = {}, !.rows = Nothing])
  BY <1>6 DEF SearchFails, Places
<1>13. QED BY <1>1, <1>2, <1>4, <1>5, <1>7, <1>8, <1>9, <1>10, <1>11, <1>12

----------------------------------------------------------------------------
(* The steps of a call, by what they do to rows and indexes.               *)
Plain(c) ==
  \/ \E s \in Contents : Ingest(c, s) \/ \E i \in Items : EditRead(c, i, s)
  \/ \E i \in Items : SoftDelete(c, i) /\ ~ Active(i)
  \/ Search(c) \/ Candidates(c) \/ Lock(c) \/ HydrateFails(c)
  \/ SearchSql(c) \/ Filter(c) \/ Keyword(c) \/ SearchFails(c)

Writes(c, i) ==
  \/ Insert(c, i) \/ (EditWrite(c) /\ call[c].item = i) \/ (SoftDelete(c, i) /\ Active(i))

LEMMA Kinds ==
  ASSUME Next, HandsFull
  PROVE  \/ \E c \in Calls : Plain(c) \/ (\E i \in Items : Writes(c, i)) \/ WriteThrough(c)
                             \/ Drop(c) \/ HydrateSelect(c) \/ HydrateInstall(c)
         \/ \E swept \in SUBSET Items : Sweep(swept)
         \/ \E p \in Processes : Restart(p)
<1>1. ASSUME NEW c \in Calls, Arrive(c)
      PROVE  Plain(c) \/ \E i \in Items : Writes(c, i)
  BY <1>1 DEF Arrive, Remember, Correct, Forget, Plain, Writes
<1>2. ASSUME NEW c \in Calls, WriterStep(c)
      PROVE  (\E i \in Items : Writes(c, i)) \/ WriteThrough(c) \/ Drop(c)
  <2>1. EditWrite(c) => \E i \in Items : call[c].item = i
    BY DEF EditWrite, At, HandsFull
  <2>2. QED BY <1>2, <2>1 DEF WriterStep, Writes
<1>3. ASSUME NEW c \in Calls, SearchStep(c)
      PROVE  Plain(c) \/ HydrateSelect(c) \/ HydrateInstall(c)
  BY <1>3 DEF SearchStep, Plain
<1>4. QED BY <1>1, <1>2, <1>3 DEF Next

(* A plain step leaves rows and indexes alone; no write is in hand before  *)
(* it but what it was about to do, and none that is done after it.         *)
Alone(c) == \A d \in Calls \ {c} : call'[d] = call[d]
Writing == {"add", "drop"}

Quiet == {"add", "drop", "install"}

LEMMA Moved ==
  ASSUME NEW c \in Calls, NEW e, Becomes(c, e)
  PROVE  call'[c] = e /\ e \in ItemCall /\ Alone(c) /\ call' \in [Calls -> ItemCall]
BY DEF Becomes, Alone

LEMMA PlainSteps ==
  ASSUME ItemTypeOK, HandsFull, NEW c \in Calls, Plain(c)
  PROVE  /\ UNCHANGED <<row, prior, was, skipped, index, hydrated, missed>>
         /\ call' \in [Calls -> ItemCall] /\ Alone(c)
         /\ call[c].pc \notin {"insert", "write", "add", "drop"}
         /\ call'[c].pc \notin Quiet
         /\ call'[c].pc = "write" =>
              call'[c].item \in Items /\ row[call'[c].item].status # "none"
         /\ \/ lock' = lock /\ call[c].pc \notin Hydrating /\ call'[c].pc \notin Hydrating
            \/ Lock(c) /\ call'[c].pc = "select"
            \/ HydrateFails(c) /\ call'[c].pc = "sql"
<1> USE DEF table, caches
<1>1. CASE \E s \in Contents : Ingest(c, s)
  <2>1. PICK s \in Contents : Ingest(c, s)
    BY <1>1
  <2>2. CASE Becomes(c, Returned)
    <3>1. call'[c].pc = "done" /\ Alone(c) /\ call' \in [Calls -> ItemCall]
      BY <2>2, Moved DEF Returned
    <3>2. QED BY <2>1, <3>1 DEF Ingest, Accept, At, Quiet, Hydrating
  <2>3. CASE Becomes(c, [Returned EXCEPT !.pc = "insert", !.says = Redacted(s)])
    <3>1. [Returned EXCEPT !.pc = "insert", !.says = Redacted(s)].pc = "insert"
      BY DEF Returned
    <3>2. call'[c].pc = "insert" /\ Alone(c) /\ call' \in [Calls -> ItemCall]
      BY <2>3, <3>1 DEF Becomes, Alone
    <3>3. QED BY <2>1, <3>2 DEF Ingest, Accept, At, Quiet, Hydrating
  <2>4. QED BY <2>1, <2>2, <2>3, WriterCalls
<1>2. CASE \E s \in Contents, i \in Items : EditRead(c, i, s)
  <2>1. PICK s \in Contents, i \in Items : EditRead(c, i, s)
    BY <1>2
  <2>2. Becomes(c, [Returned EXCEPT !.pc = "write", !.item = i, !.says = s,
                      !.old = row[i].content, !.ver = row[i].version])
    BY <2>1, WriterCalls
  <2> DEFINE e == [Returned EXCEPT !.pc = "write", !.item = i, !.says = s,
                      !.old = row[i].content, !.ver = row[i].version]
  <2>a. e.pc = "write" /\ e.item = i
    BY DEF Returned
  <2> HIDE DEF e
  <2>3. call'[c].pc = "write" /\ call'[c].item = i /\ Alone(c) /\ call' \in [Calls -> ItemCall]
    <3>1. Becomes(c, e)
      BY <2>2 DEF e
    <3>2. QED BY <2>a, <3>1 DEF Becomes, Alone
  <2>4. QED BY <2>1, <2>3 DEF EditRead, Accept, At, Quiet, Hydrating
<1>3. CASE \E i \in Items : SoftDelete(c, i) /\ ~ Active(i)
  <2>1. PICK i \in Items : SoftDelete(c, i) /\ ~ Active(i)
    BY <1>3
  <2>2. Becomes(c, Returned)
    BY <2>1, WriterCalls
  <2>3. call'[c].pc = "done" /\ Alone(c) /\ call' \in [Calls -> ItemCall]
    BY <2>2, Moved DEF Returned
  <2>4. QED BY <2>1, <2>3 DEF SoftDelete, Accept, At, Quiet, Hydrating
<1>4. CASE Search(c)
  <2>1. Becomes(c, [Returned EXCEPT !.pc = "recall"])
    BY <1>4, SearchCalls
  <2>2. call'[c].pc = "recall" /\ Alone(c) /\ call' \in [Calls -> ItemCall]
    BY <2>1, Moved DEF Returned
  <2>3. QED BY <1>4, <2>2 DEF Search, Accept, At, Quiet, Hydrating
<1>5. ASSUME NEW e \in ItemCall, Becomes(c, e), e.pc \in {"filter", "select", "sql", "keyword", "done"}
      PROVE  /\ call'[c].pc = e.pc /\ call'[c].pc \notin Quiet \cup {"write"}
             /\ Alone(c) /\ call' \in [Calls -> ItemCall]
  BY <1>5, Moved DEF Quiet
<1> HIDE DEF table, caches
<1>6. CASE Candidates(c) \/ Lock(c) \/ HydrateFails(c)
  <2>1. /\ [call[c] EXCEPT !.pc = "filter", !.rows = index[Home(c)]].pc = "filter"
        /\ [call[c] EXCEPT !.pc = "select"].pc = "select"
        /\ [call[c] EXCEPT !.pc = "sql", !.rows = Nothing].pc = "sql"
    BY Locals DEF ItemCall
  <2>2. CASE Candidates(c)
    <3>1. Becomes(c, [call[c] EXCEPT !.pc = "filter", !.rows = index[Home(c)]])
      BY <2>2, SearchCalls
    <3>2. \E e \in ItemCall : Becomes(c, e) /\ e.pc = "filter"
      BY <2>1, <3>1, Moved
    <3>3. QED BY <2>2, <3>2, <1>5 DEF Candidates, At, Hydrating, table, caches
  <2>3. CASE Lock(c)
    <3>1. Becomes(c, [call[c] EXCEPT !.pc = "select"])
      BY <2>3, SearchCalls
    <3>2. \E e \in ItemCall : Becomes(c, e) /\ e.pc = "select"
      BY <2>1, <3>1, Moved
    <3>3. QED BY <2>3, <3>2, <1>5 DEF Lock, At, table
  <2>4. CASE HydrateFails(c)
    <3>1. Becomes(c, [call[c] EXCEPT !.pc = "sql", !.rows = Nothing])
      BY <2>4, SearchCalls
    <3>2. \E e \in ItemCall : Becomes(c, e) /\ e.pc = "sql"
      BY <2>1, <3>1, Moved
    <3>3. QED BY <2>4, <3>2, <1>5 DEF HydrateFails, Hydrating, table
  <2>5. QED BY <1>6, <2>2, <2>3, <2>4
<1>7. CASE SearchSql(c) \/ Filter(c) \/ Keyword(c) \/ SearchFails(c)
  <2> DEFINE A == {i \in Items : Active(i)}
             F == {i \in Items : call[c].rows[i] > 0 /\ Active(i)}
  <2>1. \E e \in ItemCall : Becomes(c, e) /\ e.pc \in {"keyword", "done"}
    <3>1. \/ Becomes(c, [call[c] EXCEPT !.pc = "keyword", !.found = A, !.rows = Nothing])
          \/ Becomes(c, [call[c] EXCEPT !.pc = "keyword", !.found = F, !.rows = Nothing])
          \/ Becomes(c, [call[c] EXCEPT !.pc = "done", !.found = call[c].found \cup A])
          \/ Becomes(c, [call[c] EXCEPT !.pc = "done", !.found = {}, !.rows = Nothing])
      BY <1>7, SearchCalls
    <3> HIDE DEF A, F
    <3>2. /\ [call[c] EXCEPT !.pc = "keyword", !.found = A, !.rows = Nothing].pc = "keyword"
          /\ [call[c] EXCEPT !.pc = "keyword", !.found = F, !.rows = Nothing].pc = "keyword"
          /\ [call[c] EXCEPT !.pc = "done", !.found = call[c].found \cup A].pc = "done"
          /\ [call[c] EXCEPT !.pc = "done", !.found = {}, !.rows = Nothing].pc = "done"
      BY Locals DEF ItemCall
    <3>3. QED BY <3>1, <3>2, Moved
  <2>2. /\ call'[c].pc \in {"keyword", "done"} /\ call'[c].pc \notin Quiet \cup {"write"}
        /\ Alone(c) /\ call' \in [Calls -> ItemCall]
    BY <2>1, <1>5
  <2> HIDE DEF A, F
  <2>3. QED BY <1>7, <2>2 DEF SearchSql, Filter, Keyword, SearchFails, At, Hydrating, table, caches
<1>8. QED BY <1>1, <1>2, <1>3, <1>4, <1>6, <1>7 DEF Plain

(* Only the read of an edit leaves a call about to write.                  *)
LEMMA PlainWrites ==
  ASSUME ItemTypeOK, HandsFull, NEW c \in Calls, Plain(c),
         ~ \E s \in Contents, i \in Items : EditRead(c, i, s)
  PROVE  call'[c].pc # "write"
<1>1. ASSUME NEW s \in Contents, Ingest(c, s)
      PROVE  call'[c].pc # "write"
  <2>1. \/ call' = [call EXCEPT ![c] = Returned]
        \/ call' = [call EXCEPT ![c] = [Returned EXCEPT !.pc = "insert", !.says = Redacted(s)]]
    BY <1>1 DEF Ingest
  <2>2. [Returned EXCEPT !.pc = "insert", !.says = Redacted(s)].pc = "insert" /\ Returned.pc = "done"
    BY DEF Returned
  <2>3. QED BY <2>1, <2>2 DEF ItemTypeOK
<1>2. ASSUME NEW i \in Items, SoftDelete(c, i)
      PROVE  call'[c].pc # "write"
  <2>1. \/ call' = [call EXCEPT ![c] = Returned]
        \/ call' = [call EXCEPT ![c] = [Returned EXCEPT !.pc = "drop", !.item = i]]
    BY <1>2 DEF SoftDelete
  <2>2. [Returned EXCEPT !.pc = "drop", !.item = i].pc = "drop" /\ Returned.pc = "done"
    BY DEF Returned
  <2>3. QED BY <2>1, <2>2 DEF ItemTypeOK
<1>3. Search(c) => call'[c].pc # "write"
  BY DEF Search, Returned, ItemTypeOK
<1>4. Candidates(c) => call'[c].pc = "filter"
  BY Locals DEF Candidates, ItemTypeOK, ItemCall
<1>5. Lock(c) => call'[c].pc = "select"
  BY Locals DEF Lock, Goto, ItemTypeOK, ItemCall
<1>6. HydrateFails(c) => call'[c].pc = "sql"
  BY Locals DEF HydrateFails, ItemTypeOK, ItemCall
<1>7. SearchSql(c) => call'[c].pc = "keyword"
  <2> DEFINE F == {i \in Items : Active(i)}
  <2>1. SearchSql(c) => call' = [call EXCEPT ![c] = [call[c] EXCEPT !.pc = "keyword", !.found = F, !.rows = Nothing]]
    BY DEF SearchSql, ItemTypeOK
  <2> HIDE DEF F
  <2>2. [call[c] EXCEPT !.pc = "keyword", !.found = F, !.rows = Nothing].pc = "keyword"
    BY Locals DEF ItemCall
  <2>3. QED BY <2>1, <2>2 DEF ItemTypeOK
<1>8. Filter(c) => call'[c].pc = "keyword"
  <2> DEFINE F == {i \in Items : call[c].rows[i] > 0 /\ Active(i)}
  <2>1. Filter(c) => call' = [call EXCEPT ![c] = [call[c] EXCEPT !.pc = "keyword", !.found = F, !.rows = Nothing]]
    BY DEF Filter, ItemTypeOK
  <2> HIDE DEF F
  <2>2. [call[c] EXCEPT !.pc = "keyword", !.found = F, !.rows = Nothing].pc = "keyword"
    BY Locals DEF ItemCall
  <2>3. QED BY <2>1, <2>2 DEF ItemTypeOK
<1>9. Keyword(c) => call'[c].pc = "done"
  BY Locals DEF Keyword, ItemTypeOK, ItemCall
<1>10. SearchFails(c) => call'[c].pc = "done"
  BY Locals DEF SearchFails, ItemTypeOK, ItemCall
<1>11. QED BY <1>1, <1>2, <1>3, <1>4, <1>5, <1>6, <1>7, <1>8, <1>9, <1>10 DEF Plain

(* A write changes one row, and the call that made it is about to write it *)
(* through.                                                                *)
LEMMA WriteSteps ==
  ASSUME ItemTypeOK, HandsFull, NEW c \in Calls, NEW i \in Items, Writes(c, i)
  PROVE  /\ row' \in [Items -> MemoryRow] /\ \A j \in Items \ {i} : row'[j] = row[j]
         /\ row'[i].status # "none"
         /\ row[i].status = "soft_deleted" => row'[i].status = "soft_deleted"
         /\ call' \in [Calls -> ItemCall] /\ Alone(c)
         /\ call[c].pc \notin {"add", "drop", "select", "install"}
         /\ call'[c].pc \in Writing /\ call'[c].item = i
         /\ call'[c].pc = "drop" => row'[i].status = "soft_deleted"
         /\ Unheard({i}, Home(c)) /\ UNCHANGED <<index, hydrated, lock>>
<1> USE Locals DEF Writing
<1>1. CASE Insert(c, i)
  <2>1. row' = [row EXCEPT ![i] = [status |-> "active", content |-> call[c].says, version |-> 1]]
        /\ row[i].status = "none"
    BY <1>1 DEF Insert
  <2>0. [status |-> "active", content |-> call[c].says, version |-> 1] \in MemoryRow
    BY DEF MemoryRow
  <2>2. row' \in [Items -> MemoryRow] /\ row'[i].status = "active" /\ \A j \in Items \ {i} : row'[j] = row[j]
    BY <2>0, <2>1 DEF ItemTypeOK
  <2>3. Becomes(c, [call[c] EXCEPT !.pc = "add", !.item = i, !.ver = 1, !.says = None])
    BY <1>1, WriterCalls
  <2> DEFINE e == [call[c] EXCEPT !.pc = "add", !.item = i, !.ver = 1, !.says = None]
  <2>a. e.pc = "add" /\ e.item = i
    BY DEF ItemCall
  <2>b. Becomes(c, e)
    BY <2>3
  <2> HIDE DEF e
  <2>4. call'[c].pc = "add" /\ call'[c].item = i /\ Alone(c) /\ call' \in [Calls -> ItemCall]
    BY <2>a, <2>b DEF Becomes, Alone
  <2>5. QED BY <1>1, <2>1, <2>2, <2>4 DEF Insert, At
<1>2. CASE EditWrite(c) /\ call[c].item = i
  <2>1. /\ row' = [row EXCEPT ![i].content = call[c].says, ![i].version = row[i].version + 1]
        /\ row[i].status # "none"
    BY <1>2 DEF EditWrite, HandsFull, At
  <2>2. row' = [row EXCEPT ![i] = [row[i] EXCEPT !.content = call[c].says, !.version = row[i].version + 1]]
    BY <2>1 DEF ItemTypeOK
  <2> DEFINE r == [row[i] EXCEPT !.content = call[c].says, !.version = row[i].version + 1]
  <2>3. r \in MemoryRow /\ r.status = row[i].status
    <3>1. row[i] \in MemoryRow /\ row[i].version + 1 \in Nat /\ call[c].says \in Contents \cup {None}
      BY DEF ItemTypeOK, MemoryRow
    <3>2. QED BY <3>1 DEF MemoryRow
  <2>4. row' \in [Items -> MemoryRow] /\ row'[i] = r /\ \A j \in Items \ {i} : row'[j] = row[j]
    <3> HIDE DEF r
    <3> QED BY <2>2, <2>3 DEF ItemTypeOK, r
  <2>5. Becomes(c, [call[c] EXCEPT !.pc = "add", !.ver = row[call[c].item].version + 1,
                      !.says = None, !.old = None])
    BY <1>2, WriterCalls
  <2> DEFINE e == [call[c] EXCEPT !.pc = "add", !.ver = row[call[c].item].version + 1,
                      !.says = None, !.old = None]
  <2>a. e.pc = "add" /\ e.item = i
    BY <1>2 DEF ItemCall
  <2>b. Becomes(c, e)
    BY <2>5
  <2> HIDE DEF e
  <2>6. call'[c].pc = "add" /\ call'[c].item = i /\ Alone(c) /\ call' \in [Calls -> ItemCall]
    BY <2>a, <2>b DEF Becomes, Alone
  <2>7. row'[i].status = row[i].status
    BY <2>3, <2>4
  <2> HIDE DEF r
  <2>8. QED BY <1>2, <2>1, <2>4, <2>6, <2>7 DEF EditWrite, At
<1>3. CASE SoftDelete(c, i) /\ Active(i)
  <2>1. row' = [row EXCEPT ![i] = [row[i] EXCEPT !.status = "soft_deleted"]]
    BY <1>3 DEF SoftDelete, ItemTypeOK
  <2>2. /\ [row[i] EXCEPT !.status = "soft_deleted"] \in MemoryRow
        /\ [row[i] EXCEPT !.status = "soft_deleted"].status = "soft_deleted"
    <3>1. PICK m \in MemoryRow : m = row[i]
      BY DEF ItemTypeOK
    <3>2. /\ [m EXCEPT !.status = "soft_deleted"] \in MemoryRow
          /\ [m EXCEPT !.status = "soft_deleted"].status = "soft_deleted"
      BY DEF MemoryRow
    <3>3. QED BY <3>1, <3>2
  <2>3. row' \in [Items -> MemoryRow] /\ row'[i].status = "soft_deleted" /\ \A j \in Items \ {i} : row'[j] = row[j]
    BY <2>1, <2>2 DEF ItemTypeOK
  <2>4. Becomes(c, [Returned EXCEPT !.pc = "drop", !.item = i])
    BY <1>3, WriterCalls
  <2> DEFINE e == [Returned EXCEPT !.pc = "drop", !.item = i]
  <2>a. e.pc = "drop" /\ e.item = i
    BY DEF Returned
  <2>b. Becomes(c, e)
    BY <2>4
  <2> HIDE DEF e
  <2>5. call'[c].pc = "drop" /\ call'[c].item = i /\ Alone(c) /\ call' \in [Calls -> ItemCall]
    BY <2>a, <2>b DEF Becomes, Alone
  <2>6. QED BY <1>3, <2>3, <2>5 DEF SoftDelete, Accept, At
<1>4. QED BY <1>1, <1>2, <1>3 DEF Writes

(* Writing an index through, and loading one, leaves the rows alone.       *)
LEMMA IndexSteps ==
  ASSUME ItemTypeOK, HandsFull, NEW c \in Calls,
         WriteThrough(c) \/ Drop(c) \/ HydrateSelect(c) \/ HydrateInstall(c)
  PROVE  /\ UNCHANGED <<row, prior, was, skipped>>
         /\ index' \in [Processes -> [Items -> Nat]] /\ hydrated' \subseteq Processes
         /\ lock' \in [Processes -> Calls \cup {None}]
         /\ missed' \in [Processes -> SUBSET Items]
         /\ call' \in [Calls -> ItemCall] /\ Alone(c)
         /\ call'[c].pc \notin {"insert", "write", "add", "drop"}
<1> USE Locals DEF table
<1>0. (WriteThrough(c) \/ Drop(c)) => Becomes(c, Returned)
  BY Turned, ReturnedTyped DEF WriteThrough, Drop
<1>1. CASE WriteThrough(c)
  <2> DEFINE i == call[c].item  p == Home(c)
  <2>1. index' \in [Processes -> [Items -> Nat]]
    <3>1. index' = index \/ index' = [index EXCEPT ![p] = [index[p] EXCEPT ![i] = call[c].ver]]
      BY <1>1 DEF WriteThrough, ItemTypeOK
    <3>2. [index[p] EXCEPT ![i] = call[c].ver] \in [Items -> Nat]
      BY DEF ItemTypeOK
    <3>3. \E M \in [Items -> Nat] : index' = index \/ index' = [index EXCEPT ![p] = M]
      <4> HIDE DEF p
      <4> QED BY <3>1, <3>2
    <3>4. p \in Processes
      OBVIOUS
    <3> HIDE DEF i, p
    <3>5. QED BY <3>3, <3>4 DEF ItemTypeOK
  <2>2. missed' \in [Processes -> SUBSET Items]
    <3>1. \/ missed' = [missed EXCEPT ![p] = missed[p] \ {i}]
          \/ missed' = [missed EXCEPT ![p] = missed[p] \cup {i}]
          \/ missed' = [missed EXCEPT ![p] = missed[p]]
      BY <1>1 DEF WriteThrough, ItemTypeOK
    <3>2. i \in Items
      BY <1>1 DEF WriteThrough, At, HandsFull
    <3>3. missed[p] \in SUBSET Items
      BY DEF ItemTypeOK
    <3> HIDE DEF i, p
    <3>4. \E M \in SUBSET Items : missed' = [missed EXCEPT ![p] = M]
      BY <3>1, <3>2, <3>3
    <3>5. QED BY <3>4 DEF ItemTypeOK
  <2>3. UNCHANGED <<row, prior, was, skipped, hydrated, lock>>
    BY <1>1 DEF WriteThrough
  <2>4. call'[c].pc = "done" /\ Alone(c) /\ call' \in [Calls -> ItemCall]
    BY <1>0, <1>1, Moved DEF Returned
  <2>5. QED BY <2>1, <2>2, <2>3, <2>4 DEF ItemTypeOK
<1>2. CASE Drop(c)
  <2> DEFINE i == call[c].item  p == Home(c)
  <2>1. index' \in [Processes -> [Items -> Nat]]
    <3>1. index' = index \/ index' = [index EXCEPT ![p] = [index[p] EXCEPT ![i] = 0]]
      BY <1>2 DEF Drop, ItemTypeOK
    <3>2. [index[p] EXCEPT ![i] = 0] \in [Items -> Nat]
      BY DEF ItemTypeOK
    <3>3. \E M \in [Items -> Nat] : index' = index \/ index' = [index EXCEPT ![p] = M]
      <4> HIDE DEF p
      <4> QED BY <3>1, <3>2
    <3>4. p \in Processes
      OBVIOUS
    <3> HIDE DEF i, p
    <3>5. QED BY <3>3, <3>4 DEF ItemTypeOK
  <2>2. missed' \in [Processes -> SUBSET Items]
    <3>1. \/ missed' = [missed EXCEPT ![p] = missed[p] \ {i}]
          \/ missed' = [missed EXCEPT ![p] = missed[p] \cup {i}]
          \/ missed' = [missed EXCEPT ![p] = missed[p]]
      BY <1>2 DEF Drop, ItemTypeOK
    <3>2. i \in Items
      BY <1>2 DEF Drop, At, HandsFull
    <3>3. missed[p] \in SUBSET Items
      BY DEF ItemTypeOK
    <3> HIDE DEF i, p
    <3>4. \E M \in SUBSET Items : missed' = [missed EXCEPT ![p] = M]
      BY <3>1, <3>2, <3>3
    <3>5. QED BY <3>4 DEF ItemTypeOK
  <2>3. UNCHANGED <<row, prior, was, skipped, hydrated, lock>>
    BY <1>2 DEF Drop
  <2>4. call'[c].pc = "done" /\ Alone(c) /\ call' \in [Calls -> ItemCall]
    BY <1>0, <1>2, Moved DEF Returned
  <2>5. QED BY <2>1, <2>2, <2>3, <2>4 DEF ItemTypeOK
<1>3. CASE HydrateSelect(c)
  <2>1. Becomes(c, [call[c] EXCEPT !.pc = "install", !.rows = [i \in Items |-> Live(i)]])
    BY <1>3, SearchCalls
  <2> DEFINE L == [i \in Items |-> Live(i)]
  <2> HIDE DEF L
  <2>2. [call[c] EXCEPT !.pc = "install", !.rows = L].pc = "install"
    BY DEF ItemCall
  <2>3. call'[c].pc = "install" /\ Alone(c) /\ call' \in [Calls -> ItemCall]
    BY <2>1, <2>2, Moved DEF L
  <2>4. QED BY <1>3, <2>3 DEF HydrateSelect, ItemTypeOK
<1>4. CASE HydrateInstall(c)
  <2>1. Becomes(c, [call[c] EXCEPT !.pc = "filter"])
    BY <1>4, SearchCalls
  <2>2. call'[c].pc = "filter" /\ Alone(c) /\ call' \in [Calls -> ItemCall]
    BY <2>1, Moved DEF ItemCall
  <2>3. QED BY <1>4, <2>2 DEF HydrateInstall, ItemTypeOK
<1>5. QED BY <1>1, <1>2, <1>3, <1>4

LEMMA SweepSteps ==
  ASSUME ItemTypeOK, NEW swept \in SUBSET Items, Sweep(swept)
  PROVE  /\ row' \in [Items -> MemoryRow]
         /\ \A i \in Items : IF i \in swept THEN row'[i].status = "soft_deleted" ELSE row'[i] = row[i]
         /\ \A i \in Items : row'[i].version = row[i].version
         /\ \A i \in swept : row[i].status = "active"
         /\ Unheard(swept, None)
         /\ UNCHANGED <<prior, was, skipped, index, hydrated, lock, call>>
BY DEF Sweep, ItemTypeOK, MemoryRow, Active

LEMMA RestartSteps ==
  ASSUME ItemTypeOK, NEW p \in Processes, Restart(p)
  PROVE  /\ UNCHANGED <<row, prior, was, skipped>>
         /\ index' \in [Processes -> [Items -> Nat]] /\ missed' \in [Processes -> SUBSET Items]
         /\ \A q \in Processes \ {p} : index'[q] = index[q] /\ missed'[q] = missed[q] /\ lock'[q] = lock[q]
         /\ hydrated' = hydrated \ {p} /\ lock'[p] = None
         /\ lock' \in [Processes -> Calls \cup {None}]
         /\ call' \in [Calls -> ItemCall]
         /\ \A c \in Calls : IF Home(c) = p /\ call[c].pc # "new" THEN call'[c] = Returned
                                                                 ELSE call'[c] = call[c]
<1>1. Nothing \in [Items -> Nat]
  BY DEF Nothing
<1>2. QED BY <1>1, ReturnedTyped DEF Restart, ItemTypeOK, table, At

LEMMA UnheardTyped ==
  ASSUME ItemTypeOK, NEW swept \in SUBSET Items, NEW p, Unheard(swept, p)
  PROVE  /\ missed' \in [Processes -> SUBSET Items]
         /\ \A q \in Processes : missed[q] \subseteq missed'[q]
         /\ \A q \in Processes : (q \in hydrated \/ Loading(q)) /\ q # p => swept \subseteq missed'[q]
         /\ \A q \in Processes : missed'[q] \subseteq missed[q] \cup swept
BY DEF Unheard, ItemTypeOK, Indexing

----------------------------------------------------------------------------
(* No row is taken back, and nothing deleted comes back.                   *)
LEMMA StatusStays ==
  ASSUME ItemTypeOK, HandsFull, Next
  PROVE  /\ row' \in [Items -> MemoryRow]
         /\ \A i \in Items : /\ row[i].status # "none" => row'[i].status # "none"
                             /\ row[i].status = "soft_deleted" => row'[i].status = "soft_deleted"
<1>1. ASSUME NEW c \in Calls, NEW i \in Items, Writes(c, i)
      PROVE  /\ row' \in [Items -> MemoryRow]
             /\ \A j \in Items : /\ row[j].status # "none" => row'[j].status # "none"
                                 /\ row[j].status = "soft_deleted" => row'[j].status = "soft_deleted"
  BY <1>1, WriteSteps
<1>2. ASSUME NEW c \in Calls,
             Plain(c) \/ WriteThrough(c) \/ Drop(c) \/ HydrateSelect(c) \/ HydrateInstall(c)
      PROVE  row' = row
  BY <1>2, PlainSteps, IndexSteps
<1>3. ASSUME NEW p \in Processes, Restart(p)
      PROVE  row' = row
  BY <1>3, RestartSteps
<1>4. ASSUME NEW swept \in SUBSET Items, Sweep(swept)
      PROVE  /\ row' \in [Items -> MemoryRow]
             /\ \A j \in Items : /\ row[j].status # "none" => row'[j].status # "none"
                                 /\ row[j].status = "soft_deleted" => row'[j].status = "soft_deleted"
  BY <1>4, SweepSteps
<1>5. row' = row => row' \in [Items -> MemoryRow]
  BY DEF ItemTypeOK
<1>6. QED BY <1>1, <1>2, <1>3, <1>4, <1>5, Kinds

LEMMA ItemTyped ==
  ASSUME ItemTypeOK, HandsFull, Next
  PROVE  ItemTypeOK'
<1>1. row' \in [Items -> MemoryRow]
  BY StatusStays
<1>2. ASSUME NEW c \in Calls, Plain(c)
      PROVE  ItemTypeOK'
  <2>1. lock' \in [Processes -> Calls \cup {None}]
    <3>1. lock' = lock \/ lock' = [lock EXCEPT ![Home(c)] = c] \/ lock' = [lock EXCEPT ![Home(c)] = None]
      BY <1>2, PlainSteps DEF Lock, HydrateFails
    <3>2. QED BY <3>1, Locals DEF ItemTypeOK
  <2>2. QED BY <1>1, <1>2, <2>1, PlainSteps DEF ItemTypeOK
<1>3. ASSUME NEW c \in Calls, NEW i \in Items, Writes(c, i)
      PROVE  ItemTypeOK'
  <2>1. missed' \in [Processes -> SUBSET Items]
    <3>1. Unheard({i}, Home(c)) /\ {i} \in SUBSET Items
      BY <1>3, WriteSteps
    <3>2. QED BY <3>1, UnheardTyped
  <2>2. QED BY <1>1, <1>3, <2>1, WriteSteps DEF ItemTypeOK
<1>4. ASSUME NEW c \in Calls, WriteThrough(c) \/ Drop(c) \/ HydrateSelect(c) \/ HydrateInstall(c)
      PROVE  ItemTypeOK'
  BY <1>1, <1>4, IndexSteps DEF ItemTypeOK
<1>5. ASSUME NEW swept \in SUBSET Items, Sweep(swept)
      PROVE  ItemTypeOK'
  <2>1. missed' \in [Processes -> SUBSET Items]
    BY <1>5, SweepSteps, UnheardTyped
  <2>2. QED BY <1>1, <1>5, <2>1, SweepSteps DEF ItemTypeOK
<1>6. ASSUME NEW p \in Processes, Restart(p)
      PROVE  ItemTypeOK'
  BY <1>1, <1>6, RestartSteps DEF ItemTypeOK
<1>7. QED BY <1>2, <1>3, <1>4, <1>5, <1>6, Kinds

LEMMA HandsStay ==
  ASSUME ItemTypeOK, HandsFull, Next
  PROVE  HandsFull'
<1> DEFINE Full(d) ==
      /\ call[d].pc \in {"write", "add", "drop"} =>
           call[d].item \in Items /\ row[call[d].item].status # "none"
      /\ call[d].pc = "drop" => row[call[d].item].status = "soft_deleted"
<1>1. ASSUME NEW d \in Calls, call'[d] = call[d]
      PROVE  Full(d)'
  <2>1. Full(d)
    BY DEF HandsFull
  <2>2. \A i \in Items : /\ row[i].status # "none" => row'[i].status # "none"
                         /\ row[i].status = "soft_deleted" => row'[i].status = "soft_deleted"
    BY StatusStays
  <2>3. CASE call[d].pc \in {"write", "add", "drop"}
    <3>1. call[d].item \in Items
      BY <2>1, <2>3
    <3>2. /\ row[call[d].item].status # "none" => row'[call[d].item].status # "none"
          /\ row[call[d].item].status = "soft_deleted" => row'[call[d].item].status = "soft_deleted"
      BY <2>2, <3>1, Zenon
    <3>3. row'[call[d].item].status # "none"
      BY <2>1, <2>3, <3>2, Zenon
    <3>4. call[d].pc = "drop" => row'[call[d].item].status = "soft_deleted"
      BY <2>1, <3>2, Zenon
    <3>5. QED BY <1>1, <3>1, <3>3, <3>4
  <2>4. CASE call[d].pc \notin {"write", "add", "drop"}
    BY <1>1, <2>4
  <2>5. QED BY <2>3, <2>4
<1>2. ASSUME NEW c \in Calls, Plain(c)
      PROVE  Full(c)' /\ Alone(c)
  BY <1>2, PlainSteps DEF Quiet
<1>3. ASSUME NEW c \in Calls, NEW i \in Items, Writes(c, i)
      PROVE  Full(c)' /\ Alone(c)
  BY <1>3, WriteSteps
<1>4. ASSUME NEW c \in Calls, WriteThrough(c) \/ Drop(c) \/ HydrateSelect(c) \/ HydrateInstall(c)
      PROVE  Full(c)' /\ Alone(c)
  BY <1>4, IndexSteps
<1>5. ASSUME NEW swept \in SUBSET Items, Sweep(swept), NEW d \in Calls
      PROVE  Full(d)'
  BY <1>1, <1>5, SweepSteps
<1>6. ASSUME NEW p \in Processes, Restart(p), NEW d \in Calls
      PROVE  Full(d)'
  <2>1. CASE call'[d] = Returned
    BY <2>1 DEF Returned
  <2>2. QED BY <1>1, <1>6, <2>1, RestartSteps
<1>7. ASSUME NEW c \in Calls, Full(c)' /\ Alone(c), NEW d \in Calls
      PROVE  Full(d)'
  BY <1>1, <1>7 DEF Alone
<1>8. \A d \in Calls : Full(d)'
  BY <1>2, <1>3, <1>4, <1>5, <1>6, <1>7, Kinds
<1>9. QED BY <1>8 DEF HandsFull

(* Who holds a lock, and where a call is that loads an index.              *)
LEMMA LockStays ==
  ASSUME ItemTypeOK, HandsFull, OneLoads, Next
  PROVE  OneLoads'
<1>1. ASSUME NEW c \in Calls, Alone(c), UNCHANGED <<lock, hydrated>>,
             call[c].pc \notin Hydrating, call'[c].pc \notin Hydrating
      PROVE  OneLoads'
  <2>1. ASSUME NEW p \in Processes, lock'[p] # None
        PROVE  Home(lock'[p]) = p /\ call'[lock'[p]].pc \in Hydrating /\ p \notin hydrated'
    <3>1. lock[p] # None /\ lock[p] \in Calls
      BY <1>1, <2>1 DEF ItemTypeOK
    <3>2. Home(lock[p]) = p /\ call[lock[p]].pc \in Hydrating /\ p \notin hydrated
      BY <3>1 DEF OneLoads
    <3>3. call'[lock[p]] = call[lock[p]]
      BY <1>1, <3>1, <3>2 DEF Alone
    <3>4. QED BY <1>1, <3>2, <3>3
  <2>2. ASSUME NEW d \in Calls, call'[d].pc \in Hydrating
        PROVE  lock'[Home(d)] = d
    BY <1>1, <2>2 DEF Alone, OneLoads
  <2>3. QED BY <2>1, <2>2 DEF OneLoads
<1>2. ASSUME NEW c \in Calls, Alone(c), UNCHANGED hydrated,
             call[c].pc \in Hydrating, call'[c].pc \notin Hydrating,
             lock' = [lock EXCEPT ![Home(c)] = None]
      PROVE  OneLoads' 
  <2>1. lock[Home(c)] = c /\ Home(c) \in Processes
    BY <1>2, Locals DEF OneLoads
  <2>2. ASSUME NEW p \in Processes, lock'[p] # None
        PROVE  Home(lock'[p]) = p /\ call'[lock'[p]].pc \in Hydrating /\ p \notin hydrated'
    <3>1. p # Home(c) /\ lock'[p] = lock[p] /\ lock[p] \in Calls
      BY <1>2, <2>2 DEF ItemTypeOK
    <3>2. Home(lock[p]) = p /\ call[lock[p]].pc \in Hydrating /\ p \notin hydrated
      BY <2>2, <3>1 DEF OneLoads
    <3>3. call'[lock[p]] = call[lock[p]]
      BY <1>2, <3>1, <3>2 DEF Alone
    <3>4. QED BY <1>2, <3>1, <3>2, <3>3
  <2>3. ASSUME NEW d \in Calls, call'[d].pc \in Hydrating
        PROVE  lock'[Home(d)] = d
    <3>1. d # c /\ call'[d] = call[d]
      BY <1>2, <2>3 DEF Alone
    <3>2. lock[Home(d)] = d /\ Home(d) # Home(c) /\ Home(d) \in Processes
      BY <2>1, <2>3, <3>1, Locals DEF OneLoads
    <3>3. QED BY <1>2, <3>2 DEF ItemTypeOK
  <2>4. QED BY <2>2, <2>3 DEF OneLoads
<1>3. ASSUME NEW c \in Calls, Plain(c)
      PROVE  OneLoads'
  <2>1. CASE Lock(c)
    <3>1. /\ lock' = [lock EXCEPT ![Home(c)] = c] /\ Home(c) \notin hydrated
          /\ lock[Home(c)] = None /\ hydrated' = hydrated /\ Home(c) \in Processes
      BY <2>1, <1>3, PlainSteps, Locals DEF Lock
    <3>2. call'[c].pc \in Hydrating /\ Alone(c)
      <4>1. call'[c].pc = "select"
        BY <2>1, Locals DEF Lock, Goto, ItemTypeOK, ItemCall
      <4>2. QED BY <1>3, <4>1, PlainSteps DEF Hydrating
    <3>3. ASSUME NEW p \in Processes, lock'[p] # None
          PROVE  Home(lock'[p]) = p /\ call'[lock'[p]].pc \in Hydrating /\ p \notin hydrated'
      <4>1. CASE p = Home(c)
        BY <3>1, <3>2, <4>1 DEF ItemTypeOK
      <4>2. CASE p # Home(c)
        <5>1. lock'[p] = lock[p] /\ lock[p] \in Calls
          BY <3>1, <3>3, <4>2 DEF ItemTypeOK
        <5>2. Home(lock[p]) = p /\ call[lock[p]].pc \in Hydrating /\ p \notin hydrated
          BY <3>3, <5>1 DEF OneLoads
        <5>3. call'[lock[p]] = call[lock[p]]
          BY <3>2, <4>2, <5>1, <5>2 DEF Alone
        <5>4. QED BY <3>1, <5>1, <5>2, <5>3
      <4>3. QED BY <4>1, <4>2
    <3>4. ASSUME NEW d \in Calls, call'[d].pc \in Hydrating
          PROVE  lock'[Home(d)] = d
      <4>1. CASE d = c
        BY <3>1, <4>1 DEF ItemTypeOK
      <4>2. CASE d # c
        <5>1. call'[d] = call[d]
          BY <3>2, <4>2 DEF Alone
        <5>2. lock[Home(d)] = d /\ d # None /\ Home(d) \in Processes
          BY <3>4, <5>1, Locals DEF OneLoads
        <5>3. QED BY <3>1, <5>2 DEF ItemTypeOK
      <4>3. QED BY <4>1, <4>2
    <3>5. QED BY <3>3, <3>4 DEF OneLoads
  <2>2. CASE HydrateFails(c) /\ call'[c].pc = "sql"
    <3>1. /\ lock' = [lock EXCEPT ![Home(c)] = None] /\ call[c].pc \in Hydrating
          /\ hydrated' = hydrated /\ Alone(c)
      BY <1>3, <2>2, PlainSteps DEF HydrateFails
    <3>2. call'[c].pc \notin Hydrating
      BY <2>2 DEF Hydrating
    <3>3. QED BY <1>2, <3>1, <3>2
  <2>3. CASE lock' = lock /\ call[c].pc \notin Hydrating /\ call'[c].pc \notin Hydrating
    BY <1>1, <1>3, <2>3, PlainSteps
  <2>4. QED BY <1>3, <2>1, <2>2, <2>3, PlainSteps
<1>4. ASSUME NEW c \in Calls, NEW i \in Items, Writes(c, i)
      PROVE  OneLoads'
  <2>1. UNCHANGED <<lock, hydrated>> /\ Alone(c) /\ call[c].pc \notin {"select", "install"}
        /\ call'[c].pc \in Writing
    BY <1>4, WriteSteps
  <2>2. QED BY <1>1, <2>1 DEF Writing, Hydrating
<1>5. ASSUME NEW c \in Calls, WriteThrough(c) \/ Drop(c)
      PROVE  OneLoads'
  <2>1. UNCHANGED <<lock, hydrated>> /\ call[c].pc \in Writing
    BY <1>5 DEF WriteThrough, Drop, At, Writing
  <2>2. Alone(c) /\ call'[c].pc = "done"
    <3>1. call' = [call EXCEPT ![c] = Returned]
      BY <1>5 DEF WriteThrough, Drop
    <3>2. QED BY <1>5, <3>1, IndexSteps DEF ItemTypeOK, Returned
  <2>3. QED BY <1>1, <2>1, <2>2 DEF Writing, Hydrating
<1>6. ASSUME NEW c \in Calls, HydrateSelect(c)
      PROVE  OneLoads'
  <2>1. UNCHANGED <<lock, hydrated>> /\ call[c].pc = "select" /\ Alone(c)
    BY <1>6, IndexSteps DEF HydrateSelect, At
  <2>2. call'[c].pc = "install"
    BY <1>6, Locals DEF HydrateSelect, ItemTypeOK, ItemCall
  <2>3. \A d \in Calls : call'[d].pc \in Hydrating <=> call[d].pc \in Hydrating
    BY <2>1, <2>2 DEF Alone, Hydrating
  <2>4. \A p \in Processes : lock[p] \in Calls \cup {None}
    BY DEF ItemTypeOK
  <2>5. QED BY <2>1, <2>3, <2>4 DEF OneLoads
<1>7. ASSUME NEW c \in Calls, HydrateInstall(c)
      PROVE  OneLoads'
  <2>1. /\ lock' = [lock EXCEPT ![Home(c)] = None] /\ hydrated' = hydrated \cup {Home(c)}
        /\ call[c].pc = "install" /\ Alone(c)
    BY <1>7, IndexSteps DEF HydrateInstall, At
  <2>2. call'[c].pc = "filter"
    BY <1>7, Locals DEF HydrateInstall, Goto, ItemTypeOK, ItemCall
  <2>3. lock[Home(c)] = c /\ Home(c) \in Processes
    BY <2>1, Locals DEF OneLoads, Hydrating
  <2>4. ASSUME NEW p \in Processes, lock'[p] # None
        PROVE  Home(lock'[p]) = p /\ call'[lock'[p]].pc \in Hydrating /\ p \notin hydrated'
    <3>1. p # Home(c) /\ lock'[p] = lock[p] /\ lock[p] \in Calls
      BY <2>1, <2>4 DEF ItemTypeOK
    <3>2. Home(lock[p]) = p /\ call[lock[p]].pc \in Hydrating /\ p \notin hydrated
      BY <2>4, <3>1 DEF OneLoads
    <3>3. call'[lock[p]] = call[lock[p]]
      BY <2>1, <3>1, <3>2 DEF Alone
    <3>4. QED BY <2>1, <3>1, <3>2, <3>3
  <2>5. ASSUME NEW d \in Calls, call'[d].pc \in Hydrating
        PROVE  lock'[Home(d)] = d
    <3>1. d # c /\ call'[d] = call[d]
      BY <2>1, <2>2, <2>5 DEF Alone, Hydrating
    <3>2. lock[Home(d)] = d /\ Home(d) # Home(c) /\ Home(d) \in Processes
      BY <2>3, <2>5, <3>1, Locals DEF OneLoads
    <3>3. QED BY <2>1, <3>2 DEF ItemTypeOK
  <2>6. QED BY <2>4, <2>5 DEF OneLoads
<1>8. ASSUME NEW swept \in SUBSET Items, Sweep(swept)
      PROVE  OneLoads'
  BY <1>8, SweepSteps DEF OneLoads
<1>9. ASSUME NEW p \in Processes, Restart(p)
      PROVE  OneLoads'
  <2>1. ASSUME NEW q \in Processes, lock'[q] # None
        PROVE  Home(lock'[q]) = q /\ call'[lock'[q]].pc \in Hydrating /\ q \notin hydrated'
    <3>1. q # p /\ lock'[q] = lock[q] /\ lock[q] \in Calls /\ hydrated' \subseteq hydrated
      BY <1>9, <2>1, RestartSteps DEF ItemTypeOK
    <3>2. Home(lock[q]) = q /\ call[lock[q]].pc \in Hydrating /\ q \notin hydrated
      BY <2>1, <3>1 DEF OneLoads
    <3>3. call'[lock[q]] = call[lock[q]]
      BY <1>9, <3>1, <3>2, RestartSteps
    <3>4. QED BY <3>1, <3>2, <3>3
  <2>2. ASSUME NEW d \in Calls, call'[d].pc \in Hydrating
        PROVE  lock'[Home(d)] = d
    <3>1. call'[d] # Returned
      BY <2>2 DEF Returned, Hydrating
    <3>2. call'[d] = call[d] /\ ~ (Home(d) = p /\ call[d].pc # "new")
      BY <1>9, <3>1, RestartSteps
    <3>3. Home(d) # p
      BY <2>2, <3>2 DEF Hydrating
    <3>4. lock'[Home(d)] = lock[Home(d)]
      BY <1>9, <3>3, RestartSteps, Locals
    <3>5. QED BY <2>2, <3>2, <3>4 DEF OneLoads
  <2>3. QED BY <2>1, <2>2 DEF OneLoads
<1>10. QED BY <1>3, <1>4, <1>5, <1>6, <1>7, <1>8, <1>9, Kinds

(* A call that hands nothing over leaves the others' hands full.           *)
LEMMA HandsAlone ==
  ASSUME NEW c \in Calls, Alone(c), NEW p, NEW i, InHand(p, i),
         call[c].pc \notin Writing \/ Home(c) # p \/ call[c].item # i
  PROVE  InHand(p, i)'
BY DEF Alone, InHand, Writing

LEMMA IndexStays ==
  ASSUME IndexInv, Next
  PROVE  IndexFollows' /\ LoadFollows'
<1> USE DEF IndexInv
<1>a. /\ \A p \in hydrated : Follows(p, index[p])
      /\ \A c \in Calls : call[c].pc = "install" => Follows(Home(c), call[c].rows)
  BY DEF IndexFollows, LoadFollows, Follows
<1>b. ASSUME \A p \in hydrated', i \in Items :
               index'[p][i] # Live(i)' => InHand(p, i)' \/ i \in missed'[p],
             \A d \in Calls : call'[d].pc = "install" =>
               \A i \in Items : call'[d].rows[i] # Live(i)' =>
                 InHand(Home(d), i)' \/ i \in missed'[Home(d)]
      PROVE  IndexFollows' /\ LoadFollows'
  BY <1>b DEF IndexFollows, LoadFollows, Follows
<1>c. ASSUME NEW d \in Calls, call[d].pc = "install"
      PROVE  Loading(Home(d)) /\ Home(d) \notin hydrated /\ lock[Home(d)] = d
             /\ Home(d) \in Processes
  <2>1. lock[Home(d)] = d /\ Home(d) \in Processes /\ d # None
    BY <1>c, Locals DEF OneLoads, Hydrating
  <2>2. Home(d) \notin hydrated
    BY <2>1 DEF OneLoads
  <2>3. QED BY <1>c, <2>1, <2>2 DEF Loading
<1>d. hydrated \subseteq Processes
  BY DEF ItemTypeOK
<1>1. ASSUME NEW c \in Calls, Plain(c)
      PROVE  IndexFollows' /\ LoadFollows'
  <2>1. /\ UNCHANGED <<row, index, hydrated, missed>> /\ Alone(c)
        /\ call[c].pc \notin Writing /\ call'[c].pc # "install"
    BY <1>1, PlainSteps DEF Quiet, Writing
  <2>2. \A p : \A i \in Items : InHand(p, i) => InHand(p, i)'
    BY <2>1, HandsAlone
  <2>3. ASSUME NEW p \in hydrated, NEW i \in Items, index[p][i] # Live(i)'
        PROVE  InHand(p, i)' \/ i \in missed'[p]
    BY <2>1, <2>2, <2>3, <1>a DEF Follows, Live, Active
  <2>4. ASSUME NEW d \in Calls, call'[d].pc = "install", NEW i \in Items, call'[d].rows[i] # Live(i)'
        PROVE  InHand(Home(d), i)' \/ i \in missed'[Home(d)]
    <3>1. call'[d] = call[d]
      BY <2>1, <2>4 DEF Alone
    <3>2. QED BY <2>1, <2>2, <2>4, <3>1, <1>a DEF Follows, Live, Active
  <2>5. QED BY <2>1, <2>3, <2>4, <1>b
<1>2. ASSUME NEW c \in Calls, NEW i \in Items, Writes(c, i)
      PROVE  IndexFollows' /\ LoadFollows'
  <2>1. /\ \A j \in Items \ {i} : row'[j] = row[j]
        /\ UNCHANGED <<index, hydrated, lock>> /\ Alone(c)
        /\ call[c].pc \notin Writing \cup {"install"}
        /\ call'[c].pc \in Writing /\ call'[c].item = i
        /\ Unheard({i}, Home(c))
    BY <1>2, WriteSteps DEF Writing
  <2>2. \A p : \A j \in Items : InHand(p, j) => InHand(p, j)'
    BY <2>1, HandsAlone
  <2>3. InHand(Home(c), i)'
    BY <2>1 DEF InHand, Writing
  <2>4. ASSUME NEW p \in Processes, p \in hydrated \/ Loading(p)
        PROVE  missed[p] \subseteq missed'[p] /\ (i \in missed'[p] \/ InHand(p, i)')
    <3>1. Unheard({i}, Home(c)) /\ {i} \in SUBSET Items
      BY <2>1
    <3>2. /\ missed[p] \subseteq missed'[p]
          /\ p # Home(c) => {i} \subseteq missed'[p]
      BY <2>4, <3>1, UnheardTyped
    <3>3. QED BY <3>2, <2>3
  <2>5. ASSUME NEW p \in hydrated, NEW j \in Items, index[p][j] # Live(j)'
        PROVE  InHand(p, j)' \/ j \in missed'[p]
    <3>1. CASE j = i
      BY <1>d, <2>4, <3>1
    <3>2. CASE j # i
      <4>1. Live(j)' = Live(j)
        BY <2>1, <3>2 DEF Live, Active
      <4>2. QED BY <1>a, <1>d, <2>2, <2>4, <2>5, <4>1 DEF Follows
    <3>3. QED BY <3>1, <3>2
  <2>6. ASSUME NEW d \in Calls, call'[d].pc = "install", NEW j \in Items, call'[d].rows[j] # Live(j)'
        PROVE  InHand(Home(d), j)' \/ j \in missed'[Home(d)]
    <3>1. call'[d] = call[d]
      BY <2>1, <2>6 DEF Alone, Writing
    <3>2. Loading(Home(d)) /\ Home(d) \in Processes
      BY <1>c, <2>6, <3>1
    <3>3. CASE j = i
      BY <2>4, <3>2, <3>3
    <3>4. CASE j # i
      <4>1. Live(j)' = Live(j)
        BY <2>1, <3>4 DEF Live, Active
      <4>2. QED BY <1>a, <2>2, <2>4, <2>6, <3>1, <3>2, <4>1 DEF Follows
    <3>5. QED BY <3>3, <3>4
  <2>7. QED BY <2>1, <2>5, <2>6, <1>b
<1>3. ASSUME NEW c \in Calls, WriteThrough(c) \/ Drop(c)
      PROVE  IndexFollows' /\ LoadFollows'
  <2> DEFINE p == Home(c)  i == call[c].item
  <2>1. i \in Items /\ p \in Processes /\ call[c].pc \in Writing
    BY <1>3, Locals DEF WriteThrough, Drop, At, HandsFull, Writing
  <2>2. UNCHANGED <<row, hydrated, lock>> /\ Alone(c) /\ call'[c].pc = "done"
    <3>1. call' = [call EXCEPT ![c] = Returned]
      BY <1>3 DEF WriteThrough, Drop
    <3>2. UNCHANGED <<row, hydrated, lock>>
      BY <1>3 DEF WriteThrough, Drop, table
    <3>3. QED BY <1>3, <3>1, <3>2, IndexSteps DEF ItemTypeOK, Returned
  <2>3. \A q \in Processes \ {p} : index'[q] = index[q] /\ missed'[q] = missed[q]
    BY <1>3 DEF WriteThrough, Drop, ItemTypeOK
  <2>4. \A j \in Items \ {i} : index'[p][j] = index[p][j] /\ (j \in missed[p] => j \in missed'[p])
    <3>1. \A j \in Items \ {i} : index'[p][j] = index[p][j]
      BY <1>3, <2>1 DEF WriteThrough, Drop, ItemTypeOK
    <3>2. \A j \in Items \ {i} : j \in missed[p] => j \in missed'[p]
      BY <1>3, <2>1 DEF WriteThrough, Drop, ItemTypeOK
    <3>3. QED BY <3>1, <3>2
  <2>5. p \in hydrated /\ index'[p][i] # Live(i) => i \in missed'[p]
    <3>1. CASE WriteThrough(c) /\ p \in hydrated /\ index'[p][i] # Live(i)
      <4>1. index'[p][i] = call[c].ver
        BY <2>1, <3>1 DEF WriteThrough, ItemTypeOK
      <4>2. Overtaken(c) /\ p \in Indexing
        BY <2>1, <3>1, <4>1 DEF Overtaken, Indexing
      <4>3. QED BY <2>1, <3>1, <4>2 DEF WriteThrough, ItemTypeOK
    <3>2. CASE Drop(c) /\ p \in hydrated
      <4>1. index'[p][i] = 0
        BY <2>1, <3>2 DEF Drop, ItemTypeOK
      <4>2. Live(i) = 0
        BY <3>2 DEF Drop, At, HandsFull, Live, Active
      <4>3. QED BY <4>1, <4>2
    <3>3. QED BY <1>3, <3>1, <3>2
  <2>6. p \notin hydrated /\ Loading(p) => i \in missed'[p]
    BY <1>3, <2>1 DEF WriteThrough, Drop, Indexing, ItemTypeOK
  <2> HIDE DEF p, i
  <2>7. ASSUME NEW q, NEW j \in Items, InHand(q, j), q # p \/ j # i
        PROVE  InHand(q, j)'
    BY <2>2, <2>7, HandsAlone DEF p, i
  <2>8. ASSUME NEW q \in hydrated, NEW j \in Items, index'[q][j] # Live(j)'
        PROVE  InHand(q, j)' \/ j \in missed'[q]
    <3>1. Live(j)' = Live(j)
      BY <2>2 DEF Live, Active
    <3>2. CASE q # p
      BY <1>a, <1>d, <2>3, <2>7, <2>8, <3>1, <3>2 DEF Follows
    <3>3. CASE q = p /\ j = i
      BY <2>5, <2>8, <3>1, <3>3
    <3>4. CASE q = p /\ j # i
      BY <1>a, <2>4, <2>7, <2>8, <3>1, <3>4 DEF Follows
    <3>5. QED BY <3>2, <3>3, <3>4
  <2>9. ASSUME NEW d \in Calls, call'[d].pc = "install", NEW j \in Items, call'[d].rows[j] # Live(j)'
        PROVE  InHand(Home(d), j)' \/ j \in missed'[Home(d)]
    <3>1. call'[d] = call[d]
      BY <2>2, <2>9 DEF Alone
    <3>2. Loading(Home(d)) /\ Home(d) \notin hydrated /\ Home(d) \in Processes
      BY <1>c, <2>9, <3>1
    <3>3. Live(j)' = Live(j)
      BY <2>2 DEF Live, Active
    <3>4. CASE Home(d) # p
      BY <1>a, <2>3, <2>7, <2>9, <3>1, <3>2, <3>3, <3>4 DEF Follows
    <3>5. CASE Home(d) = p /\ j = i
      BY <2>6, <3>2, <3>5
    <3>6. CASE Home(d) = p /\ j # i
      BY <1>a, <2>4, <2>7, <2>9, <3>1, <3>3, <3>6 DEF Follows
    <3>7. QED BY <3>4, <3>5, <3>6
  <2>10. QED BY <2>2, <2>8, <2>9, <1>b
<1>4. ASSUME NEW c \in Calls, HydrateSelect(c)
      PROVE  IndexFollows' /\ LoadFollows'
  <2>1. /\ UNCHANGED <<row, index, hydrated, lock>> /\ call[c].pc = "select" /\ Alone(c)
        /\ missed' = [missed EXCEPT ![Home(c)] = {}]
    BY <1>4, IndexSteps DEF HydrateSelect, At
  <2>2. call'[c].rows = [i \in Items |-> Live(i)]
    BY <1>4, Locals DEF HydrateSelect, ItemTypeOK, ItemCall
  <2>3. lock[Home(c)] = c /\ Home(c) \notin hydrated /\ Home(c) \in Processes
    BY <2>1, Locals DEF OneLoads, Hydrating
  <2>4. \A q \in Processes \ {Home(c)} : missed'[q] = missed[q]
    BY <2>1 DEF ItemTypeOK
  <2>5. \A q : \A j \in Items : InHand(q, j) => InHand(q, j)'
    BY <2>1, HandsAlone DEF Writing
  <2>6. \A j \in Items : Live(j)' = Live(j)
    BY <2>1 DEF Live, Active
  <2>7. ASSUME NEW q \in hydrated, NEW j \in Items, index'[q][j] # Live(j)'
        PROVE  InHand(q, j)' \/ j \in missed'[q]
    BY <1>a, <1>d, <2>1, <2>3, <2>4, <2>5, <2>6, <2>7 DEF Follows
  <2>8. ASSUME NEW d \in Calls, call'[d].pc = "install", NEW j \in Items, call'[d].rows[j] # Live(j)'
        PROVE  InHand(Home(d), j)' \/ j \in missed'[Home(d)]
    <3>1. CASE d = c
      BY <2>2, <2>6, <2>8, <3>1
    <3>2. CASE d # c
      <4>1. call'[d] = call[d]
        BY <2>1, <3>2 DEF Alone
      <4>2. lock[Home(d)] = d /\ Home(d) \in Processes /\ Home(d) # Home(c)
        BY <1>c, <2>3, <2>8, <3>2, <4>1
      <4>3. QED BY <1>a, <2>4, <2>5, <2>6, <2>8, <4>1, <4>2 DEF Follows
    <3>3. QED BY <3>1, <3>2
  <2>9. QED BY <2>1, <2>7, <2>8, <1>b
<1>5. ASSUME NEW c \in Calls, HydrateInstall(c)
      PROVE  IndexFollows' /\ LoadFollows'
  <2>1. /\ UNCHANGED <<row, missed>> /\ call[c].pc = "install" /\ Alone(c)
        /\ index' = [index EXCEPT ![Home(c)] = call[c].rows] /\ hydrated' = hydrated \cup {Home(c)}
    BY <1>5, IndexSteps DEF HydrateInstall, At, table
  <2>2. call'[c].pc = "filter"
    BY <1>5, Locals DEF HydrateInstall, Goto, ItemTypeOK, ItemCall
  <2>3. lock[Home(c)] = c /\ Home(c) \notin hydrated /\ Home(c) \in Processes
    BY <2>1, <1>c
  <2>4. /\ index'[Home(c)] = call[c].rows
        /\ \A q \in Processes \ {Home(c)} : index'[q] = index[q]
    BY <2>1, <2>3 DEF ItemTypeOK
  <2>5. \A q : \A j \in Items : InHand(q, j) => InHand(q, j)'
    BY <2>1, HandsAlone DEF Writing
  <2>6. \A j \in Items : Live(j)' = Live(j)
    BY <2>1 DEF Live, Active
  <2>7. ASSUME NEW q \in hydrated', NEW j \in Items, index'[q][j] # Live(j)'
        PROVE  InHand(q, j)' \/ j \in missed'[q]
    <3>1. CASE q = Home(c)
      BY <1>a, <2>1, <2>4, <2>5, <2>6, <2>7, <3>1 DEF Follows
    <3>2. CASE q # Home(c)
      BY <1>a, <1>d, <2>1, <2>4, <2>5, <2>6, <2>7, <3>2 DEF Follows
    <3>3. QED BY <3>1, <3>2
  <2>8. ASSUME NEW d \in Calls, call'[d].pc = "install", NEW j \in Items, call'[d].rows[j] # Live(j)'
        PROVE  InHand(Home(d), j)' \/ j \in missed'[Home(d)]
    <3>1. call'[d] = call[d]
      BY <2>1, <2>2, <2>8 DEF Alone
    <3>2. QED BY <1>a, <2>1, <2>5, <2>6, <2>8, <3>1 DEF Follows
  <2>9. QED BY <2>7, <2>8, <1>b
<1>6. ASSUME NEW swept \in SUBSET Items, Sweep(swept)
      PROVE  IndexFollows' /\ LoadFollows'
  <2>1. /\ \A j \in Items \ swept : row'[j] = row[j]
        /\ UNCHANGED <<index, hydrated, lock, call>> /\ Unheard(swept, None)
    BY <1>6, SweepSteps
  <2>2. ASSUME NEW p \in Processes, p \in hydrated \/ Loading(p)
        PROVE  missed[p] \subseteq missed'[p] /\ swept \subseteq missed'[p]
    <3>1. p # None
      BY NoneIsNothing
    <3>2. QED BY <2>1, <2>2, <3>1, UnheardTyped
  <2>3. \A q, j : InHand(q, j)' = InHand(q, j)
    BY <2>1 DEF InHand
  <2>4. ASSUME NEW p \in hydrated, NEW j \in Items, index'[p][j] # Live(j)'
        PROVE  InHand(p, j)' \/ j \in missed'[p]
    <3>1. CASE j \in swept
      BY <1>d, <2>2, <3>1
    <3>2. CASE j \notin swept
      <4>1. Live(j)' = Live(j)
        BY <2>1, <3>2 DEF Live, Active
      <4>2. QED BY <1>a, <1>d, <2>1, <2>2, <2>3, <2>4, <4>1 DEF Follows
    <3>3. QED BY <3>1, <3>2
  <2>5. ASSUME NEW d \in Calls, call'[d].pc = "install", NEW j \in Items, call'[d].rows[j] # Live(j)'
        PROVE  InHand(Home(d), j)' \/ j \in missed'[Home(d)]
    <3>1. Loading(Home(d)) /\ Home(d) \in Processes /\ call'[d] = call[d]
      BY <1>c, <2>1, <2>5
    <3>2. CASE j \in swept
      BY <2>2, <3>1, <3>2
    <3>3. CASE j \notin swept
      <4>1. Live(j)' = Live(j)
        BY <2>1, <3>3 DEF Live, Active
      <4>2. QED BY <1>a, <2>2, <2>3, <2>5, <3>1, <4>1 DEF Follows
    <3>4. QED BY <3>2, <3>3
  <2>6. QED BY <2>1, <2>4, <2>5, <1>b
<1>7. ASSUME NEW p \in Processes, Restart(p)
      PROVE  IndexFollows' /\ LoadFollows'
  <2>1. /\ row' = row /\ hydrated' = hydrated \ {p}
        /\ \A q \in Processes \ {p} : index'[q] = index[q] /\ missed'[q] = missed[q]
        /\ \A c \in Calls : IF Home(c) = p /\ call[c].pc # "new" THEN call'[c] = Returned
                                                                ELSE call'[c] = call[c]
    BY <1>7, RestartSteps
  <2>2. \A q \in Processes \ {p} : \A j \in Items : InHand(q, j) => InHand(q, j)'
    BY <2>1 DEF InHand
  <2>3. \A j \in Items : Live(j)' = Live(j)
    BY <2>1 DEF Live, Active
  <2>4. ASSUME NEW q \in hydrated', NEW j \in Items, index'[q][j] # Live(j)'
        PROVE  InHand(q, j)' \/ j \in missed'[q]
    BY <1>a, <1>d, <2>1, <2>2, <2>3, <2>4 DEF Follows
  <2>5. ASSUME NEW d \in Calls, call'[d].pc = "install", NEW j \in Items, call'[d].rows[j] # Live(j)'
        PROVE  InHand(Home(d), j)' \/ j \in missed'[Home(d)]
    <3>1. call'[d] # Returned
      BY <2>5 DEF Returned
    <3>2. call'[d] = call[d] /\ Home(d) # p
      BY <2>1, <2>5, <3>1
    <3>3. Home(d) \in Processes \ {p}
      BY <3>2, Locals
    <3>4. QED BY <1>a, <2>1, <2>2, <2>3, <2>5, <3>2, <3>3 DEF Follows
  <2>6. QED BY <2>4, <2>5, <1>b
<1>8. QED BY <1>1, <1>2, <1>3, <1>4, <1>5, <1>6, <1>7, Kinds

(* Every index follows the table, but for what its process cannot know of  *)
(* or is about to write through, whatever number of processes, calls,      *)
(* edits, sweeps and restarts there is (HnswCache with VectorStore).       *)
THEOREM IndexHolds == Spec => []IndexInv
<1>1. Init => IndexInv
  <2> SUFFICES ASSUME Init PROVE IndexInv
    OBVIOUS
  <2>1. PICK s \in Contents \ Secrets : row = [i \in Items |-> IF i \in Stored THEN Stores(s) ELSE Absent]
    BY DEF Init
  <2>2. Redacted(s) \in Contents /\ Stores(s) \in MemoryRow /\ Absent \in MemoryRow
    BY RedactionIsStable DEF Stores, Absent, MemoryRow
  <2>3. row \in [Items -> MemoryRow]
    BY <2>1, <2>2
  <2>4. Nothing \in [Items -> Nat]
    BY DEF Nothing
  <2>5. call \in [Calls -> ItemCall] /\ \A c \in Calls : call[c].pc = "new"
    BY <2>4 DEF Init, ItemCall, Places
  <2>6. ItemTypeOK
    BY <2>3, <2>4, <2>5 DEF Init, ItemTypeOK
  <2>7. HandsFull /\ OneLoads /\ IndexFollows /\ LoadFollows
    BY <2>5 DEF Init, HandsFull, OneLoads, IndexFollows, LoadFollows, Hydrating
  <2>8. QED BY <2>6, <2>7 DEF IndexInv
<1>2. IndexInv /\ [Next]_vars => IndexInv'
  <2> SUFFICES ASSUME IndexInv, [Next]_vars PROVE IndexInv'
    OBVIOUS
  <2>1. CASE Next
    BY <2>1, ItemTyped, HandsStay, LockStays, IndexStays DEF IndexInv
  <2>2. CASE UNCHANGED vars
    BY <2>2 DEF vars, IndexInv, ItemTypeOK, HandsFull, OneLoads, IndexFollows, LoadFollows,
                Follows, InHand, Live, Active
  <2>3. QED BY <2>1, <2>2
<1>3. QED BY <1>1, <1>2, PTL DEF Spec

(* The part of it that the runs check: an installed index.                 *)
THEOREM IndexesFollow == Spec => []IndexFollows
BY IndexHolds, PTL DEF IndexInv

(* Every reachable state is well typed; no edit or write-through loses its *)
(* item on the way (VectorStore, HnswCache).                               *)
THEOREM ItemsTyped == Spec => []ItemTypeOK
BY IndexHolds, PTL DEF IndexInv

----------------------------------------------------------------------------
(* What a call found was never deleted before it came.                     *)
GoneInv == \A c \in Calls : call[c].gone \subseteq Deleted /\ call[c].found \cap call[c].gone = {}

Actives == {i \in Items : Active(i)}

(* A call answers with what is active as it asks, on top of what it had.   *)
Answers(c) ==
  \/ call'[c].found = {} /\ call'[c].gone = Deleted
  \/ call'[c].found \subseteq call[c].found \cup Actives /\ call'[c].gone = call[c].gone

LEMMA AnswerSteps ==
  ASSUME ItemTypeOK, HandsFull, NEW c \in Calls, Arrive(c) \/ WriterStep(c) \/ SearchStep(c)
  PROVE  Answers(c) /\ Alone(c)
<1>1. CASE Arrive(c)
  <2>1. ASSUME NEW s \in Contents, Ingest(c, s)
        PROVE  Answers(c)
    BY <2>1 DEF Ingest, Answers, Returned, ItemTypeOK
  <2>2. ASSUME NEW i \in Items, NEW s \in Contents, EditRead(c, i, s)
        PROVE  Answers(c)
    BY <2>2 DEF EditRead, Answers, Returned, ItemTypeOK
  <2>3. ASSUME NEW i \in Items, SoftDelete(c, i)
        PROVE  Answers(c)
    <3>1. \/ call' = [call EXCEPT ![c] = Returned]
          \/ call' = [call EXCEPT ![c] = [Returned EXCEPT !.pc = "drop", !.item = i]]
      BY <2>3 DEF SoftDelete
    <3>2. CASE call' = [call EXCEPT ![c] = Returned]
      BY <3>2 DEF Answers, Returned, ItemTypeOK
    <3>3. CASE call' = [call EXCEPT ![c] = [Returned EXCEPT !.pc = "drop", !.item = i]]
      BY <3>3 DEF Answers, Returned, ItemTypeOK
    <3>4. QED BY <3>1, <3>2, <3>3
  <2>4. Search(c) => Answers(c)
    BY DEF Search, Answers, Returned, ItemTypeOK
  <2>5. Answers(c)
    BY <1>1, <2>1, <2>2, <2>3, <2>4 DEF Arrive, Remember, Correct, Forget
  <2>6. Plain(c) \/ \E i \in Items : Writes(c, i)
    BY <1>1 DEF Arrive, Remember, Correct, Forget, Plain, Writes
  <2>7. QED BY <2>5, <2>6, PlainSteps, WriteSteps
<1>2. CASE WriterStep(c)
  <2>1. ASSUME NEW i \in Items, Insert(c, i)
        PROVE  Answers(c)
    BY <2>1, Locals DEF Insert, Answers, ItemTypeOK, ItemCall
  <2>2. EditWrite(c) => Answers(c)
    BY Locals DEF EditWrite, Answers, ItemTypeOK, ItemCall
  <2>3. WriteThrough(c) \/ Drop(c) => Answers(c)
    BY DEF WriteThrough, Drop, Answers, Returned, ItemTypeOK
  <2>4. Answers(c)
    BY <1>2, <2>1, <2>2, <2>3 DEF WriterStep
  <2>5. (\E i \in Items : Writes(c, i)) \/ WriteThrough(c) \/ Drop(c)
    <3>1. EditWrite(c) => \E i \in Items : call[c].item = i
      BY DEF EditWrite, At, HandsFull
    <3>2. QED BY <1>2, <3>1 DEF WriterStep, Writes
  <2>6. QED BY <2>4, <2>5, WriteSteps, IndexSteps
<1>3. CASE SearchStep(c)
  <2>1. Candidates(c) \/ Lock(c) => Answers(c)
    <3>1. ASSUME Candidates(c)
          PROVE  Answers(c)
      <4>1. call'[c].found = call[c].found /\ call'[c].gone = call[c].gone
        BY <3>1, Locals DEF Candidates, ItemTypeOK, ItemCall
      <4>2. QED BY <4>1 DEF Answers
    <3>2. ASSUME Lock(c)
          PROVE  Answers(c)
      <4>1. call'[c].found = call[c].found /\ call'[c].gone = call[c].gone
        BY <3>2, Locals DEF Lock, Goto, ItemTypeOK, ItemCall
      <4>2. QED BY <4>1 DEF Answers
    <3>3. QED BY <3>1, <3>2
  <2>2. HydrateSelect(c) \/ HydrateInstall(c) \/ HydrateFails(c) => Answers(c)
    <3>1. HydrateSelect(c) => call'[c].found = call[c].found /\ call'[c].gone = call[c].gone
      BY Locals DEF HydrateSelect, ItemTypeOK, ItemCall
    <3>2. HydrateInstall(c) => call'[c].found = call[c].found /\ call'[c].gone = call[c].gone
      BY Locals DEF HydrateInstall, Goto, ItemTypeOK, ItemCall
    <3>3. HydrateFails(c) => call'[c].found = call[c].found /\ call'[c].gone = call[c].gone
      BY Locals DEF HydrateFails, ItemTypeOK, ItemCall
    <3>4. QED BY <3>1, <3>2, <3>3 DEF Answers
  <2>3. SearchSql(c) \/ Filter(c) => Answers(c)
    <3>1. ASSUME SearchSql(c)
          PROVE  Answers(c)
      <4>1. call'[c].found = Actives /\ call'[c].gone = call[c].gone
        BY <3>1, Locals DEF SearchSql, Actives, ItemTypeOK, ItemCall
      <4>2. QED BY <4>1 DEF Answers
    <3>2. ASSUME Filter(c)
          PROVE  Answers(c)
      <4>1. call'[c].found = {i \in Items : call[c].rows[i] > 0 /\ Active(i)}
            /\ call'[c].gone = call[c].gone
        BY <3>2, Locals DEF Filter, ItemTypeOK, ItemCall
      <4>2. QED BY <4>1 DEF Answers, Actives
    <3>3. QED BY <3>1, <3>2
  <2>4. Keyword(c) \/ SearchFails(c) => Answers(c)
    BY Locals DEF Keyword, SearchFails, Answers, Actives, ItemTypeOK, ItemCall
  <2>5. Plain(c) \/ HydrateSelect(c) \/ HydrateInstall(c)
    BY <1>3 DEF SearchStep, Plain
  <2>6. QED BY <1>3, <2>1, <2>2, <2>3, <2>4, <2>5, PlainSteps, IndexSteps DEF SearchStep
<1>4. QED BY <1>1, <1>2, <1>3

LEMMA GoneStays ==
  ASSUME ItemTypeOK, HandsFull, GoneInv, Next
  PROVE  GoneInv'
<1>1. Deleted \subseteq Deleted'
  BY StatusStays DEF Deleted
<1>2. Actives \cap Deleted = {}
  BY DEF Actives, Deleted, Active
<1>3. ASSUME NEW c \in Calls, Arrive(c) \/ WriterStep(c) \/ SearchStep(c)
      PROVE  GoneInv'
  <2>1. Answers(c) /\ Alone(c)
    BY <1>3, AnswerSteps
  <2>2. call'[c].gone \subseteq Deleted' /\ call'[c].found \cap call'[c].gone = {}
    BY <1>1, <1>2, <2>1 DEF GoneInv, Answers
  <2>3. \A d \in Calls \ {c} : call'[d].gone \subseteq Deleted' /\ call'[d].found \cap call'[d].gone = {}
    BY <1>1, <2>1 DEF GoneInv, Alone
  <2>4. QED BY <2>2, <2>3 DEF GoneInv
<1>4. ASSUME NEW swept \in SUBSET Items, Sweep(swept)
      PROVE  GoneInv'
  BY <1>1, <1>4, SweepSteps DEF GoneInv
<1>5. ASSUME NEW p \in Processes, Restart(p)
      PROVE  GoneInv'
  <2>1. \A c \in Calls : call'[c] = Returned \/ call'[c] = call[c]
    BY <1>5, RestartSteps
  <2>2. Returned.gone = Deleted /\ Returned.found = {}
    BY DEF Returned
  <2>3. QED BY <1>1, <2>1, <2>2 DEF GoneInv
<1>6. QED BY <1>3, <1>4, <1>5 DEF Next

(* A search never answers with an item deleted before the search began,    *)
(* however many processes hold a stale index (_search_from_candidates).    *)
THEOREM DeletedStayGone == Spec => []DeletedStaysGone
<1>1. Init => GoneInv
  BY DEF Init, GoneInv
<1>2. ItemTypeOK /\ HandsFull /\ GoneInv /\ [Next]_vars => GoneInv'
  <2>1. UNCHANGED vars /\ GoneInv => GoneInv'
    BY DEF vars, GoneInv, Deleted
  <2>2. QED BY <2>1, GoneStays
<1>3. GoneInv => DeletedStaysGone
  BY DEF GoneInv, DeletedStaysGone
<1>4. QED BY <1>1, <1>2, <1>3, IndexHolds, PTL DEF Spec, IndexInv

----------------------------------------------------------------------------
(* The history of an item: what it was, by version, and what an edit has   *)
(* read of it.                                                             *)
WasTyped ==
  /\ was \subseteq Items \X Nat \X (Contents \cup {None})
  /\ \A t \in was : row[t[1]].status # "none" /\ t[2] <= row[t[1]].version

WasOnce == \A t, u \in was : t[1] = u[1] /\ t[2] = u[2] => t = u

WasRead ==
  /\ \A i \in Items : row[i].status # "none" => <<i, row[i].version, row[i].content>> \in was
  /\ \A c \in Calls : call[c].pc = "write" => <<call[c].item, call[c].ver, call[c].old>> \in was

HistoryInv == WasTyped /\ WasOnce /\ WasRead /\ HistoryKept

(* The steps that add nothing to the history change no content.            *)
LEMMA HistoryStill ==
  ASSUME ItemTypeOK, HandsFull, HistoryInv, UNCHANGED <<was, prior, skipped>>,
         \A i \in Items : /\ row'[i].version = row[i].version /\ row'[i].content = row[i].content
                          /\ row[i].status # "none" <=> row'[i].status # "none",
         \A c \in Calls : call'[c].pc = "write" =>
           \/ call'[c] = call[c]
           \/ \E i \in Items : /\ row[i].status # "none" /\ call'[c].item = i
                               /\ call'[c].ver = row[i].version /\ call'[c].old = row[i].content
  PROVE  HistoryInv'
<1>1. WasTyped' /\ WasOnce'
  BY DEF HistoryInv, WasTyped, WasOnce
<1>2. WasRead'
  BY DEF HistoryInv, WasRead
<1>3. HistoryKept'
  BY DEF HistoryInv, HistoryKept, WasTyped
<1>4. QED BY <1>1, <1>2, <1>3 DEF HistoryInv

LEMMA InsertHistory ==
  ASSUME ItemTypeOK, HandsFull, HistoryInv, NEW c \in Calls, NEW i \in Items, Insert(c, i)
  PROVE  HistoryInv'
<1> DEFINE n == <<i, 1, call[c].says>>
<1>1. /\ row' = [row EXCEPT ![i] = [status |-> "active", content |-> call[c].says, version |-> 1]]
      /\ row[i].status = "none" /\ was' = was \cup {n} /\ UNCHANGED <<prior, skipped>>
  BY DEF Insert
<1>2. row'[i].status = "active" /\ row'[i].content = call[c].says /\ row'[i].version = 1
      /\ \A j \in Items \ {i} : row'[j] = row[j]
  BY <1>1 DEF ItemTypeOK
<1>3. \A t \in was : t[1] \in Items \ {i}
  BY <1>1 DEF HistoryInv, WasTyped
<1>4. n \in Items \X Nat \X (Contents \cup {None}) /\ n[1] = i /\ n[2] = 1
  BY Locals
<1>5. Alone(c) /\ call'[c].pc \in Writing
  <2>1. Writes(c, i)
    BY DEF Writes
  <2>2. QED BY <2>1, WriteSteps
<1> HIDE DEF n
<1>6. WasTyped'
  BY <1>1, <1>2, <1>3, <1>4 DEF HistoryInv, WasTyped
<1>7. WasOnce'
  BY <1>1, <1>3, <1>4 DEF HistoryInv, WasOnce
<1>8. WasRead'
  BY <1>1, <1>2, <1>5 DEF HistoryInv, WasRead, Alone, Writing, n
<1>9. HistoryKept'
  BY <1>1, <1>2, <1>3, <1>4 DEF HistoryInv, HistoryKept
<1>10. QED BY <1>6, <1>7, <1>8, <1>9 DEF HistoryInv

LEMMA EditHistory ==
  ASSUME ItemTypeOK, HandsFull, HistoryInv, NEW c \in Calls, EditWrite(c)
  PROVE  HistoryInv'
<1> DEFINE i == call[c].item  v == row[i].version  n == <<i, v + 1, call[c].says>>
           o == <<i, call[c].ver, call[c].old>>
<1>1. i \in Items /\ row[i].status # "none" /\ v \in Nat /\ o \in was
  BY DEF EditWrite, At, HandsFull, ItemTypeOK, MemoryRow, HistoryInv, WasRead
<1>2. /\ row' = [row EXCEPT ![i].content = call[c].says, ![i].version = v + 1]
      /\ was' = was \cup {n} /\ prior' = Snapshot(i, call[c].ver, call[c].old)
      /\ skipped' = IF call[c].ver # v THEN skipped \cup {<<i, v>>} ELSE skipped
  BY DEF EditWrite
<1>3. /\ row'[i].status = row[i].status /\ row'[i].version = v + 1 /\ row'[i].content = call[c].says
      /\ \A j \in Items \ {i} : row'[j] = row[j]
  BY <1>1, <1>2 DEF ItemTypeOK, MemoryRow
<1>4. n \in Items \X Nat \X (Contents \cup {None}) /\ n[1] = i /\ n[2] = v + 1
  BY <1>1, Locals
<1>5. Alone(c) /\ call'[c].pc \in Writing
  <2>1. Writes(c, i)
    BY DEF Writes
  <2>2. QED BY <1>1, <2>1, WriteSteps
<1>6. \A t \in was : t[1] \in Items /\ t[2] \in Nat /\ (t[1] = i => t[2] <= v)
  BY DEF HistoryInv, WasTyped
<1>7. o[1] = i /\ o[2] = call[c].ver
  OBVIOUS
<1>8. prior \subseteq prior' /\ prior' \subseteq was'
      /\ \E t \in prior' : t[1] = i /\ t[2] = call[c].ver
  BY <1>1, <1>2 DEF Snapshot, HistoryInv, HistoryKept
<1> HIDE DEF i, v, n, o
<1>9. WasTyped'
  <2>1. ASSUME NEW t \in was
        PROVE  row'[t[1]].status # "none" /\ t[2] <= row'[t[1]].version
    <3>1. row[t[1]].status # "none" /\ t[2] <= row[t[1]].version /\ t[1] \in Items /\ t[2] \in Nat
      BY <1>6 DEF HistoryInv, WasTyped
    <3>2. CASE t[1] = i
      BY <1>1, <1>3, <1>6, <3>1, <3>2
    <3>3. CASE t[1] # i
      BY <1>3, <3>1, <3>3
    <3>4. QED BY <3>2, <3>3
  <2>2. row'[n[1]].status # "none" /\ n[2] <= row'[n[1]].version
    BY <1>1, <1>3, <1>4
  <2>3. QED BY <1>2, <1>4, <2>1, <2>2 DEF HistoryInv, WasTyped
<1>10. WasOnce'
  BY <1>1, <1>2, <1>4, <1>6 DEF HistoryInv, WasOnce
<1>11. WasRead'
  <2>1. ASSUME NEW j \in Items, row'[j].status # "none"
        PROVE  <<j, row'[j].version, row'[j].content>> \in was'
    <3>1. CASE j = i
      BY <1>2, <1>3, <3>1 DEF n
    <3>2. CASE j # i
      <4>1. row'[j] = row[j]
        BY <1>3, <3>2
      <4>2. <<j, row[j].version, row[j].content>> \in was
        BY <2>1, <4>1 DEF HistoryInv, WasRead
      <4>3. was \subseteq was'
        BY <1>2
      <4>4. QED BY <4>1, <4>2, <4>3
    <3>3. QED BY <3>1, <3>2
  <2>2. ASSUME NEW d \in Calls, call'[d].pc = "write"
        PROVE  <<call'[d].item, call'[d].ver, call'[d].old>> \in was'
    <3>1. call'[d] = call[d]
      BY <1>5, <2>2 DEF Alone, Writing
    <3>2. QED BY <1>2, <2>2, <3>1 DEF HistoryInv, WasRead
  <2>3. QED BY <2>1, <2>2 DEF WasRead
<1>12. HistoryKept'
  <2>1. ASSUME NEW t \in was
        PROVE  \/ t[2] = row'[t[1]].version \/ t \in prior' \/ <<t[1], t[2]>> \in skipped'
    <3>1. \/ t[2] = row[t[1]].version \/ t \in prior' \/ <<t[1], t[2]>> \in skipped'
      BY <1>2, <1>8 DEF HistoryInv, HistoryKept
    <3>2. CASE t[1] # i
      BY <1>3, <1>6, <3>1, <3>2
    <3>3. CASE t[1] = i /\ t[2] = v /\ call[c].ver # v
      BY <1>2, <3>3
    <3>4. CASE t[1] = i /\ t[2] = v /\ call[c].ver = v
      <4>1. PICK u \in prior' : u[1] = i /\ u[2] = call[c].ver
        BY <1>8
      <4>2. u \in was
        BY <1>1, <1>2, <1>4, <1>8, <3>4, <4>1
      <4>3. u = t
        BY <3>4, <4>1, <4>2 DEF HistoryInv, WasOnce
      <4>4. QED BY <4>1, <4>3
    <3>5. QED BY <3>1, <3>2, <3>3, <3>4 DEF v
  <2>2. n[2] = row'[n[1]].version
    BY <1>3, <1>4
  <2>3. QED BY <1>2, <1>8, <2>1, <2>2 DEF HistoryKept
<1>13. QED BY <1>9, <1>10, <1>11, <1>12 DEF HistoryInv
LEMMA HistoryStays ==
  ASSUME ItemTypeOK, HandsFull, HistoryInv, Next
  PROVE  HistoryInv'
<1> DEFINE Same == \A i \in Items : /\ row'[i].version = row[i].version
                                    /\ row'[i].content = row[i].content
                                    /\ row[i].status # "none" <=> row'[i].status # "none"
           Reads(d) == call'[d].pc = "write" =>
             \/ call'[d] = call[d]
             \/ \E i \in Items : /\ row[i].status # "none" /\ call'[d].item = i
                                 /\ call'[d].ver = row[i].version /\ call'[d].old = row[i].content
<1>1. ASSUME UNCHANGED <<was, prior, skipped>>, Same, \A d \in Calls : Reads(d)
      PROVE  HistoryInv'
  BY <1>1, HistoryStill
<1>2. ASSUME NEW c \in Calls, Alone(c), UNCHANGED <<was, prior, skipped>>, Same, Reads(c)
      PROVE  HistoryInv'
  <2>1. \A d \in Calls : Reads(d)
    BY <1>2 DEF Alone
  <2>2. QED BY <1>1, <1>2, <2>1
<1>3. ASSUME NEW c \in Calls, Plain(c)
      PROVE  HistoryInv'
  <2>1. UNCHANGED <<row, was, prior, skipped>> /\ Alone(c)
    BY <1>3, PlainSteps
  <2>2. Reads(c)
    <3>1. CASE \E s \in Contents, i \in Items : EditRead(c, i, s)
      <4>1. PICK s \in Contents, i \in Items : EditRead(c, i, s)
        BY <3>1
      <4>2. row[i].status # "none" /\ call'[c].item = i /\ call'[c].ver = row[i].version
            /\ call'[c].old = row[i].content
        BY <4>1 DEF EditRead, Returned, ItemTypeOK
      <4>3. QED BY <4>2
    <3>2. CASE ~ \E s \in Contents, i \in Items : EditRead(c, i, s)
      <4>1. call'[c].pc # "write"
        BY <1>3, <3>2, PlainWrites
      <4>2. QED BY <4>1
    <3>3. QED BY <3>1, <3>2
  <2>3. QED BY <1>2, <2>1, <2>2
<1>4. ASSUME NEW c \in Calls, NEW i \in Items, Writes(c, i)
      PROVE  HistoryInv'
  <2>1. CASE SoftDelete(c, i) /\ Active(i)
    <3>1. row' = [row EXCEPT ![i] = [row[i] EXCEPT !.status = "soft_deleted"]]
          /\ UNCHANGED <<was, prior, skipped>> /\ row[i].status = "active"
      BY <2>1 DEF SoftDelete, Active, ItemTypeOK
    <3>2. [row[i] EXCEPT !.status = "soft_deleted"].version = row[i].version
          /\ [row[i] EXCEPT !.status = "soft_deleted"].content = row[i].content
          /\ [row[i] EXCEPT !.status = "soft_deleted"].status = "soft_deleted"
      BY DEF ItemTypeOK, MemoryRow
    <3>3. Same
      BY <3>1, <3>2 DEF ItemTypeOK
    <3>4. Alone(c) /\ call'[c].pc \in Writing
      BY <1>4, WriteSteps
    <3>5. Reads(c)
      BY <3>4 DEF Writing
    <3>6. QED BY <1>2, <3>1, <3>3, <3>4, <3>5
  <2>2. QED BY <1>4, <2>1, InsertHistory, EditHistory DEF Writes
<1>5. ASSUME NEW c \in Calls, WriteThrough(c) \/ Drop(c) \/ HydrateSelect(c) \/ HydrateInstall(c)
      PROVE  HistoryInv'
  <2>1. UNCHANGED <<row, was, prior, skipped>> /\ Alone(c) /\ call'[c].pc # "write"
    BY <1>5, IndexSteps
  <2>2. QED BY <1>2, <2>1
<1>6. ASSUME NEW swept \in SUBSET Items, Sweep(swept)
      PROVE  HistoryInv'
  <2>1. Same
    <3>1. \A i \in Items : row'[i] = IF i \in swept THEN [row[i] EXCEPT !.status = "soft_deleted"] ELSE row[i]
      BY <1>6 DEF Sweep
    <3>2. \A i \in Items : row[i] \in MemoryRow
      BY DEF ItemTypeOK
    <3>3. \A i \in swept : row[i].status = "active"
      BY <1>6, SweepSteps
    <3>4. ASSUME NEW i \in swept
          PROVE  /\ row'[i].version = row[i].version /\ row'[i].content = row[i].content
                 /\ row[i].status # "none" /\ row'[i].status # "none"
      <4>1. row'[i] = [row[i] EXCEPT !.status = "soft_deleted"] /\ row[i] \in MemoryRow
        BY <3>1, <3>2, <3>4
      <4>2. QED BY <3>3, <3>4, <4>1 DEF MemoryRow
    <3>5. QED BY <3>1, <3>4
  <2>2. UNCHANGED <<was, prior, skipped, call>>
    BY <1>6, SweepSteps
  <2>3. QED BY <1>1, <2>1, <2>2
<1>7. ASSUME NEW p \in Processes, Restart(p)
      PROVE  HistoryInv'
  <2>1. UNCHANGED <<row, was, prior, skipped>>
    BY <1>7, RestartSteps
  <2>2. ASSUME NEW d \in Calls
        PROVE  Reads(d)
    BY <1>7, RestartSteps DEF Returned
  <2>3. QED BY <1>1, <2>1, <2>2
<1>8. QED BY <1>3, <1>4, <1>5, <1>6, <1>7, Kinds

(* No version of an item is lost but those an edit based on an older one   *)
(* replaced, and memory_versions invents none (update_content).            *)
THEOREM HistoriesKept == Spec => []HistoryKept
<1>1. Init => HistoryInv
  <2> SUFFICES ASSUME Init PROVE HistoryInv
    OBVIOUS
  <2>1. PICK s \in Contents \ Secrets :
          /\ row = [i \in Items |-> IF i \in Stored THEN Stores(s) ELSE Absent]
          /\ was = {<<i, 1, Redacted(s)>> : i \in Stored}
    BY DEF Init
  <2>2. Redacted(s) \in Contents /\ Stored \subseteq Items
    BY RedactionIsStable, StoredAreItems
  <2>3. \A i \in Items : IF i \in Stored THEN /\ row[i].status # "none" /\ row[i].version = 1
                                             /\ row[i].content = Redacted(s)
                                        ELSE row[i].status = "none"
    BY <2>1 DEF Stores, Absent
  <2>4. WasTyped /\ WasOnce
    BY <2>1, <2>2, <2>3 DEF WasTyped, WasOnce
  <2>5. WasRead
    BY <2>1, <2>3 DEF WasRead, Init
  <2>6. HistoryKept
    BY <2>1, <2>2, <2>3 DEF HistoryKept, Init
  <2>7. QED BY <2>4, <2>5, <2>6 DEF HistoryInv
<1>2. ItemTypeOK /\ HandsFull /\ HistoryInv /\ [Next]_vars => HistoryInv'
  <2>1. UNCHANGED vars /\ HistoryInv => HistoryInv'
    BY DEF vars, HistoryInv, WasTyped, WasOnce, WasRead, HistoryKept
  <2>2. QED BY <2>1, HistoryStays
<1>3. QED BY <1>1, <1>2, IndexHolds, PTL DEF Spec, IndexInv, HistoryInv

----------------------------------------------------------------------------
(* A set of numbers has a least one.                                       *)
LEMMA Least ==
  ASSUME NEW T \in SUBSET Nat, T # {}
  PROVE  \E k \in T : \A j \in T : k <= j
<1>1. PICK R : R = {ss \in Nat \X Nat : ss[1] < ss[2]}
  OBVIOUS
<1>2. OpToRel(<, Nat) = R
  BY <1>1 DEF OpToRel
<1>3. IsWellFoundedOn(R, Nat)
  BY <1>2, NatLessThanWellFounded
<1>4. PICK k \in T : \A j \in T : ~ (<<j, k>> \in R)
  BY <1>3, WFMin
<1>5. ASSUME NEW j \in T
      PROVE  k <= j
  <2>1. k \in Nat /\ j \in Nat
    OBVIOUS
  <2>2. <<j, k>> \in Nat \X Nat /\ <<j, k>>[1] = j /\ <<j, k>>[2] = k
    BY <2>1
  <2>3. ~ (j < k)
    <3>1. SUFFICES ASSUME j < k PROVE <<j, k>> \in R
      BY <1>4
    <3>2. QED BY <1>1, <2>2, <3>1
  <2>4. QED BY <2>1, <2>3
<1>6. QED BY <1>5

----------------------------------------------------------------------------
(* A list, whatever it holds.                                              *)
IsList(s) == Len(s) \in Nat /\ s = [n \in 1 .. Len(s) |-> s[n]]

LEMMA ListIs ==
  ASSUME NEW s, IsList(s)
  PROVE  DOMAIN s = 1 .. Len(s) /\ s \in Seq({s[n] : n \in 1 .. Len(s)})
<1> DEFINE N == Len(s)
           T == {s[n] : n \in 1 .. N}
<1>1. N \in Nat /\ s = [n \in 1 .. N |-> s[n]]
  BY DEF IsList
<1>2. \A n \in 1 .. N : s[n] \in T
  OBVIOUS
<1> HIDE DEF N, T
<1>3. DOMAIN s = 1 .. N
  BY <1>1
<1>4. s \in [1 .. N -> T]
  BY <1>1, <1>2
<1>5. s \in Seq(T)
  BY <1>1, <1>4
<1>6. QED BY <1>3, <1>5 DEF N, T

LEMMA FunctionIsList ==
  ASSUME NEW n \in Nat, NEW f, f = [k \in 1 .. n |-> f[k]]
  PROVE  IsList(f) /\ Len(f) = n /\ DOMAIN f = 1 .. n
<1> DEFINE T == {f[k] : k \in 1 .. n}
<1>1. \A k \in 1 .. n : f[k] \in T
  OBVIOUS
<1> HIDE DEF T
<1>2. f \in [1 .. n -> T]
  BY <1>1
<1>3. f \in Seq(T) /\ Len(f) = n
  BY <1>2
<1>4. QED BY <1>3 DEF IsList

LEMMA SameLists ==
  ASSUME NEW s, IsList(s), NEW t, IsList(t), Len(s) = Len(t),
         \A n \in 1 .. Len(s) : s[n] = t[n]
  PROVE  s = t
BY Zenon DEF IsList

LEMMA Joined ==
  ASSUME NEW s, IsList(s), NEW t, IsList(t)
  PROVE  /\ IsList(s \o t) /\ Len(s \o t) = Len(s) + Len(t)
         /\ \A n \in 1 .. Len(s) : (s \o t)[n] = s[n]
         /\ \A n \in 1 .. Len(t) : (s \o t)[Len(s) + n] = t[n]
<1> DEFINE S == {s[n] : n \in 1 .. Len(s)} \cup {t[n] : n \in 1 .. Len(t)}
           u == s \o t
<1>1. s \in Seq(S) /\ t \in Seq(S)
  <2>1. s \in Seq({s[n] : n \in 1 .. Len(s)}) /\ t \in Seq({t[n] : n \in 1 .. Len(t)})
    BY ListIs
  <2>2. {s[n] : n \in 1 .. Len(s)} \subseteq S /\ {t[n] : n \in 1 .. Len(t)} \subseteq S
    OBVIOUS
  <2> HIDE DEF S
  <2>3. QED BY <2>1, <2>2, SeqMonotonic
<1> HIDE DEF S
<1>2. /\ u \in Seq(S) /\ Len(u) = Len(s) + Len(t)
      /\ \A i \in 1 .. Len(s) + Len(t) :
           u[i] = IF i <= Len(s) THEN s[i] ELSE t[i - Len(s)]
  BY <1>1, ConcatProperties
<1> HIDE DEF u
<1>3. Len(s) \in Nat /\ Len(t) \in Nat
  BY DEF IsList
<1>4. IsList(u)
  BY <1>2, <1>3, LenProperties DEF IsList
<1>5. \A n \in 1 .. Len(s) : u[n] = s[n]
  BY <1>2, <1>3
<1>6. ASSUME NEW n \in 1 .. Len(t)
      PROVE  u[Len(s) + n] = t[n]
  <2>1. Len(s) + n \in 1 .. Len(s) + Len(t) /\ ~ (Len(s) + n <= Len(s)) /\ (Len(s) + n) - Len(s) = n
    BY <1>3
  <2>2. QED BY <1>2, <2>1
<1>7. QED BY <1>2, <1>4, <1>5, <1>6 DEF u

Least2(a, b) == IF a < b THEN a ELSE b

LEMMA TakeIs ==
  ASSUME NEW s, IsList(s), NEW k \in Nat
  PROVE  /\ IsList(Take(s, k)) /\ Len(Take(s, k)) = Least2(Len(s), k)
         /\ \A n \in 1 .. Least2(Len(s), k) : Take(s, k)[n] = s[n]
         /\ Len(s) <= k => Take(s, k) = s
<1> DEFINE S == {s[n] : n \in 1 .. Len(s)}
           m == Least2(Len(s), k)
           t == Take(s, k)
<1>1. s \in Seq(S) /\ Len(s) \in Nat
  BY ListIs DEF IsList
<1> HIDE DEF S
<1>2. m \in Nat /\ m <= Len(s)
  BY <1>1 DEF Least2
<1>3. t = SubSeq(s, 1, m)
  BY DEF Take, Least2
<1>4. t \in Seq(S) /\ Len(t) = m /\ \A n \in 1 .. m : t[n] = s[n]
  <2> HIDE DEF m
  <2>1. 1 \in 1 .. Len(s) + 1 /\ m \in 1 - 1 .. Len(s)
    BY <1>1, <1>2
  <2>2. /\ SubSeq(s, 1, m) \in Seq(S) /\ Len(SubSeq(s, 1, m)) = m
        /\ \A i \in 1 .. m : SubSeq(s, 1, m)[i] = s[i]
    BY <1>1, <1>2, <2>1
  <2>3. QED BY <1>3, <2>2
<1> HIDE DEF t
<1>5. IsList(t)
  BY <1>2, <1>4, LenProperties DEF IsList
<1>6. Len(s) <= k => m = Len(s)
  BY <1>1 DEF Least2
<1>7. ASSUME Len(s) <= k
      PROVE  t = s
  <2> HIDE DEF m
  <2>1. QED BY <1>4, <1>5, <1>6, <1>7, SameLists
<1>8. QED BY <1>4, <1>5, <1>7 DEF t

----------------------------------------------------------------------------
(* Positions are in a total order.                                         *)
LEMMA TotalOrder ==
  ASSUME NEW W \in SUBSET Nat, NEW key \in [W -> Int]
  PROVE  /\ \A i \in W : NotAfter(key, i, i)
         /\ \A i, j \in W : NotAfter(key, i, j) \/ NotAfter(key, j, i)
         /\ \A i, j \in W : NotAfter(key, i, j) /\ NotAfter(key, j, i) => i = j
         /\ \A i, j, l \in W : NotAfter(key, i, j) /\ NotAfter(key, j, l) => NotAfter(key, i, l)
<1>1. \A i \in W : i \in Int /\ key[i] \in Int
  OBVIOUS
<1>2. QED BY <1>1 DEF NotAfter

(* The positions of a set have different ranks, which are all there are,   *)
(* in their order.                                                         *)
LEMMA RanksOf ==
  ASSUME NEW W \in SUBSET Nat, IsFiniteSet(W), NEW key \in [W -> Int]
  PROVE  /\ Cardinality(W) \in Nat
         /\ \A i \in W : Rank(W, key, i) \in 1 .. Cardinality(W)
         /\ \A i, j \in W : Rank(W, key, i) <= Rank(W, key, j) <=> NotAfter(key, i, j)
         /\ \A i, j \in W : Rank(W, key, i) = Rank(W, key, j) => i = j
         /\ \A k \in 1 .. Cardinality(W) : \E i \in W : Rank(W, key, i) = k
<1> DEFINE Upto(i) == {m \in W : NotAfter(key, m, i)}
           R(i) == Rank(W, key, i)
           n == Cardinality(W)
<1>1. n \in Nat
  BY FS_CardinalityType
<1>2. ASSUME NEW i \in W
      PROVE  IsFiniteSet(Upto(i)) /\ R(i) \in 1 .. n /\ R(i) = Cardinality(Upto(i))
  <2>1. Upto(i) \in SUBSET W /\ i \in Upto(i)
    BY TotalOrder
  <2>2. IsFiniteSet(Upto(i)) /\ Cardinality(Upto(i)) <= n
    BY <2>1, FS_Subset
  <2>3. Cardinality(Upto(i)) \in Nat /\ Cardinality(Upto(i)) # 0
    BY <2>1, <2>2, FS_CardinalityType, FS_EmptySet
  <2>4. QED BY <1>1, <2>2, <2>3 DEF Rank
<1>3. ASSUME NEW i \in W, NEW j \in W, NotAfter(key, i, j)
      PROVE  R(i) <= R(j)
  <2>1. Upto(i) \in SUBSET Upto(j)
    BY <1>3, TotalOrder
  <2>2. Cardinality(Upto(i)) <= Cardinality(Upto(j))
    BY <1>2, <2>1, FS_Subset
  <2>3. QED BY <1>2, <2>2
<1>4. ASSUME NEW i \in W, NEW j \in W, NotAfter(key, i, j), R(i) = R(j)
      PROVE  i = j
  <2>1. Upto(i) \in SUBSET Upto(j)
    BY <1>4, TotalOrder
  <2>2. Cardinality(Upto(j)) = Cardinality(Upto(i))
    BY <1>2, <1>4
  <2>3. Upto(i) = Upto(j)
    BY <1>2, <2>1, <2>2, FS_Subset
  <2>4. j \in Upto(i)
    BY <2>3, TotalOrder
  <2>5. NotAfter(key, j, i)
    BY <2>4
  <2>6. QED BY <1>4, <2>5, TotalOrder
<1>5. \A i, j \in W : R(i) = R(j) => i = j
  BY <1>4, TotalOrder, Zenon
<1>6. ASSUME NEW i \in W, NEW j \in W
      PROVE  R(i) <= R(j) <=> NotAfter(key, i, j)
  <2>0. R(i) \in 1 .. n /\ R(j) \in 1 .. n
    BY <1>2
  <2> HIDE DEF R, n
  <2>1. R(i) \in Nat /\ R(j) \in Nat
    BY <1>1, <2>0
  <2>2. CASE NotAfter(key, i, j)
    BY <1>3, <2>2
  <2>3. CASE ~ NotAfter(key, i, j)
    <3>1. NotAfter(key, j, i) /\ i # j
      BY <2>3, TotalOrder
    <3>2. R(j) <= R(i) /\ R(j) # R(i)
      BY <1>3, <1>5, <3>1
    <3>3. QED BY <2>1, <2>3, <3>2
  <2>4. QED BY <2>2, <2>3
<1>7. \A k \in 1 .. n : \E i \in W : R(i) = k
  <2> DEFINE f == [i \in W |-> R(i)]
  <2>0. f \in [W -> 1 .. n] /\ \A i \in W : f[i] = R(i)
    BY <1>2
  <2> HIDE DEF f
  <2>1. f \in Injection(W, 1 .. n)
    BY <1>5, <2>0 DEF Injection, IsInjective
  <2>2. IsFiniteSet(1 .. n) /\ Cardinality(1 .. n) = n
    BY <1>1, FS_Interval
  <2>3. f \in Surjection(W, 1 .. n)
    BY <2>1, <2>2, FS_Injection
  <2>4. QED BY <2>0, <2>3 DEF Surjection
<1>8. QED BY <1>1, <1>2, <1>5, <1>6, <1>7

(* The order of a set of positions has each at its rank.                   *)
LEMMA OrderIs ==
  ASSUME NEW W \in SUBSET Nat, IsFiniteSet(W), NEW key \in [W -> Int]
  PROVE  /\ \A k \in 1 .. Cardinality(W) :
              Order(W, key)[k] \in W /\ Rank(W, key, Order(W, key)[k]) = k
         /\ \A i \in W : Order(W, key)[Rank(W, key, i)] = i
<1> DEFINE n == Cardinality(W)
           Nth(k) == CHOOSE i \in W : Rank(W, key, i) = k
<1>1. ASSUME NEW k \in 1 .. n
      PROVE  Nth(k) \in W /\ Rank(W, key, Nth(k)) = k
  BY RanksOf
<1>2. \A k \in 1 .. n : Order(W, key)[k] = Nth(k)
  BY DEF Order
<1> HIDE DEF Nth, n
<1>3. ASSUME NEW i \in W
      PROVE  Order(W, key)[Rank(W, key, i)] = i
  <2>1. Rank(W, key, i) \in 1 .. n
    BY RanksOf DEF n
  <2>2. Nth(Rank(W, key, i)) \in W /\ Rank(W, key, Nth(Rank(W, key, i))) = Rank(W, key, i)
    BY <1>1, <2>1
  <2>3. Nth(Rank(W, key, i)) = i
    <3>1. \A h, j \in W : Rank(W, key, h) = Rank(W, key, j) => h = j
      BY RanksOf
    <3>2. QED BY <2>2, <3>1, Zenon
  <2>4. QED BY <1>2, <2>1, <2>3
<1>4. QED BY <1>1, <1>2, <1>3 DEF n

(* Some of a list, arranged: each once, in the order of their ranks.       *)
LEMMA ArrangedIs ==
  ASSUME NEW s, IsList(s), NEW W \in SUBSET (1 .. Len(s)), NEW key \in [W -> Int]
  PROVE  /\ IsFiniteSet(W) /\ W \in SUBSET Nat /\ Cardinality(W) \in Nat
         /\ IsList(Arranged(s, W, key)) /\ Len(Arranged(s, W, key)) = Cardinality(W)
         /\ \A k \in 1 .. Cardinality(W) : Arranged(s, W, key)[k] = s[Order(W, key)[k]]
         /\ \A i \in W : Rank(W, key, i) \in 1 .. Cardinality(W)
                         /\ Arranged(s, W, key)[Rank(W, key, i)] = s[i]
         /\ DOMAIN Arranged(s, W, key) = 1 .. Cardinality(W)
<1> DEFINE n == Cardinality(W)
           a == Arranged(s, W, key)
<1>1. Len(s) \in Nat
  BY DEF IsList
<1>2. IsFiniteSet(W) /\ W \in SUBSET Nat
  <2>1. IsFiniteSet(1 .. Len(s))
    BY <1>1, FS_Interval
  <2>2. QED BY <1>1, <2>1, FS_Subset
<1>3. n \in Nat
  BY <1>2, FS_CardinalityType
<1>4. a = [k \in 1 .. n |-> s[Order(W, key)[k]]]
  BY DEF Arranged
<1> HIDE DEF a
<1>5. a = [k \in 1 .. n |-> a[k]] /\ \A k \in 1 .. n : a[k] = s[Order(W, key)[k]]
  <2> HIDE DEF n
  <2>1. QED BY <1>4
<1>6. IsList(a) /\ Len(a) = n /\ DOMAIN a = 1 .. n
  <2> HIDE DEF n
  <2>1. QED BY <1>3, <1>5, FunctionIsList
<1>7. ASSUME NEW i \in W
      PROVE  Rank(W, key, i) \in 1 .. n /\ a[Rank(W, key, i)] = s[i]
  <2>1. Rank(W, key, i) \in 1 .. n /\ Order(W, key)[Rank(W, key, i)] = i
    BY <1>2, RanksOf, OrderIs
  <2>2. QED BY <1>5, <2>1
<1>8. QED BY <1>2, <1>3, <1>5, <1>6, <1>7 DEF a

(* A list ranked: the same records, each once.                             *)
LEMMA RankedIs ==
  ASSUME NEW s, IsList(s), NEW key \in [DOMAIN s -> Int]
  PROVE  /\ DOMAIN s = 1 .. Len(s) /\ Len(s) \in Nat
         /\ IsList(Ranked(s, key)) /\ Len(Ranked(s, key)) = Len(s)
         /\ \A k \in 1 .. Len(s) : /\ Order(DOMAIN s, key)[k] \in DOMAIN s
                                   /\ Rank(DOMAIN s, key, Order(DOMAIN s, key)[k]) = k
                                   /\ Ranked(s, key)[k] = s[Order(DOMAIN s, key)[k]]
         /\ \A i \in DOMAIN s : Rank(DOMAIN s, key, i) \in 1 .. Len(s)
                                /\ Ranked(s, key)[Rank(DOMAIN s, key, i)] = s[i]
<1>1. DOMAIN s = 1 .. Len(s) /\ Len(s) \in Nat
  BY ListIs DEF IsList
<1>2. Cardinality(DOMAIN s) = Len(s)
  <2>1. 1 \in Int /\ Len(s) \in Int
    BY <1>1
  <2>2. Cardinality(1 .. Len(s)) = IF 1 > Len(s) THEN 0 ELSE Len(s) - 1 + 1
    BY <2>1, FS_Interval
  <2>3. QED BY <1>1, <2>2
<1>3. Ranked(s, key) = Arranged(s, DOMAIN s, key)
  BY DEF Ranked
<1>4. \A k \in 1 .. Len(s) : /\ Order(DOMAIN s, key)[k] \in DOMAIN s
                             /\ Rank(DOMAIN s, key, Order(DOMAIN s, key)[k]) = k
  <2>1. DOMAIN s \in SUBSET Nat /\ IsFiniteSet(DOMAIN s)
    BY <1>1, FS_Interval
  <2>2. QED BY <1>2, <2>1, OrderIs
<1>5. DOMAIN s \in SUBSET (1 .. Len(s))
  BY <1>1
<1>6. /\ IsList(Arranged(s, DOMAIN s, key))
      /\ Len(Arranged(s, DOMAIN s, key)) = Cardinality(DOMAIN s)
      /\ \A k \in 1 .. Cardinality(DOMAIN s) :
           Arranged(s, DOMAIN s, key)[k] = s[Order(DOMAIN s, key)[k]]
      /\ \A i \in DOMAIN s :
           Rank(DOMAIN s, key, i) \in 1 .. Cardinality(DOMAIN s)
           /\ Arranged(s, DOMAIN s, key)[Rank(DOMAIN s, key, i)] = s[i]
  BY <1>5, ArrangedIs
<1>7. /\ IsList(Ranked(s, key)) /\ Len(Ranked(s, key)) = Len(s)
      /\ \A k \in 1 .. Len(s) : Ranked(s, key)[k] = s[Order(DOMAIN s, key)[k]]
      /\ \A i \in DOMAIN s : Rank(DOMAIN s, key, i) \in 1 .. Len(s)
                             /\ Ranked(s, key)[Rank(DOMAIN s, key, i)] = s[i]
  BY <1>2, <1>3, <1>6, Zenon
<1>8. QED BY <1>1, <1>4, <1>7

(* All of a list is the list, and a part of it has each record once.       *)
LEMMA ChosenIs ==
  ASSUME NEW s, IsList(s), NEW W \in SUBSET (1 .. Len(s))
  PROVE  /\ IsList(Chosen(s, W)) /\ DOMAIN Chosen(s, W) = 1 .. Len(Chosen(s, W))
         /\ \E at \in [1 .. Len(Chosen(s, W)) -> W] :
              /\ \A k \in 1 .. Len(Chosen(s, W)) : Chosen(s, W)[k] = s[at[k]]
              /\ \A k, l \in 1 .. Len(Chosen(s, W)) : at[k] = at[l] => k = l
              /\ \A i \in W : \E k \in 1 .. Len(Chosen(s, W)) : at[k] = i
<1> DEFINE key == [n \in W |-> 0]
           n == Cardinality(W)
           at == [k \in 1 .. n |-> Order(W, key)[k]]
<1>1. key \in [W -> Int]
  OBVIOUS
<1> HIDE DEF key
<1>2. Chosen(s, W) = Arranged(s, W, key)
  BY DEF Chosen, key
<1>3. /\ IsFiniteSet(W) /\ W \in SUBSET Nat /\ n \in Nat
      /\ IsList(Chosen(s, W)) /\ Len(Chosen(s, W)) = n /\ DOMAIN Chosen(s, W) = 1 .. n
      /\ \A k \in 1 .. n : Chosen(s, W)[k] = s[Order(W, key)[k]]
  BY <1>1, <1>2, ArrangedIs
<1>4. /\ \A k \in 1 .. n : Order(W, key)[k] \in W /\ Rank(W, key, Order(W, key)[k]) = k
      /\ \A i \in W : Rank(W, key, i) \in 1 .. n /\ Order(W, key)[Rank(W, key, i)] = i
  BY <1>1, <1>3, OrderIs, RanksOf
<1> HIDE DEF n
<1>5. at \in [1 .. n -> W] /\ \A k \in 1 .. n : at[k] = Order(W, key)[k]
  BY <1>4
<1> HIDE DEF at
<1>6. /\ \A k \in 1 .. n : Chosen(s, W)[k] = s[at[k]]
      /\ \A k, l \in 1 .. n : at[k] = at[l] => k = l
  <2>1. \A k \in 1 .. n : Rank(W, key, at[k]) = k
    BY <1>4, <1>5
  <2>2. QED BY <1>3, <1>5, <2>1
<1>7. \A i \in W : \E k \in 1 .. n : at[k] = i
  BY <1>4, <1>5
<1>8. \E p \in [1 .. n -> W] :
        /\ \A k \in 1 .. n : Chosen(s, W)[k] = s[p[k]]
        /\ \A k, l \in 1 .. n : p[k] = p[l] => k = l
        /\ \A i \in W : \E k \in 1 .. n : p[k] = i
  BY <1>5, <1>6, <1>7
<1>9. Len(Chosen(s, W)) = n
  BY <1>3
<1>10. QED BY <1>3, <1>8, <1>9

LEMMA AllChosen ==
  ASSUME NEW s, IsList(s)
  PROVE  Chosen(s, 1 .. Len(s)) = s
<1> DEFINE W == 1 .. Len(s)
           key == [n \in W |-> 0]
           c == Chosen(s, W)
<1>1. key \in [W -> Int] /\ \A n \in W : key[n] = 0
  OBVIOUS
<1> HIDE DEF key
<1>2. Len(s) \in Nat
  BY DEF IsList
<1>3. c = Arranged(s, W, key)
  BY DEF Chosen, key
<1>4. /\ IsFiniteSet(W) /\ W \in SUBSET Nat
      /\ IsList(c) /\ Len(c) = Cardinality(W)
      /\ \A i \in W : c[Rank(W, key, i)] = s[i]
  BY <1>1, <1>3, ArrangedIs
<1>5. ASSUME NEW n \in Nat
      PROVE  Cardinality(1 .. n) = n
  <2>1. 1 \in Int /\ n \in Int
    OBVIOUS
  <2>2. Cardinality(1 .. n) = IF 1 > n THEN 0 ELSE n - 1 + 1
    BY <2>1, FS_Interval
  <2>3. QED BY <2>2
<1>6. ASSUME NEW i \in W
      PROVE  Rank(W, key, i) = i
  <2>1. i \in Nat /\ i <= Len(s) /\ \A m \in W : m \in Int /\ (NotAfter(key, m, i) <=> m <= i)
    BY <1>1, <1>2 DEF NotAfter
  <2>2. {m \in W : NotAfter(key, m, i)} = 1 .. i
    BY <1>2, <2>1
  <2>3. QED BY <1>5, <2>1, <2>2 DEF Rank
<1> HIDE DEF c
<1>7. Len(c) = Len(s) /\ \A n \in 1 .. Len(s) : c[n] = s[n]
  BY <1>2, <1>4, <1>5, <1>6
<1>8. c = s
  BY <1>4, <1>7, SameLists
<1>9. QED BY <1>8 DEF c

(* Positions of the same rank are the same.                                *)
LEMMA RanksDiffer ==
  ASSUME NEW v \in Nat, NEW key \in [1 .. v -> Int], NEW a \in 1 .. v, NEW b \in 1 .. v,
         Rank(1 .. v, key, a) = Rank(1 .. v, key, b)
  PROVE  a = b
<1> DEFINE W == 1 .. v
<1>1. W \in SUBSET Nat /\ IsFiniteSet(W) /\ key \in [W -> Int]
  BY FS_Interval
<1> HIDE DEF W
<1>2. \A i, j \in W : Rank(W, key, i) = Rank(W, key, j) => i = j
  BY <1>1, RanksOf
<1>3. QED BY <1>2, Zenon DEF W

(* Positions taken into a longer list in their order, the first k of which *)
(* are all among them.                                                     *)
Keeps(e, m, n, here, there, k) ==
  /\ {m, n, k} \subseteq Nat /\ here \in [1 .. m -> Int] /\ there \in [1 .. n -> Int]
  /\ e \in [1 .. m -> 1 .. n]
  /\ \A i, j \in 1 .. m : NotAfter(here, i, j) <=> NotAfter(there, e[i], e[j])
  /\ \A x \in 1 .. n : Rank(1 .. n, there, x) <= k => \E i \in 1 .. m : e[i] = x

(* They have the rank there that they have here.                           *)
LEMMA Embeds ==
  ASSUME NEW m, NEW n, NEW k, NEW here, NEW there, NEW e, Keeps(e, m, n, here, there, k)
  PROVE  \A i \in 1 .. m : Rank(1 .. n, there, e[i]) <= k =>
           Rank(1 .. m, here, i) = Rank(1 .. n, there, e[i])
<1>0. /\ m \in Nat /\ n \in Nat /\ k \in Nat
      /\ here \in [1 .. m -> Int] /\ there \in [1 .. n -> Int] /\ e \in [1 .. m -> 1 .. n]
      /\ \A i, j \in 1 .. m : NotAfter(here, i, j) <=> NotAfter(there, e[i], e[j])
      /\ \A x \in 1 .. n : Rank(1 .. n, there, x) <= k => \E i \in 1 .. m : e[i] = x
  BY DEF Keeps
<1>1. SUFFICES ASSUME NEW i \in 1 .. m, Rank(1 .. n, there, e[i]) <= k
               PROVE  Rank(1 .. m, here, i) = Rank(1 .. n, there, e[i])
  OBVIOUS
<1> DEFINE S == {j \in 1 .. m : NotAfter(here, j, i)}
           T == {x \in 1 .. n : NotAfter(there, x, e[i])}
           f == [j \in S |-> e[j]]
<1>2. 1 .. m \in SUBSET Nat /\ 1 .. n \in SUBSET Nat /\ IsFiniteSet(1 .. m) /\ IsFiniteSet(1 .. n)
  BY <1>0, FS_Interval
<1>3. \A h, j \in 1 .. m : e[h] = e[j] => h = j
  <2>1. SUFFICES ASSUME NEW h \in 1 .. m, NEW j \in 1 .. m, e[h] = e[j] PROVE h = j
    OBVIOUS
  <2>2. NotAfter(there, e[h], e[j]) /\ NotAfter(there, e[j], e[h])
    BY <1>0, <1>2, <2>1, TotalOrder
  <2>3. NotAfter(here, h, j) /\ NotAfter(here, j, h)
    BY <1>0, <2>2
  <2>4. QED BY <1>0, <1>2, <2>3, TotalOrder
<1>4. f \in [S -> T] /\ \A j \in S : f[j] = e[j]
  BY <1>0
<1>5. ASSUME NEW x \in T
      PROVE  \E j \in S : f[j] = x
  <2>1. x \in 1 .. n /\ NotAfter(there, x, e[i])
    OBVIOUS
  <2>2. Rank(1 .. n, there, x) <= Rank(1 .. n, there, e[i])
    BY <1>0, <1>2, <2>1, RanksOf
  <2>3. Rank(1 .. n, there, x) \in 1 .. Cardinality(1 .. n) /\ Rank(1 .. n, there, e[i]) \in 1 .. Cardinality(1 .. n)
    BY <1>0, <1>2, <2>1, RanksOf
  <2>4. Rank(1 .. n, there, x) <= k
    BY <1>0, <1>1, <2>2, <2>3
  <2>5. PICK j \in 1 .. m : e[j] = x
    BY <1>0, <2>1, <2>4
  <2>6. j \in S
    BY <1>0, <2>1, <2>5
  <2>7. QED BY <1>4, <2>5, <2>6
<1>6. S \in SUBSET (1 .. m) /\ IsFiniteSet(S)
  BY <1>2, FS_Subset
<1> HIDE DEF f
<1>7. f \in Bijection(S, T)
  <2>1. \A h, j \in S : f[h] = f[j] => h = j
    BY <1>3, <1>4
  <2> HIDE DEF S, T
  <2>2. f \in Injection(S, T) /\ f \in Surjection(S, T)
    BY <1>4, <1>5, <2>1 DEF Injection, IsInjective, Surjection
  <2>3. QED BY <2>2 DEF Bijection
<1>8. ExistsBijection(S, T)
  BY <1>7 DEF ExistsBijection
<1>9. Cardinality(T) = Cardinality(S)
  BY <1>6, <1>8, FS_Bijection
<1>10. QED BY <1>9 DEF Rank

(* A list of which a part comes before it in another and has its ranks.    *)
LEMMA RankInPart ==
  ASSUME NEW g \in Nat, NEW n \in Nat, g <= n, NEW part \in [1 .. g -> Int],
         NEW whole \in [1 .. n -> Int], \A i \in 1 .. g : part[i] = whole[i]
  PROVE  \A i \in 1 .. g : Rank(1 .. g, part, i) <= Rank(1 .. n, whole, i)
<1>1. SUFFICES ASSUME NEW i \in 1 .. g
               PROVE  Rank(1 .. g, part, i) <= Rank(1 .. n, whole, i)
  OBVIOUS
<1> DEFINE S == {m \in 1 .. g : NotAfter(part, m, i)}
           T == {m \in 1 .. n : NotAfter(whole, m, i)}
<1>2. S \in SUBSET T
  BY DEF NotAfter
<1>3. T \in SUBSET (1 .. n) /\ IsFiniteSet(1 .. n)
  BY FS_Interval
<1>4. IsFiniteSet(T)
  BY <1>3, FS_Subset
<1> HIDE DEF S, T
<1>5. Cardinality(S) <= Cardinality(T)
  BY <1>2, <1>4, FS_Subset
<1>6. QED BY <1>5 DEF Rank, S, T

Scores(s) == [n \in DOMAIN s |-> Score(s[n])]
Scored(s) == \A n \in 1 .. Len(s) : Score(s[n]) \in Int

LEMMA ScoresAre ==
  ASSUME NEW s, IsList(s), Scored(s)
  PROVE  /\ DOMAIN s = 1 .. Len(s) /\ Len(s) \in Nat
         /\ Scores(s) \in [1 .. Len(s) -> Int] /\ \A n \in 1 .. Len(s) : Scores(s)[n] = Score(s[n])
         /\ IsList(Ranked(s, Scores(s))) /\ Len(Ranked(s, Scores(s))) = Len(s)
         /\ \A k \in 1 .. Len(s) : /\ Order(1 .. Len(s), Scores(s))[k] \in 1 .. Len(s)
                                   /\ Rank(1 .. Len(s), Scores(s), Order(1 .. Len(s), Scores(s))[k]) = k
                                   /\ Ranked(s, Scores(s))[k] = s[Order(1 .. Len(s), Scores(s))[k]]
         /\ \A i \in 1 .. Len(s) : Rank(1 .. Len(s), Scores(s), i) \in 1 .. Len(s)
                                /\ Ranked(s, Scores(s))[Rank(1 .. Len(s), Scores(s), i)] = s[i]
<1>1. DOMAIN s = 1 .. Len(s) /\ Len(s) \in Nat
  BY ListIs DEF IsList
<1>2. Scores(s) \in [1 .. Len(s) -> Int] /\ \A n \in 1 .. Len(s) : Scores(s)[n] = Score(s[n])
  BY <1>1 DEF Scores, Scored
<1>3. QED BY <1>1, <1>2, RankedIs

LEMMA RerankIs ==
  ASSUME NEW s, IsList(s), Scored(s), NEW k \in Nat
  PROVE  /\ Rerank(s, k) = Take(Ranked(s, Scores(s)), k)
         /\ IsList(Rerank(s, k)) /\ Len(Rerank(s, k)) = Least2(Len(s), k)
         /\ Least2(Len(s), k) \in Nat /\ Least2(Len(s), k) <= Len(s)
         /\ \A n \in 1 .. Least2(Len(s), k) :
              /\ Order(1 .. Len(s), Scores(s))[n] \in 1 .. Len(s)
              /\ Rank(1 .. Len(s), Scores(s), Order(1 .. Len(s), Scores(s))[n]) = n
              /\ Rerank(s, k)[n] = s[Order(1 .. Len(s), Scores(s))[n]]
<1>1. Rerank(s, k) = Take(Ranked(s, Scores(s)), k)
  BY DEF Rerank, Scores
<1> DEFINE t == Ranked(s, Scores(s))
           m == Least2(Len(s), k)
<1>2. Len(s) \in Nat /\ IsList(t) /\ Len(t) = Len(s)
  BY ScoresAre
<1>3. m \in Nat /\ m <= Len(s)
  BY <1>2 DEF Least2
<1>4. IsList(Take(t, k)) /\ Len(Take(t, k)) = m /\ \A n \in 1 .. m : Take(t, k)[n] = t[n]
  BY <1>2, TakeIs
<1>5. ASSUME NEW n \in 1 .. m
      PROVE  /\ Order(1 .. Len(s), Scores(s))[n] \in 1 .. Len(s)
             /\ Rank(1 .. Len(s), Scores(s), Order(1 .. Len(s), Scores(s))[n]) = n
             /\ Rerank(s, k)[n] = s[Order(1 .. Len(s), Scores(s))[n]]
  <2>1. n \in 1 .. Len(s)
    BY <1>2, <1>3
  <2>2. t[n] = s[Order(1 .. Len(s), Scores(s))[n]]
    BY <2>1, ScoresAre
  <2>3. QED BY <1>1, <1>4, <2>1, <2>2, ScoresAre
<1>6. QED BY <1>1, <1>3, <1>4, <1>5

LEMMA JoinedScores ==
  ASSUME NEW s, IsList(s), Scored(s), NEW t, IsList(t), Scored(t)
  PROVE  /\ IsList(s \o t) /\ Scored(s \o t) /\ Len(s \o t) = Len(s) + Len(t)
         /\ \A n \in 1 .. Len(s) : Scores(s \o t)[n] = Score(s[n])
         /\ \A n \in 1 .. Len(t) : Scores(s \o t)[Len(s) + n] = Score(t[n])
<1> DEFINE u == s \o t
<1>1. Len(s) \in Nat /\ Len(t) \in Nat
  BY DEF IsList
<1>2. /\ IsList(u) /\ Len(u) = Len(s) + Len(t)
      /\ \A n \in 1 .. Len(s) : u[n] = s[n]
      /\ \A n \in 1 .. Len(t) : u[Len(s) + n] = t[n]
  BY Joined
<1> HIDE DEF u
<1>3. ASSUME NEW n \in 1 .. Len(u)
      PROVE  Score(u[n]) \in Int
  <2>1. CASE n \in 1 .. Len(s)
    BY <1>2, <2>1 DEF Scored
  <2>2. CASE n \notin 1 .. Len(s)
    <3>1. n - Len(s) \in 1 .. Len(t) /\ Len(s) + (n - Len(s)) = n
      BY <1>1, <1>2, <2>2
    <3>2. u[n] = t[n - Len(s)]
      BY <1>2, <3>1
    <3>3. QED BY <3>1, <3>2 DEF Scored
  <2>3. QED BY <2>1, <2>2
<1>4. Scored(u)
  BY <1>3 DEF Scored
<1>5. \A n \in 1 .. Len(u) : Scores(u)[n] = Score(u[n])
  BY <1>2, <1>4, ScoresAre
<1>6. ASSUME NEW n \in 1 .. Len(s)
      PROVE  Scores(u)[n] = Score(s[n])
  BY <1>1, <1>2, <1>5
<1>7. ASSUME NEW n \in 1 .. Len(t)
      PROVE  Scores(u)[Len(s) + n] = Score(t[n])
  <2>1. Len(s) + n \in 1 .. Len(u)
    BY <1>1, <1>2
  <2>2. QED BY <1>2, <1>5, <2>1
<1>8. QED BY <1>2, <1>4, <1>6, <1>7 DEF u

LEMMA RerankScored ==
  ASSUME NEW s, IsList(s), Scored(s), NEW k \in Nat
  PROVE  Scored(Rerank(s, k))
<1>1. SUFFICES ASSUME NEW n \in 1 .. Len(Rerank(s, k))
               PROVE  Score(Rerank(s, k)[n]) \in Int
  BY DEF Scored
<1>2. Len(Rerank(s, k)) = Least2(Len(s), k)
  BY RerankIs
<1>3. n \in 1 .. Least2(Len(s), k)
  BY <1>2
<1>4. /\ Order(1 .. Len(s), Scores(s))[n] \in 1 .. Len(s)
      /\ Rerank(s, k)[n] = s[Order(1 .. Len(s), Scores(s))[n]]
  BY <1>3, RerankIs
<1>5. QED BY <1>4 DEF Scored

(* The positions of one list are some of another, in their order, and all  *)
(* of its first k.                                                         *)
Embedded(V, U, k) ==
  \E e : /\ Keeps(e, Len(V), Len(U), Scores(V), Scores(U), k)
         /\ \A i \in 1 .. Len(V) : V[i] = U[e[i]]

(* So are those of the list that is cut and then joined, in that which is  *)
(* joined at once.                                                         *)
LEMMA CutEmbeds ==
  ASSUME NEW G, IsList(G), Scored(G), NEW T, IsList(T), Scored(T), NEW k \in Nat
  PROVE  Embedded(Rerank(G, k) \o T, G \o T, k)
<1> DEFINE A == Rerank(G, k)
           V == A \o T
           U == G \o T
           g == Len(G)
           t == Len(T)
           a == Len(A)
           kg == Scores(G)
           ku == Scores(U)
           kv == Scores(V)
           o == Order(1 .. g, kg)
           e == [i \in 1 .. a + t |-> IF i <= a THEN o[i] ELSE g + (i - a)]
<1>1. g \in Nat /\ t \in Nat
  BY DEF IsList
<1>2. /\ IsList(A) /\ Scored(A) /\ a = Least2(g, k) /\ a \in Nat /\ a <= g
      /\ \A n \in 1 .. a : o[n] \in 1 .. g /\ Rank(1 .. g, kg, o[n]) = n /\ A[n] = G[o[n]]
  <2>1. IsList(A) /\ Scored(A) /\ a = Least2(g, k)
    BY RerankIs, RerankScored
  <2>2. /\ Least2(g, k) \in Nat /\ Least2(g, k) <= g
        /\ \A n \in 1 .. Least2(g, k) :
             o[n] \in 1 .. g /\ Rank(1 .. g, kg, o[n]) = n /\ A[n] = G[o[n]]
    BY RerankIs
  <2> HIDE DEF A, a, g, kg, o
  <2>3. QED BY <2>1, <2>2
<1>3. /\ IsList(V) /\ Scored(V) /\ Len(V) = a + t
      /\ \A n \in 1 .. a : kv[n] = Score(A[n])
      /\ \A n \in 1 .. t : kv[a + n] = Score(T[n])
  <2>1. IsList(A) /\ Scored(A)
    BY <1>2
  <2> HIDE DEF A
  <2>2. QED BY <2>1, JoinedScores
<1>4. /\ IsList(U) /\ Scored(U) /\ Len(U) = g + t
      /\ \A n \in 1 .. g : ku[n] = Score(G[n])
      /\ \A n \in 1 .. t : ku[g + n] = Score(T[n])
  BY JoinedScores
<1>5. /\ kg \in [1 .. g -> Int] /\ \A n \in 1 .. g : kg[n] = Score(G[n])
      /\ kv \in [1 .. a + t -> Int] /\ ku \in [1 .. g + t -> Int]
  BY <1>3, <1>4, ScoresAre
<1>6. /\ \A n \in 1 .. a : V[n] = A[n]
      /\ \A n \in 1 .. t : V[a + n] = T[n]
      /\ \A n \in 1 .. g : U[n] = G[n]
      /\ \A n \in 1 .. t : U[g + n] = T[n]
  BY <1>2, Joined
<1> HIDE DEF A, V, U, g, t, a, kg, ku, kv, o
<1>7. e \in [1 .. a + t -> 1 .. g + t]
  <2>1. ASSUME NEW i \in 1 .. a + t
        PROVE  (IF i <= a THEN o[i] ELSE g + (i - a)) \in 1 .. g + t
    <3>1. CASE i <= a
      <4>1. o[i] \in 1 .. g
        BY <1>1, <1>2, <3>1
      <4>2. QED BY <1>1, <3>1, <4>1
    <3>2. CASE ~ (i <= a)
      BY <1>1, <1>2, <3>2
    <3>3. QED BY <3>1, <3>2
  <2>2. QED BY <2>1
<1>8. /\ \A i \in 1 .. a : e[i] = o[i] /\ e[i] \in 1 .. g
      /\ \A i \in 1 .. t : a + i \in 1 .. a + t /\ e[a + i] = g + i
  <2>1. ASSUME NEW i \in 1 .. a
        PROVE  e[i] = o[i]
    BY <1>1, <1>2
  <2>2. ASSUME NEW i \in 1 .. t
        PROVE  a + i \in 1 .. a + t /\ e[a + i] = g + i
    <3>1. a + i \in 1 .. a + t /\ ~ (a + i <= a) /\ (a + i) - a = i
      BY <1>1, <1>2
    <3>2. QED BY <3>1
  <2> HIDE DEF e
  <2>3. QED BY <1>2, <2>1, <2>2
<1> HIDE DEF e
<1>9. ASSUME NEW i \in 1 .. a + t
      PROVE  \/ i \in 1 .. a
             \/ i - a \in 1 .. t /\ i = a + (i - a)
  BY <1>1, <1>2
<1>10. ASSUME NEW i \in 1 .. a + t
       PROVE  V[i] = U[e[i]] /\ kv[i] = ku[e[i]]
  <2>1. CASE i \in 1 .. a
    BY <1>2, <1>3, <1>4, <1>6, <1>8, <2>1
  <2>2. CASE i \notin 1 .. a
    <3>1. PICK n \in 1 .. t : i = a + n
      BY <1>9, <2>2
    <3>2. QED BY <1>3, <1>4, <1>6, <1>8, <3>1
  <2>3. QED BY <2>1, <2>2
<1>11. ASSUME NEW i \in 1 .. a + t, NEW j \in 1 .. a + t
       PROVE  NotAfter(kv, i, j) <=> NotAfter(ku, e[i], e[j])
  <2>1. /\ kv[i] = ku[e[i]] /\ kv[j] = ku[e[j]] /\ kv[i] \in Int /\ kv[j] \in Int
        /\ e[i] \in Int /\ e[j] \in Int
    <3>1. kv[i] = ku[e[i]] /\ kv[j] = ku[e[j]]
      BY <1>10
    <3>2. kv[i] \in Int /\ kv[j] \in Int
      BY <1>5
    <3>3. e[i] \in 1 .. g + t /\ e[j] \in 1 .. g + t
      BY <1>7
    <3>4. QED BY <3>1, <3>2, <3>3
  <2>2. CASE i \in 1 .. a /\ j \in 1 .. a
    <3>1. /\ o[i] \in 1 .. g /\ o[j] \in 1 .. g
          /\ Rank(1 .. g, kg, o[i]) = i /\ Rank(1 .. g, kg, o[j]) = j
          /\ kg[o[i]] = kv[i] /\ kg[o[j]] = kv[j] /\ e[i] = o[i] /\ e[j] = o[j]
      <4>1. /\ o[i] \in 1 .. g /\ Rank(1 .. g, kg, o[i]) = i /\ A[i] = G[o[i]]
            /\ o[j] \in 1 .. g /\ Rank(1 .. g, kg, o[j]) = j /\ A[j] = G[o[j]]
        BY <1>2, <2>2
      <4>2. kv[i] = Score(A[i]) /\ kv[j] = Score(A[j])
        BY <1>3, <2>2
      <4>3. kg[o[i]] = Score(G[o[i]]) /\ kg[o[j]] = Score(G[o[j]])
        BY <1>5, <4>1
      <4>4. e[i] = o[i] /\ e[j] = o[j]
        BY <1>8, <2>2
      <4>5. QED BY <4>1, <4>2, <4>3, <4>4
    <3>2. 1 .. g \in SUBSET Nat /\ IsFiniteSet(1 .. g)
      BY <1>1, FS_Interval
    <3>3. i <= j <=> NotAfter(kg, o[i], o[j])
      <4>1. \A x, y \in 1 .. g : Rank(1 .. g, kg, x) <= Rank(1 .. g, kg, y) <=> NotAfter(kg, x, y)
        BY <1>5, <3>2, RanksOf
      <4>2. Rank(1 .. g, kg, o[i]) <= Rank(1 .. g, kg, o[j]) <=> NotAfter(kg, o[i], o[j])
        BY <3>1, <4>1
      <4>3. QED BY <3>1, <4>2
    <3>4. QED BY <2>1, <3>1, <3>3 DEF NotAfter
  <2>3. CASE i \in 1 .. a /\ j \notin 1 .. a
    <3>1. PICK n \in 1 .. t : j = a + n
      BY <1>9, <2>3
    <3>2. i <= j /\ e[i] <= e[j]
      <4>1. e[i] \in 1 .. g /\ e[j] = g + n
        BY <1>8, <2>3, <3>1
      <4>2. a \in Nat
        BY <1>2
      <4>3. QED BY <1>1, <2>3, <3>1, <4>1, <4>2
    <3>3. QED BY <2>1, <3>2 DEF NotAfter
  <2>4. CASE i \notin 1 .. a /\ j \in 1 .. a
    <3>1. PICK n \in 1 .. t : i = a + n
      BY <1>9, <2>4
    <3>2. ~ (i <= j) /\ ~ (e[i] <= e[j])
      <4>1. e[j] \in 1 .. g /\ e[i] = g + n
        BY <1>8, <2>4, <3>1
      <4>2. a \in Nat
        BY <1>2
      <4>3. QED BY <1>1, <2>4, <3>1, <4>1, <4>2
    <3>3. QED BY <2>1, <3>2 DEF NotAfter
  <2>5. CASE i \notin 1 .. a /\ j \notin 1 .. a
    <3>1. PICK n \in 1 .. t : i = a + n
      BY <1>9, <2>5
    <3>2. PICK m \in 1 .. t : j = a + m
      BY <1>9, <2>5
    <3>3. i <= j <=> e[i] <= e[j]
      <4>1. e[i] = g + n /\ e[j] = g + m
        BY <1>8, <3>1, <3>2
      <4>2. n \in Int /\ m \in Int /\ a \in Int /\ g \in Int
        BY <1>1, <1>2
      <4>3. i <= j <=> n <= m
        BY <3>1, <3>2, <4>2
      <4>4. e[i] <= e[j] <=> n <= m
        BY <4>1, <4>2
      <4>5. QED BY <4>3, <4>4
    <3>4. QED BY <2>1, <3>3 DEF NotAfter
  <2>6. QED BY <2>2, <2>3, <2>4, <2>5
<1>12. ASSUME NEW x \in 1 .. g + t, Rank(1 .. g + t, ku, x) <= k
       PROVE  \E i \in 1 .. a + t : e[i] = x
  <2>1. CASE x \in 1 .. g
    <3>1. 1 .. g \in SUBSET Nat /\ IsFiniteSet(1 .. g) /\ 1 .. g + t \in SUBSET Nat /\ IsFiniteSet(1 .. g + t)
      BY <1>1, FS_Interval
    <3>2. Rank(1 .. g, kg, x) <= Rank(1 .. g + t, ku, x)
      <4>1. g <= g + t /\ g + t \in Nat /\ \A n \in 1 .. g : kg[n] = ku[n]
        BY <1>1, <1>4, <1>5
      <4>2. QED BY <1>1, <1>5, <2>1, <4>1, RankInPart
    <3>3. Rank(1 .. g, kg, x) \in Nat /\ Rank(1 .. g, kg, x) >= 1 /\ Rank(1 .. g + t, ku, x) \in Nat
      <4>1. kg \in [1 .. g -> Int] /\ ku \in [1 .. g + t -> Int] /\ x \in 1 .. g + t
        BY <1>5
      <4>2. Rank(1 .. g, kg, x) \in 1 .. Cardinality(1 .. g)
        BY <2>1, <3>1, <4>1, RanksOf
      <4>3. Rank(1 .. g + t, ku, x) \in 1 .. Cardinality(1 .. g + t)
        BY <3>1, <4>1, RanksOf
      <4>4. Cardinality(1 .. g) \in Nat /\ Cardinality(1 .. g + t) \in Nat
        BY <3>1, FS_CardinalityType
      <4>5. QED BY <4>2, <4>3, <4>4
    <3> DEFINE r == Rank(1 .. g, kg, x)
    <3>4. r <= k /\ r \in Nat /\ r >= 1
      BY <1>12, <3>2, <3>3
    <3>5. o[r] = x /\ r <= g
      <4>1. o[r] = x
        BY <1>5, <2>1, <3>1, OrderIs DEF o
      <4>2. Rank(1 .. g, kg, x) \in 1 .. Cardinality(1 .. g)
        BY <1>5, <2>1, <3>1, RanksOf
      <4>3. 1 \in Int /\ g \in Int
        BY <1>1
      <4>4. Cardinality(1 .. g) = IF 1 > g THEN 0 ELSE g - 1 + 1
        BY <4>3, FS_Interval
      <4>5. Cardinality(1 .. g) = g
        BY <1>1, <4>4
      <4>6. QED BY <4>1, <4>2, <4>5
    <3> HIDE DEF r
    <3>6. r \in 1 .. a
      BY <1>1, <1>2, <3>4, <3>5 DEF Least2
    <3>7. r \in 1 .. a + t /\ e[r] = x
      BY <1>1, <1>2, <1>8, <3>5, <3>6
    <3>8. QED BY <3>7
  <2>2. CASE x \notin 1 .. g
    <3>1. x - g \in 1 .. t /\ g + (x - g) = x
      BY <1>1, <2>2
    <3>2. a + (x - g) \in 1 .. a + t /\ e[a + (x - g)] = x
      BY <1>8, <3>1
    <3>3. QED BY <3>2
  <2>3. QED BY <2>1, <2>2
<1>13. Keeps(e, a + t, g + t, kv, ku, k) /\ \A i \in 1 .. a + t : V[i] = U[e[i]]
  BY <1>1, <1>2, <1>5, <1>7, <1>10, <1>11, <1>12 DEF Keeps
<1>14. Len(V) = a + t /\ Len(U) = g + t
  BY <1>3, <1>4
<1>15. Keeps(e, Len(V), Len(U), kv, ku, k) /\ \A i \in 1 .. Len(V) : V[i] = U[e[i]]
  BY <1>13, <1>14
<1>16. Embedded(V, U, k)
  BY <1>15 DEF Embedded, kv, ku
<1>17. QED BY <1>16 DEF V, U, A

(* Of the lists so related, the first k positions by rank agree.           *)
Agree(e, v, u, kv, ku, k) ==
  \A x \in 1 .. u, j \in 1 .. v :
    Rank(1 .. u, ku, x) <= k /\ Rank(1 .. v, kv, j) = Rank(1 .. u, ku, x) => e[j] = x

LEMMA SameBest ==
  ASSUME NEW v, NEW u, NEW k, NEW kv, NEW ku, NEW e, Keeps(e, v, u, kv, ku, k)
  PROVE  Agree(e, v, u, kv, ku, k)
<1>1. SUFFICES ASSUME NEW x \in 1 .. u, NEW j \in 1 .. v,
                      Rank(1 .. u, ku, x) <= k, Rank(1 .. v, kv, j) = Rank(1 .. u, ku, x)
               PROVE  e[j] = x
  BY DEF Agree
<1>2. \A i \in 1 .. v : Rank(1 .. u, ku, e[i]) <= k =>
        Rank(1 .. v, kv, i) = Rank(1 .. u, ku, e[i])
  BY Embeds
<1>3. PICK i \in 1 .. v : e[i] = x
  BY <1>1 DEF Keeps
<1>4. Rank(1 .. v, kv, i) = Rank(1 .. v, kv, j)
  BY <1>1, <1>2, <1>3
<1>5. v \in Nat /\ kv \in [1 .. v -> Int]
  BY DEF Keeps
<1>6. i = j
  BY <1>4, <1>5, RanksDiffer
<1>7. QED BY <1>3, <1>6

(* Ranked and cut again after something was added, a list that was ranked  *)
(* and cut gives what all of it would have given: nothing is lost to the   *)
(* first cut (SecureRetrieval.search, MemoryFacade.recall).                *)
THEOREM CutTwiceIsCutOnce ==
  ASSUME NEW G, IsList(G), Scored(G), NEW T, IsList(T), Scored(T), NEW k \in Nat
  PROVE  Rerank(Rerank(G, k) \o T, k) = Rerank(G \o T, k)
<1> DEFINE A == Rerank(G, k)
           V == A \o T
           U == G \o T
<1>1. IsList(A) /\ Scored(A) /\ Len(A) = Least2(Len(G), k)
  BY RerankIs, RerankScored
<1>2. IsList(U) /\ Scored(U) /\ Len(U) = Len(G) + Len(T)
  BY JoinedScores
<1>3. IsList(V) /\ Scored(V) /\ Len(V) = Len(A) + Len(T)
  <2> HIDE DEF A
  <2>1. QED BY <1>1, JoinedScores
<1>4. Embedded(V, U, k)
  BY CutEmbeds
<1> HIDE DEF A, V, U
<1>50. PICK v \in Nat : v = Len(V)
  BY <1>3 DEF IsList
<1>51. PICK u \in Nat : u = Len(U)
  BY <1>2 DEF IsList
<1>52. PICK m \in Nat : m = Least2(u, k)
  BY DEF Least2
<1>53. PICK kv \in [1 .. v -> Int] : kv = Scores(V)
  BY <1>3, <1>50, ScoresAre
<1>54. PICK ku \in [1 .. u -> Int] : ku = Scores(U)
  BY <1>2, <1>51, ScoresAre
<1>5. /\ v = Len(V) /\ u = Len(U) /\ m = Least2(u, k) /\ kv = Scores(V) /\ ku = Scores(U)
  BY <1>50, <1>51, <1>52, <1>53, <1>54
<1>6. v \in Nat /\ u \in Nat /\ m \in Nat /\ m <= u /\ m <= k /\ Least2(v, k) = m
  <2>1. Len(G) \in Nat /\ Len(T) \in Nat /\ Len(A) \in Nat
    BY <1>1 DEF IsList
  <2>2. QED BY <1>1, <1>2, <1>3, <1>5, <2>1 DEF Least2
<1>7. kv \in [1 .. v -> Int] /\ ku \in [1 .. u -> Int]
  BY <1>2, <1>3, <1>5, ScoresAre
<1>8. PICK e : Keeps(e, v, u, kv, ku, k) /\ \A i \in 1 .. v : V[i] = U[e[i]]
  BY <1>4, <1>5 DEF Embedded
<1>10. /\ IsList(Rerank(V, k)) /\ Len(Rerank(V, k)) = m
       /\ \A n \in 1 .. m :
            /\ Order(1 .. v, kv)[n] \in 1 .. v
            /\ Rank(1 .. v, kv, Order(1 .. v, kv)[n]) = n
            /\ Rerank(V, k)[n] = V[Order(1 .. v, kv)[n]]
  <2>1. /\ IsList(Rerank(V, k)) /\ Len(Rerank(V, k)) = Least2(Len(V), k)
        /\ \A n \in 1 .. Least2(Len(V), k) :
             /\ Order(1 .. Len(V), Scores(V))[n] \in 1 .. Len(V)
             /\ Rank(1 .. Len(V), Scores(V), Order(1 .. Len(V), Scores(V))[n]) = n
             /\ Rerank(V, k)[n] = V[Order(1 .. Len(V), Scores(V))[n]]
    BY <1>3, RerankIs
  <2>2. QED BY <1>5, <1>6, <2>1
<1>11. /\ IsList(Rerank(U, k)) /\ Len(Rerank(U, k)) = m
       /\ \A n \in 1 .. m :
            /\ Order(1 .. u, ku)[n] \in 1 .. u
            /\ Rank(1 .. u, ku, Order(1 .. u, ku)[n]) = n
            /\ Rerank(U, k)[n] = U[Order(1 .. u, ku)[n]]
  <2>1. /\ IsList(Rerank(U, k)) /\ Len(Rerank(U, k)) = Least2(Len(U), k)
        /\ \A n \in 1 .. Least2(Len(U), k) :
             /\ Order(1 .. Len(U), Scores(U))[n] \in 1 .. Len(U)
             /\ Rank(1 .. Len(U), Scores(U), Order(1 .. Len(U), Scores(U))[n]) = n
             /\ Rerank(U, k)[n] = U[Order(1 .. Len(U), Scores(U))[n]]
    BY <1>2, RerankIs
  <2>2. QED BY <1>5, <2>1
<1>12. ASSUME NEW n \in 1 .. m
       PROVE  Rerank(V, k)[n] = Rerank(U, k)[n]
  <2>1. PICK x \in 1 .. u : x = Order(1 .. u, ku)[n]
    BY <1>11
  <2>2. Rank(1 .. u, ku, x) = n /\ Rerank(U, k)[n] = U[x] /\ n <= k
    BY <1>6, <1>11, <2>1
  <2>5. PICK j \in 1 .. v : j = Order(1 .. v, kv)[n]
    BY <1>10
  <2>6. Rank(1 .. v, kv, j) = n /\ Rerank(V, k)[n] = V[j]
    BY <1>10, <2>5
  <2>7. e[j] = x
    <3>1. Keeps(e, v, u, kv, ku, k)
      BY <1>8
    <3>2. Agree(e, v, u, kv, ku, k)
      BY <3>1, SameBest
    <3>3. QED BY <2>2, <2>6, <3>2 DEF Agree
  <2>8. QED BY <1>8, <2>2, <2>6, <2>7
<1>13. Rerank(V, k) = Rerank(U, k)
  BY <1>10, <1>11, <1>12, SameLists
<1>14. QED BY <1>13 DEF V, U, A

----------------------------------------------------------------------------
(* Every pack is a beginning of its list, not over its budget but by a     *)
(* single record, and the next record would not fit (pack_records).        *)
THEOREM PacksAreBeginnings ==
  ASSUME NEW s, IsList(s), NEW b
  PROVE  IsPack(Packed(s, b), s, b)
<1> DEFINE N == Len(s)
           Goes(n) == \A m \in 2 .. n : Fits(s, m, b)
           Best1(n) == Goes(n) /\ \A m \in 0 .. N : Goes(m) => m <= n
           p == CHOOSE n \in 0 .. N : Best1(n)
<1>1. N \in Nat
  BY DEF IsList
<1> HIDE DEF N
<1>2. \E n \in 0 .. N : Best1(n)
  <2> DEFINE Left == {l \in 0 .. N : Goes(N - l)}
  <2>1. N \in Left
    <3>1. N \in 0 .. N /\ N - N = 0
      BY <1>1
    <3>2. \A m \in 2 .. (N - N) : Fits(s, m, b)
      BY <3>1
    <3>3. QED BY <3>1, <3>2
  <2>2. Left \in SUBSET Nat /\ Left # {}
    BY <1>1, <2>1
  <2> HIDE DEF Left
  <2>3. PICK l \in Left : \A j \in Left : l <= j
    BY <2>2, Least
  <2>4. l \in 0 .. N /\ Goes(N - l)
    BY <2>3 DEF Left
  <2>5. ASSUME NEW m \in 0 .. N, Goes(m)
        PROVE  m <= N - l
    <3>1. N - m \in 0 .. N /\ N - (N - m) = m
      BY <1>1
    <3>2. N - m \in Left
      <4> HIDE DEF Goes
      <4>1. Goes(N - (N - m))
        BY <2>5, <3>1
      <4>2. QED BY <3>1, <4>1 DEF Left
    <3>3. l <= N - m
      BY <2>3, <3>2
    <3>4. QED BY <1>1, <2>4, <3>3
  <2>6. N - l \in 0 .. N
    BY <1>1, <2>4
  <2> HIDE DEF Goes
  <2>7. QED BY <2>4, <2>5, <2>6
<1>3. p \in 0 .. N /\ Goes(p) /\ \A m \in 0 .. N : Goes(m) => m <= p
  <2> HIDE DEF Goes
  <2>1. QED BY <1>2
<1>4. Packed(s, b) = Take(s, p)
  BY DEF Packed, N
<1> HIDE DEF p
<1> DEFINE q == Take(s, p)
<1>5. p \in Nat /\ Least2(N, p) = p
  BY <1>1, <1>3 DEF Least2
<1>6. Len(q) = p
  BY <1>5, TakeIs DEF N
<1>7. s # <<>> => p > 0
  <2>1. SUFFICES ASSUME s # <<>> PROVE p > 0
    OBVIOUS
  <2>2. N # 0
    <3>1. SUFFICES ASSUME N = 0 PROVE s = <<>>
      BY <2>1
    <3>2. s \in Seq({s[n] : n \in 1 .. Len(s)})
      BY ListIs
    <3> HIDE DEF q
    <3>3. QED BY <3>1, <3>2, EmptySeq DEF N
  <2>3. 1 \in 0 .. N /\ Goes(1)
    BY <1>1, <2>2
  <2> HIDE DEF Goes
  <2>4. 1 <= p
    BY <1>3, <2>3
  <2>5. QED BY <1>5, <2>4
<1>8. p <= 1 \/ Fits(s, p, b)
  BY <1>3, <1>5
<1>9. p = N \/ ~ Fits(s, p + 1, b)
  <2>1. SUFFICES ASSUME p # N, Fits(s, p + 1, b) PROVE FALSE
    OBVIOUS
  <2>2. p + 1 \in 0 .. N /\ \A m \in 2 .. p + 1 : m = p + 1 \/ m \in 2 .. p
    BY <1>1, <1>3, <2>1
  <2>3. Goes(p + 1)
    BY <1>3, <2>1, <2>2
  <2> HIDE DEF Goes
  <2>4. p + 1 <= p
    BY <1>3, <2>2, <2>3
  <2>5. QED BY <1>5, <2>4
<1> HIDE DEF q
<1>10. /\ q = Take(s, Len(q)) /\ (s # <<>> => Len(q) > 0)
       /\ Len(q) <= 1 \/ Fits(s, Len(q), b)
       /\ Len(q) = Len(s) \/ ~ Fits(s, Len(q) + 1, b)
  <2>1. q = Take(s, Len(q))
    BY <1>6 DEF q
  <2>2. QED BY <1>6, <1>7, <1>8, <1>9, <2>1 DEF N
<1>11. IsPack(q, s, b)
  BY <1>10 DEF IsPack
<1>12. QED BY <1>4, <1>11 DEF q

----------------------------------------------------------------------------
(* What the search may return to a reader: the second check passes it.     *)
Passes(r, f) == IsHit(r) /\ (r.scope = NoOne \/ Reaches(f, r))
AllPass(s, f) == IsList(s) /\ \A n \in 1 .. Len(s) : Passes(s[n], f)

(* Shares are numbers, and so is the score of a hit, boosted or not.       *)
LEMMA ShareIsNat ==
  ASSUME NEW n \in Nat
  PROVE  Share(n) \in Nat
<1>1. Whole \in Nat
  BY UnitIsFine
<1>2. QED BY <1>1 DEF Share, RRF_K

LEMMA FusedScoreIsNat ==
  ASSUME NEW s, IsList(s), NEW t, IsList(t), NEW id
  PROVE  FusedScore(s, t, id) \in Nat
<1>1. ASSUME NEW u, IsList(u)
      PROVE  ShareIn(u, id) \in Nat
  <2>1. CASE id \in Ids(u)
    <3>1. \E n \in DOMAIN u : u[n].id = id
      BY <2>1 DEF Ids
    <3>2. Place(u, id) \in DOMAIN u
      BY <3>1 DEF Place
    <3>3. DOMAIN u = 1 .. Len(u) /\ Len(u) \in Nat
      BY <1>1, ListIs DEF IsList
    <3>4. Place(u, id) \in Nat
      BY <3>2, <3>3
    <3>5. Share(Place(u, id)) \in Nat
      BY <3>4, ShareIsNat
    <3>6. QED BY <2>1, <3>5 DEF ShareIn
  <2>2. CASE id \notin Ids(u)
    BY <2>2 DEF ShareIn
  <2>3. QED BY <2>1, <2>2
<1>2. ShareIn(s, id) \in Nat /\ ShareIn(t, id) \in Nat
  BY <1>1
<1>3. QED BY <1>2 DEF FusedScore

LEMMA HitScores ==
  ASSUME NEW r, IsHit(r)
  PROVE  Score(r) \in Int /\ Boosted(r) \in Int
<1>1. /\ r.importance \in Nat /\ r.age \in Nat /\ r.score \in Nat \cup {NoOne}
      /\ Whole \in Nat
  BY UnitIsFine DEF IsHit
<1>2. Base(r) \in Int
  <2>1. CASE r.score = NoOne
    <3>1. Whole \div 2 \in Int
      BY <1>1
    <3>2. QED BY <2>1, <3>1 DEF Base
  <2>2. CASE r.score # NoOne
    BY <1>1, <2>2 DEF Base
  <2>3. QED BY <2>1, <2>2
<1>3. Weight(r.pillar) \in Int
  BY DEF Weight
<1>4. Bonus(r) \in Int
  <2>1. (Whole * 200) \div (1 + r.age) \in Int /\ Whole * 100 * r.importance \in Int
    BY <1>1
  <2>2. QED BY <2>1 DEF Bonus
<1>5. Base(r) * Weight(r.pillar) * 10 \in Int /\ Base(r) * Weight(r.pillar) * 13 \in Int
  BY <1>2, <1>3
<1>6. QED BY <1>4, <1>5 DEF Score, Boosted

(* A hit that is given another score is one still, of the same row.        *)
LEMMA Rescored ==
  ASSUME NEW r, NEW f, Passes(r, f), NEW x \in Nat
  PROVE  Passes([r EXCEPT !.score = x], f) /\ [r EXCEPT !.score = x].id = r.id
<1> DEFINE t == [r EXCEPT !.score = x]
<1>1. /\ r = [g \in Fields |-> r[g]]
      /\ r.importance \in Nat /\ r.age \in Nat /\ r.cost \in Nat
      /\ r.listed \in BOOLEAN /\ (r.listed => r.visibility = "shared")
      /\ r.scope = NoOne \/ Reaches(f, r)
  BY DEF Passes, IsHit
<1>2. DOMAIN r = Fields
  BY <1>1
<1>3. \A g \in Fields : t[g] = IF g = "score" THEN x ELSE r[g]
  BY <1>2
<1>4. t = [g \in Fields |-> t[g]]
  BY <1>2
<1> HIDE DEF t
<1>5. /\ t.importance = r.importance /\ t.age = r.age /\ t.cost = r.cost /\ t.listed = r.listed
      /\ t.visibility = r.visibility /\ t.scope = r.scope /\ t.ref = r.ref /\ t.id = r.id
      /\ t.score = x
  BY <1>3 DEF Fields
<1>6. Reaches(f, r) => Reaches(f, t)
  BY <1>5 DEF Reaches
<1>7. IsHit(t)
  BY <1>1, <1>4, <1>5 DEF IsHit
<1>8. QED BY <1>1, <1>5, <1>6, <1>7 DEF Passes, t

LEMMA AllPassScored ==
  ASSUME NEW s, NEW f, AllPass(s, f)
  PROVE  IsList(s) /\ Scored(s)
  BY HitScores DEF AllPass, Passes, Scored

LEMMA ChosenPass ==
  ASSUME NEW s, IsList(s), NEW f, NEW W \in SUBSET (1 .. Len(s)),
         \A n \in W : Passes(s[n], f)
  PROVE  AllPass(Chosen(s, W), f)
<1>1. IsList(Chosen(s, W))
  BY ChosenIs
<1>2. \E at \in [1 .. Len(Chosen(s, W)) -> W] :
        \A k \in 1 .. Len(Chosen(s, W)) : Chosen(s, W)[k] = s[at[k]]
  BY ChosenIs
<1>3. PICK at \in [1 .. Len(Chosen(s, W)) -> W] :
        \A k \in 1 .. Len(Chosen(s, W)) : Chosen(s, W)[k] = s[at[k]]
  BY <1>2
<1>4. ASSUME NEW k \in 1 .. Len(Chosen(s, W))
      PROVE  Passes(Chosen(s, W)[k], f)
  BY <1>3
<1>5. QED BY <1>1, <1>4 DEF AllPass

LEMMA TakePass ==
  ASSUME NEW s, NEW f, AllPass(s, f), NEW k \in Nat
  PROVE  AllPass(Take(s, k), f)
<1>1. IsList(s) /\ Len(s) \in Nat /\ \A n \in 1 .. Len(s) : Passes(s[n], f)
  BY DEF AllPass, IsList
<1>2. /\ IsList(Take(s, k)) /\ Len(Take(s, k)) = Least2(Len(s), k)
      /\ \A n \in 1 .. Least2(Len(s), k) : Take(s, k)[n] = s[n]
  BY <1>1, TakeIs
<1>3. ASSUME NEW n \in 1 .. Least2(Len(s), k)
      PROVE  n \in 1 .. Len(s)
  BY <1>1 DEF Least2
<1>4. QED BY <1>1, <1>2, <1>3 DEF AllPass

LEMMA JoinedPass ==
  ASSUME NEW s, NEW t, NEW f, AllPass(s, f), AllPass(t, f)
  PROVE  AllPass(s \o t, f)
<1> DEFINE u == s \o t
<1>1. /\ IsList(s) /\ Len(s) \in Nat /\ \A n \in 1 .. Len(s) : Passes(s[n], f)
      /\ IsList(t) /\ Len(t) \in Nat /\ \A n \in 1 .. Len(t) : Passes(t[n], f)
  BY DEF AllPass, IsList
<1>2. /\ IsList(u) /\ Len(u) = Len(s) + Len(t)
      /\ \A n \in 1 .. Len(s) : u[n] = s[n]
      /\ \A n \in 1 .. Len(t) : u[Len(s) + n] = t[n]
  BY <1>1, Joined
<1> HIDE DEF u
<1>3. ASSUME NEW n \in 1 .. Len(u)
      PROVE  Passes(u[n], f)
  <2>1. CASE n <= Len(s)
    <3>1. n \in 1 .. Len(s)
      BY <1>1, <1>2, <2>1
    <3>2. QED BY <1>1, <1>2, <3>1
  <2>2. CASE ~ (n <= Len(s))
    <3>1. n - Len(s) \in 1 .. Len(t) /\ Len(s) + (n - Len(s)) = n
      BY <1>1, <1>2, <2>2
    <3>2. u[n] = t[n - Len(s)]
      BY <1>2, <3>1
    <3>3. QED BY <1>1, <3>1, <3>2
  <2>3. QED BY <2>1, <2>2
<1>4. QED BY <1>2, <1>3 DEF AllPass, u

LEMMA NonePass ==
  ASSUME NEW f
  PROVE  AllPass(<<>>, f)
<1>1. Len(<<>>) = 0 /\ <<>> \in Seq({})
  OBVIOUS
<1>2. <<>> = [n \in 1 .. 0 |-> <<>>[n]]
  OBVIOUS
<1>3. QED BY <1>1, <1>2 DEF AllPass, IsList

LEMMA NormalizedPass ==
  ASSUME NEW s, NEW f, AllPass(s, f)
  PROVE  AllPass(Normalized(s), f)
<1> DEFINE t == Normalized(s)
<1>1. IsList(s) /\ Len(s) \in Nat /\ \A n \in 1 .. Len(s) : Passes(s[n], f)
  BY DEF AllPass, IsList
<1>2. DOMAIN s = 1 .. Len(s)
  BY <1>1, ListIs
<1>3. t = [n \in 1 .. Len(s) |-> [s[n] EXCEPT !.score = Share(n)]]
  BY <1>2 DEF Normalized
<1>4. /\ t = [n \in 1 .. Len(s) |-> t[n]]
      /\ \A n \in 1 .. Len(s) : t[n] = [s[n] EXCEPT !.score = Share(n)]
  BY <1>3
<1> HIDE DEF t
<1>5. IsList(t) /\ Len(t) = Len(s)
  BY <1>1, <1>4, FunctionIsList
<1>6. ASSUME NEW n \in 1 .. Len(s)
      PROVE  Passes(t[n], f)
  <2>1. Share(n) \in Nat
    BY <1>1, ShareIsNat
  <2>2. QED BY <1>1, <1>4, <2>1, Rescored
<1>7. QED BY <1>5, <1>6 DEF AllPass, t

(* A search whose rank fusion or ranking permutes a list loses no hit.     *)
LEMMA RankedPass ==
  ASSUME NEW s, NEW f, AllPass(s, f), NEW key \in [DOMAIN s -> Int]
  PROVE  AllPass(Ranked(s, key), f) /\ Ids(Ranked(s, key)) = Ids(s)
<1> DEFINE t == Ranked(s, key)
           o == Order(DOMAIN s, key)
<1>1. IsList(s) /\ \A n \in 1 .. Len(s) : Passes(s[n], f)
  BY DEF AllPass
<1>2. /\ DOMAIN s = 1 .. Len(s) /\ Len(s) \in Nat
      /\ IsList(t) /\ Len(t) = Len(s)
      /\ \A k \in 1 .. Len(s) : o[k] \in DOMAIN s /\ t[k] = s[o[k]]
      /\ \A i \in DOMAIN s : Rank(DOMAIN s, key, i) \in 1 .. Len(s)
                             /\ t[Rank(DOMAIN s, key, i)] = s[i]
  BY <1>1, RankedIs
<1>3. DOMAIN t = 1 .. Len(s)
  BY <1>2, ListIs
<1> HIDE DEF t, o
<1>4. AllPass(t, f)
  BY <1>1, <1>2 DEF AllPass
<1>5. Ids(t) = Ids(s)
  <2>1. ASSUME NEW x \in Ids(t)
        PROVE  x \in Ids(s)
    <3>1. PICK k \in 1 .. Len(s) : x = t[k].id
      BY <1>3 DEF Ids
    <3>2. o[k] \in DOMAIN s /\ t[k] = s[o[k]]
      BY <1>2
    <3>3. QED BY <3>1, <3>2 DEF Ids
  <2>2. ASSUME NEW x \in Ids(s)
        PROVE  x \in Ids(t)
    <3>1. PICK i \in DOMAIN s : x = s[i].id
      BY DEF Ids
    <3>2. PICK k \in 1 .. Len(s) : t[k] = s[i]
      BY <1>2
    <3>3. QED BY <1>3, <3>1, <3>2 DEF Ids
  <2>3. QED BY <2>1, <2>2
<1>6. QED BY <1>4, <1>5 DEF t

LEMMA FusedPass ==
  ASSUME NEW s, NEW t, NEW f, AllPass(s, f), AllPass(t, f)
  PROVE  AllPass(Fused(s, t), f)
<1> DEFINE seen == FirstSeen(s, t)
           key == [n \in DOMAIN seen |-> FusedScore(s, t, seen[n].id)]
           merged == Ranked(seen, key)
<1>1. IsList(s) /\ IsList(t)
  BY DEF AllPass
<1>2. \A id : FusedScore(s, t, id) \in Nat
  BY <1>1, FusedScoreIsNat
<1>3. AllPass(seen, f)
  <2> DEFINE W == {n \in DOMAIN t : t[n].id \notin Ids(s)}
  <2>1. DOMAIN t = 1 .. Len(t)
    BY <1>1, ListIs
  <2>2. W \in SUBSET (1 .. Len(t)) /\ \A n \in W : Passes(t[n], f)
    BY <2>1 DEF AllPass
  <2>3. AllPass(Chosen(t, W), f)
    <3> HIDE DEF W
    <3>1. QED BY <1>1, <2>2, ChosenPass
  <2>4. AllPass(s \o Chosen(t, W), f)
    <3> HIDE DEF W
    <3>1. QED BY <2>3, JoinedPass
  <2>5. QED BY <2>4 DEF FirstSeen
<1>4. key \in [DOMAIN seen -> Int]
  BY <1>2
<1>5. Fused(s, t) = [n \in DOMAIN merged |->
                       [merged[n] EXCEPT !.score = FusedScore(s, t, merged[n].id)]]
  BY DEF Fused
<1> HIDE DEF seen, key
<1>6. AllPass(merged, f)
  BY <1>3, <1>4, RankedPass
<1> HIDE DEF merged
<1> DEFINE u == Fused(s, t)
<1>7. /\ IsList(merged) /\ Len(merged) \in Nat /\ DOMAIN merged = 1 .. Len(merged)
      /\ \A n \in 1 .. Len(merged) : Passes(merged[n], f)
  BY <1>6, ListIs DEF AllPass, IsList
<1>8. /\ u = [n \in 1 .. Len(merged) |-> u[n]]
      /\ \A n \in 1 .. Len(merged) :
           u[n] = [merged[n] EXCEPT !.score = FusedScore(s, t, merged[n].id)]
  BY <1>5, <1>7
<1> HIDE DEF u
<1>9. IsList(u) /\ Len(u) = Len(merged)
  BY <1>7, <1>8, FunctionIsList
<1>10. ASSUME NEW n \in 1 .. Len(merged)
       PROVE  Passes(u[n], f)
  BY <1>2, <1>7, <1>8, Rescored
<1>11. QED BY <1>9, <1>10 DEF AllPass, u

(* What a list made of some hits is: they come one by one.                 *)
LEMMA ListsAre ==
  ASSUME NEW found, IsFiniteSet(found), NEW s \in Lists(found)
  PROVE  /\ IsList(s) /\ \A n \in 1 .. Len(s) : s[n] \in found
         /\ \A i, j \in 1 .. Len(s) : s[i] = s[j] => i = j
<1>1. Cardinality(found) \in Nat
  BY FS_CardinalityType
<1>2. PICK n \in 0 .. Cardinality(found) :
        s \in {t \in [1 .. n -> found] : \A i, j \in 1 .. n : t[i] = t[j] => i = j}
  BY DEF Lists
<1>3. n \in Nat /\ s \in [1 .. n -> found] /\ \A i, j \in 1 .. n : s[i] = s[j] => i = j
  BY <1>1, <1>2
<1>4. s = [k \in 1 .. n |-> s[k]] /\ \A k \in 1 .. n : s[k] \in found
  BY <1>3
<1>5. IsList(s) /\ Len(s) = n
  BY <1>3, <1>4, FunctionIsList
<1>6. QED BY <1>3, <1>4, <1>5

(* The questions that the searches put of some rows, and what they answer  *)
(* of the other pillars, are lists of hits.                                *)
AllHits(s) == IsList(s) /\ \A n \in 1 .. Len(s) : IsHit(s[n])

LEMMA OthersPass ==
  ASSUME NEW s \in Lists(Others), NEW f
  PROVE  AllPass(s, f)
<1>1. IsFiniteSet(Others) /\ \A r \in Others : IsHit(r) /\ r.scope = NoOne
  BY HitsAreTyped
<1>2. IsList(s) /\ \A n \in 1 .. Len(s) : s[n] \in Others
  BY <1>1, ListsAre
<1>3. QED BY <1>1, <1>2 DEF AllPass, Passes

LEMMA TurnsPass ==
  ASSUME NEW q, NEW scopes, NEW k \in Nat, NEW f
  PROVE  AllPass(RecentTurns(q, scopes, k), f)
<1>1. CASE "working" \in q.failed \/ "working" \notin scopes
  BY <1>1, NonePass DEF RecentTurns
<1>2. CASE ~ ("working" \in q.failed \/ "working" \notin scopes)
  <2> DEFINE S == {Turns[n] : n \in DOMAIN Turns}
             a == IF Len(Turns) > k THEN Len(Turns) - k + 1 ELSE 1
             b == Len(Turns)
             t == SubSeq(Turns, a, b)
  <2>1. Turns \in Seq(S) /\ \A r \in S : IsHit(r) /\ r.scope = NoOne
    BY HitsAreTyped
  <2> HIDE DEF S
  <2>2. b \in Nat /\ a \in Int /\ a >= 1 /\ DOMAIN Turns = 1 .. b
    BY <2>1
  <2>3. \A i \in 1 .. b : Turns[i] \in S
    BY <2>1, <2>2
  <2> HIDE DEF a, b
  <2>4. \A i \in a .. b : Turns[i] \in S
    BY <2>2, <2>3
  <2>5. t \in Seq(S)
    BY <2>2, <2>4, SubSeqProperties
  <2> HIDE DEF t
  <2>6. Len(t) \in Nat /\ t = [n \in 1 .. Len(t) |-> t[n]] /\ \A n \in 1 .. Len(t) : t[n] \in S
    BY <2>5
  <2>7. AllPass(t, f)
    BY <2>1, <2>6 DEF AllPass, Passes, IsList
  <2>8. RecentTurns(q, scopes, k) = t
    BY <1>2 DEF RecentTurns, t, a, b
  <2>9. QED BY <2>7, <2>8
<1>3. QED BY <1>1, <1>2

(* A pillar's search: what it found of its own, given the shares of ranks. *)
LEMMA PillarPass ==
  ASSUME NEW q, q.others \in Lists(Others), NEW p, NEW scopes, NEW k \in Nat, NEW f
  PROVE  AllPass(FromPillar(q, p, scopes, k), f)
<1>1. CASE p \in q.failed \/ p \notin scopes
  BY <1>1, NonePass DEF FromPillar
<1>2. CASE ~ (p \in q.failed \/ p \notin scopes)
  <2> DEFINE s == q.others
             W == {n \in DOMAIN s : s[n].pillar = p}
  <2>1. AllPass(s, f)
    BY OthersPass
  <2> HIDE DEF s
  <2>2. IsList(s) /\ DOMAIN s = 1 .. Len(s) /\ \A n \in 1 .. Len(s) : Passes(s[n], f)
    BY <2>1, ListIs DEF AllPass
  <2>3. W \in SUBSET (1 .. Len(s)) /\ \A n \in W : Passes(s[n], f)
    BY <2>2
  <2> HIDE DEF W
  <2>4. AllPass(Chosen(s, W), f)
    BY <2>2, <2>3, ChosenPass
  <2>5. AllPass(Normalized(Take(Chosen(s, W), k)), f)
    BY <2>4, TakePass, NormalizedPass
  <2>6. QED BY <1>2, <2>5 DEF FromPillar, OfPillar, s, W
<1>3. QED BY <1>1, <1>2

(* The search of memory_items asks for what is shared by either of its two *)
(* marks; one transaction sets them both.                                  *)
LEMMA MemoriesPass ==
  ASSUME NEW q, AllHits(q.vec), AllHits(q.kw), NEW scopes, NEW k \in Nat
  PROVE  AllPass(FromMemories(q, scopes, k), q.reader)
<1> DEFINE Seen(hits) == {n \in DOMAIN hits : Where(q.reader, hits[n]) /\ hits[n].pillar \in scopes}
<1>1. CASE "memories" \in q.failed
  BY <1>1, NonePass DEF FromMemories
<1>2. CASE "memories" \notin q.failed
  <2>1. ASSUME NEW s, AllHits(s)
        PROVE  AllPass(Take(Chosen(s, Seen(s)), k), q.reader)
    <3>1. IsList(s) /\ DOMAIN s = 1 .. Len(s) /\ \A n \in 1 .. Len(s) : IsHit(s[n])
      BY <2>1, ListIs DEF AllHits
    <3>2. Seen(s) \in SUBSET (1 .. Len(s))
      BY <3>1
    <3>3. ASSUME NEW n \in Seen(s)
          PROVE  Passes(s[n], q.reader)
      <4>1. IsHit(s[n]) /\ (Reaches(q.reader, s[n]) \/ s[n].listed)
        BY <3>1 DEF Where
      <4>2. s[n].listed => s[n].visibility = "shared"
        BY <4>1 DEF IsHit
      <4>3. Reaches(q.reader, s[n])
        BY <4>1, <4>2 DEF Reaches
      <4>4. QED BY <4>1, <4>3 DEF Passes
    <3> HIDE DEF Seen
    <3>4. AllPass(Chosen(s, Seen(s)), q.reader)
      BY <3>1, <3>2, <3>3, ChosenPass
    <3>5. QED BY <3>4, TakePass
  <2> DEFINE v == Take(Chosen(q.vec, Seen(q.vec)), k)
             w == Take(Chosen(q.kw, Seen(q.kw)), k)
  <2>2. AllPass(v, q.reader) /\ AllPass(w, q.reader)
    BY <2>1
  <2>3. FromMemories(q, scopes, k) = Fused(v, w)
    BY <1>2 DEF FromMemories
  <2> HIDE DEF v, w
  <2>4. QED BY <2>2, <2>3, FusedPass
<1>3. QED BY <1>1, <1>2

LEMMA GatheredPass ==
  ASSUME NEW q, AllHits(q.vec), AllHits(q.kw), q.others \in Lists(Others),
         NEW scopes, NEW k \in Nat
  PROVE  AllPass(Gathered(q, scopes, k), q.reader)
<1> DEFINE a == FromMemories(q, scopes, k)
           P(p) == FromPillar(q, p, scopes, k)
<1>1. AllPass(a, q.reader)
  BY MemoriesPass
<1>2. \A p : AllPass(P(p), q.reader)
  BY PillarPass
<1>3. Gathered(q, scopes, k) = a \o P("procedural") \o P("skill") \o P("strategic") \o P("work")
  BY DEF Gathered
<1> HIDE DEF a, P
<1>4. AllPass(a \o P("procedural"), q.reader)
  BY <1>1, <1>2, JoinedPass
<1>5. AllPass(a \o P("procedural") \o P("skill"), q.reader)
  BY <1>2, <1>4, JoinedPass
<1>6. AllPass(a \o P("procedural") \o P("skill") \o P("strategic"), q.reader)
  BY <1>2, <1>5, JoinedPass
<1>7. QED BY <1>2, <1>3, <1>6, JoinedPass

(* The second check drops nothing: what the search asked for, it passes.   *)
LEMMA RecheckIsIdentity ==
  ASSUME NEW s, NEW f, AllPass(s, f)
  PROVE  Recheck(s, f) = s
<1> DEFINE W == {n \in DOMAIN s : s[n].scope = NoOne \/ Reaches(f, s[n])}
<1>1. IsList(s) /\ DOMAIN s = 1 .. Len(s) /\ \A n \in 1 .. Len(s) : Passes(s[n], f)
  BY ListIs DEF AllPass
<1>2. W = 1 .. Len(s)
  BY <1>1 DEF Passes
<1>3. Chosen(s, W) = s
  <2> HIDE DEF W
  <2>1. QED BY <1>1, <1>2, AllChosen
<1>4. QED BY <1>3 DEF Recheck

LEMMA RerankPass ==
  ASSUME NEW s, NEW f, AllPass(s, f), NEW k \in Nat
  PROVE  /\ AllPass(Rerank(s, k), f)
         /\ Len(s) <= k => Ids(Rerank(s, k)) = Ids(s) /\ Len(Rerank(s, k)) = Len(s)
<1> DEFINE t == Ranked(s, Scores(s))
<1>1. IsList(s) /\ Scored(s)
  BY AllPassScored
<1>2. DOMAIN s = 1 .. Len(s) /\ Scores(s) \in [1 .. Len(s) -> Int] /\ IsList(t) /\ Len(t) = Len(s)
  BY <1>1, ScoresAre
<1>3. Scores(s) \in [DOMAIN s -> Int]
  BY <1>2
<1>4. AllPass(t, f) /\ Ids(t) = Ids(s)
  BY <1>3, RankedPass
<1>5. Rerank(s, k) = Take(t, k)
  BY <1>1, RerankIs
<1> HIDE DEF t
<1>6. AllPass(Take(t, k), f) /\ (Len(t) <= k => Take(t, k) = t)
  BY <1>2, <1>4, TakePass, TakeIs
<1>7. QED BY <1>2, <1>4, <1>5, <1>6

LEMMA BoostedPass ==
  ASSUME NEW s, NEW f, AllPass(s, f), NEW k \in Nat
  PROVE  /\ AllPass(RerankBoosted(s, k), f)
         /\ Len(s) <= k => Ids(RerankBoosted(s, k)) = Ids(s)
<1> DEFINE key == [n \in DOMAIN s |-> Boosted(s[n])]
           t == Ranked(s, key)
<1>1. IsList(s) /\ DOMAIN s = 1 .. Len(s) /\ \A n \in 1 .. Len(s) : IsHit(s[n])
  BY ListIs DEF AllPass, Passes
<1>2. \A n \in 1 .. Len(s) : Boosted(s[n]) \in Int
  BY <1>1, HitScores
<1>3. key \in [DOMAIN s -> Int]
  BY <1>1, <1>2
<1>4. RerankBoosted(s, k) = Take(t, k)
  BY DEF RerankBoosted
<1> HIDE DEF key
<1>5. AllPass(t, f) /\ Ids(t) = Ids(s) /\ IsList(t) /\ Len(t) = Len(s)
  BY <1>1, <1>3, RankedPass, RankedIs
<1> HIDE DEF t
<1>6. AllPass(Take(t, k), f) /\ (Len(t) <= k => Take(t, k) = t)
  BY <1>5, TakePass, TakeIs
<1>7. QED BY <1>4, <1>5, <1>6

LEMMA IdsJoined ==
  ASSUME NEW s, IsList(s), NEW t, IsList(t)
  PROVE  Ids(s \o t) = Ids(s) \cup Ids(t)
<1> DEFINE u == s \o t
<1>1. /\ IsList(u) /\ Len(u) = Len(s) + Len(t)
      /\ \A n \in 1 .. Len(s) : u[n] = s[n]
      /\ \A n \in 1 .. Len(t) : u[Len(s) + n] = t[n]
  BY Joined
<1>2. Len(s) \in Nat /\ Len(t) \in Nat
  BY DEF IsList
<1>3. DOMAIN u = 1 .. Len(u) /\ DOMAIN s = 1 .. Len(s) /\ DOMAIN t = 1 .. Len(t)
  BY <1>1, ListIs
<1> HIDE DEF u
<1>4. ASSUME NEW x \in Ids(u)
      PROVE  x \in Ids(s) \cup Ids(t)
  <2>1. PICK n \in 1 .. Len(u) : x = u[n].id
    BY <1>3 DEF Ids
  <2>2. CASE n <= Len(s)
    <3>1. n \in DOMAIN s /\ u[n] = s[n]
      BY <1>1, <1>2, <1>3, <2>2
    <3>2. QED BY <2>1, <3>1 DEF Ids
  <2>3. CASE ~ (n <= Len(s))
    <3>1. n - Len(s) \in 1 .. Len(t) /\ Len(s) + (n - Len(s)) = n
      BY <1>1, <1>2, <2>3
    <3>2. n - Len(s) \in DOMAIN t /\ u[n] = t[n - Len(s)]
      BY <1>1, <1>3, <3>1
    <3>3. QED BY <2>1, <3>2 DEF Ids
  <2>4. QED BY <2>2, <2>3
<1>5. ASSUME NEW x \in Ids(s)
      PROVE  x \in Ids(u)
  <2>1. PICK n \in 1 .. Len(s) : x = s[n].id
    BY <1>3 DEF Ids
  <2>2. n \in DOMAIN u /\ u[n] = s[n]
    BY <1>1, <1>2, <1>3
  <2>3. QED BY <2>1, <2>2 DEF Ids
<1>6. ASSUME NEW x \in Ids(t)
      PROVE  x \in Ids(u)
  <2>1. PICK n \in 1 .. Len(t) : x = t[n].id
    BY <1>3 DEF Ids
  <2>2. Len(s) + n \in DOMAIN u /\ u[Len(s) + n] = t[n]
    BY <1>1, <1>2, <1>3
  <2>3. QED BY <2>1, <2>2 DEF Ids
<1>7. QED BY <1>4, <1>5, <1>6 DEF u

(* The answer is the best of everything found and allowed, as if ranked    *)
(* once: neither the search's own cut nor its second permission check      *)
(* loses a record, and a boost only reorders what fits (MemoryFacade.recall,*)
(* SecureRetrieval.search).                                                *)
THEOREM RecallIsBest ==
  ASSUME NEW q, AllHits(q.vec), AllHits(q.kw), q.others \in Lists(Others),
         NEW scope, NEW k \in Nat
  PROVE  AnswersBest(q, k, scope)
<1> DEFINE sc == IF scope = {} THEN Pillars ELSE scope
           G == Gathered(q, sc, k)
           T == RecentTurns(q, sc, k)
           A == Rerank(G, k)
           f == q.reader
           all == G \o T
           V == A \o T
<1>1. AllPass(G, f) /\ AllPass(T, f)
  BY GatheredPass, TurnsPass
<1>2. IsList(G) /\ Scored(G) /\ IsList(T) /\ Scored(T) /\ Len(G) \in Nat /\ Len(T) \in Nat
  <2> HIDE DEF G, T, f
  <2>1. QED BY <1>1, AllPassScored DEF IsList
<1>3. SecureSearch(q, sc, k) = Recheck(A, f)
  BY DEF SecureSearch
<1>4. MemoryRecall(q, scope, k, FALSE) = Rerank(SecureSearch(q, sc, k) \o T, k)
  BY DEF MemoryRecall, Recall
<1>5. MemoryRecall(q, scope, k, TRUE) = RerankBoosted(SecureSearch(q, sc, k) \o T, k)
  BY DEF MemoryRecall, Recall
<1> HIDE DEF G, T, f
<1>6. AllPass(A, f) /\ (Len(G) <= k => Ids(A) = Ids(G) /\ Len(A) = Len(G))
  BY <1>1, RerankPass
<1>7. Rerank(V, k) = Rerank(all, k)
  BY <1>2, CutTwiceIsCutOnce
<1> HIDE DEF A
<1>8. SecureSearch(q, sc, k) = A
  BY <1>3, <1>6, RecheckIsIdentity
<1>9. MemoryRecall(q, scope, k, FALSE) = Rerank(all, k)
  BY <1>4, <1>7, <1>8
<1>10. /\ AllPass(all, f) /\ AllPass(V, f) /\ Len(all) = Len(G) + Len(T) /\ Len(V) = Len(A) + Len(T)
       /\ Ids(all) = Ids(G) \cup Ids(T) /\ Ids(V) = Ids(A) \cup Ids(T)
  <2>1. IsList(A)
    BY <1>6 DEF AllPass
  <2>2. QED BY <1>1, <1>2, <1>6, <2>1, JoinedPass, IdsJoined, Joined
<1> HIDE DEF all, V
<1>11. ASSUME Len(all) <= k
       PROVE  Ids(MemoryRecall(q, scope, k, TRUE)) = Ids(MemoryRecall(q, scope, k, FALSE))
  <2>1. Len(G) <= k
    BY <1>2, <1>10, <1>11
  <2>2. Len(V) <= k /\ Ids(V) = Ids(all)
    BY <1>6, <1>10, <1>11, <2>1
  <2>3. Ids(RerankBoosted(V, k)) = Ids(V)
    BY <1>10, <2>2, BoostedPass
  <2>4. Ids(Rerank(all, k)) = Ids(all)
    BY <1>10, <1>11, RerankPass
  <2>5. MemoryRecall(q, scope, k, TRUE) = RerankBoosted(V, k)
    BY <1>5, <1>8 DEF V
  <2>6. QED BY <1>9, <2>2, <2>3, <2>4, <2>5
<1>12. QED BY <1>9, <1>11 DEF AnswersBest, all, G, T

(* What recall answers is a list, and what is added to it is one.          *)
LEMMA RecallIsList ==
  ASSUME NEW q, AllHits(q.vec), AllHits(q.kw), q.others \in Lists(Others),
         NEW scopes, NEW k \in Nat, NEW boost
  PROVE  IsList(Recall(q, scopes, k, boost))
<1> DEFINE G == Gathered(q, scopes, k)
           T == RecentTurns(q, scopes, k)
           A == Rerank(G, k)
           f == q.reader
           V == Recheck(A, f) \o T
<1>1. AllPass(G, f) /\ AllPass(T, f)
  BY GatheredPass, TurnsPass
<1>2. Recall(q, scopes, k, boost) = IF boost THEN RerankBoosted(V, k) ELSE Rerank(V, k)
  BY DEF Recall, SecureSearch
<1> HIDE DEF G, T, f
<1>3. AllPass(A, f)
  BY <1>1, RerankPass
<1> HIDE DEF A
<1>4. AllPass(Recheck(A, f) \o T, f)
  BY <1>1, <1>3, RecheckIsIdentity, JoinedPass
<1> HIDE DEF V
<1>5. AllPass(V, f)
  BY <1>4 DEF V
<1>6. AllPass(Rerank(V, k), f) /\ AllPass(RerankBoosted(V, k), f)
  BY <1>5, RerankPass, BoostedPass
<1>7. IsList(Rerank(V, k)) /\ IsList(RerankBoosted(V, k))
  BY <1>6 DEF AllPass
<1>8. CASE boost
  BY <1>2, <1>7, <1>8
<1>9. CASE ~ boost
  BY <1>2, <1>7, <1>9
<1>10. QED BY <1>8, <1>9

LEMMA ImageFinite ==
  ASSUME NEW S, IsFiniteSet(S), NEW f
  PROVE  IsFiniteSet({f[x] : x \in S})
<1> DEFINE T == {f[x] : x \in S}
           g == [x \in S |-> f[x]]
<1>1. g \in [S -> T] /\ \A t \in T : \E x \in S : g[x] = t
  OBVIOUS
<1> HIDE DEF T, g
<1>2. g \in Surjection(S, T)
  BY <1>1 DEF Surjection
<1>3. IsFiniteSet(T)
  BY <1>2, FS_Surjection
<1>4. QED BY <1>3 DEF T

LEMMA GraphHitsFinite == IsFiniteSet(GraphHits)
<1> DEFINE From == {e[1] : e \in Edges}
           To == {e[2] : e \in Edges}
           Names == UNION {Related(name) : name \in OpenFiles}
<1>1. IsFiniteSet(Edges)
  BY HitsAreTyped
<1>2. IsFiniteSet(From) /\ IsFiniteSet(To)
  <2> DEFINE f == [e \in Edges |-> e[1]]
             g == [e \in Edges |-> e[2]]
  <2>1. From = {f[e] : e \in Edges} /\ To = {g[e] : e \in Edges}
    OBVIOUS
  <2> HIDE DEF f, g
  <2>2. IsFiniteSet({f[e] : e \in Edges}) /\ IsFiniteSet({g[e] : e \in Edges})
    BY <1>1, ImageFinite
  <2>3. QED BY <2>1, <2>2
<1>3. IsFiniteSet(From \cup To)
  BY <1>2, FS_Union
<1>4. ASSUME NEW name
      PROVE  Related(name) \subseteq From \cup To
  BY DEF Related
<1>5. Names \in SUBSET (From \cup To)
  BY <1>4
<1> HIDE DEF From, To, Names
<1>6. IsFiniteSet(Names)
  BY <1>3, <1>5, FS_Subset
<1>7. IsFiniteSet({GraphHit(n) : n \in Names})
  <2> DEFINE f == [n \in Names |-> GraphHit(n)]
  <2>1. {GraphHit(n) : n \in Names} = {f[n] : n \in Names}
    OBVIOUS
  <2> HIDE DEF f
  <2>2. QED BY <1>6, <2>1, ImageFinite
<1>8. QED BY <1>7 DEF GraphHits, Names

(* Every pack of a question is a beginning of what it packs, over budget   *)
(* only by a single record (pack_records, think).                          *)
THEOREM PacksAreWell ==
  ASSUME NEW q, AllHits(q.vec), AllHits(q.kw), q.others \in Lists(Others),
         NEW k \in Nat, NEW b
  PROVE  PacksWell(q, k, b)
<1>1. IsPack(Think(q, k, FALSE, b), MemoryRecall(q, {}, k, FALSE), b)
  <2> DEFINE r == Recall(q, Pillars, k, FALSE)
  <2>1. IsList(r)
    BY RecallIsList
  <2>2. Think(q, k, FALSE, b) = Packed(r, b) /\ MemoryRecall(q, {}, k, FALSE) = r
    BY DEF Think, Sources, MemoryRecall
  <2> HIDE DEF r
  <2>3. QED BY <2>1, <2>2, PacksAreBeginnings
<1>2. ASSUME NEW graph \in Lists(GraphHits)
      PROVE  IsPack(AssembleContext(q, graph, k, TRUE, b), Candidate(q, graph, k, TRUE), b)
  <2> DEFINE r == Recall(q, Pillars \cup {"working"}, k, TRUE)
  <2>1. IsList(r) /\ IsList(graph)
    BY RecallIsList, GraphHitsFinite, ListsAre
  <2>2. /\ AssembleContext(q, graph, k, TRUE, b) = Packed(Candidate(q, graph, k, TRUE), b)
        /\ Candidate(q, graph, k, TRUE) = r \o graph
    BY DEF AssembleContext, Candidate
  <2> HIDE DEF r
  <2>3. IsList(r \o graph)
    BY <2>1, Joined
  <2>4. QED BY <2>2, <2>3, PacksAreBeginnings
<1>3. QED BY <1>1, <1>2 DEF PacksWell

----------------------------------------------------------------------------
(* Lists of hits with an id each, as a search cuts them.                   *)
Distinct(s, k) ==
  /\ IsList(s) /\ Len(s) <= k
  /\ \A i, j \in 1 .. Len(s) : s[i].id = s[j].id => i = j

(* The place of an id is the position it has.                              *)
LEMMA PlaceIs ==
  ASSUME NEW s, IsList(s), \A i, j \in 1 .. Len(s) : s[i].id = s[j].id => i = j
  PROVE  /\ \A i \in 1 .. Len(s) : Place(s, s[i].id) = i
         /\ \A id \in Ids(s) : Place(s, id) \in 1 .. Len(s) /\ s[Place(s, id)].id = id
<1>1. DOMAIN s = 1 .. Len(s)
  BY ListIs
<1>2. ASSUME NEW id \in Ids(s)
      PROVE  Place(s, id) \in 1 .. Len(s) /\ s[Place(s, id)].id = id
  <2>1. \E n \in DOMAIN s : s[n].id = id
    BY DEF Ids
  <2>2. QED BY <1>1, <2>1 DEF Place
<1>3. ASSUME NEW i \in 1 .. Len(s)
      PROVE  Place(s, s[i].id) = i
  <2>1. s[i].id \in Ids(s)
    BY <1>1 DEF Ids
  <2>2. Place(s, s[i].id) \in 1 .. Len(s) /\ s[Place(s, s[i].id)].id = s[i].id
    BY <1>2, <2>1
  <2>3. QED BY <2>2
<1>4. QED BY <1>2, <1>3

(* What is left of a whole when it is divided: less by the larger number,  *)
(* if the whole is fine enough, and half of it more than by half of that.  *)
LEMMA QuotientIs ==
  ASSUME NEW w \in Nat, NEW d \in Nat, d >= 1
  PROVE  w \div d \in Nat /\ d * (w \div d) <= w /\ w < d * (w \div d) + d
  OBVIOUS

LEMMA QuotientsDiffer ==
  ASSUME NEW w \in Nat, NEW a \in Nat, NEW b \in Nat, a < b, w >= b * b,
         NEW x \in Nat, NEW y \in Nat, w < a * x + a, b * y <= w, w < b * y + b
  PROVE  x > y
<1>1. SUFFICES ASSUME x <= y PROVE FALSE
  OBVIOUS
<1>2. a * x <= a * y
  BY <1>1
<1>3. a * y <= (b - 1) * y
  OBVIOUS
<1>4. b * y <= (b - 1) * y + b - 1
  BY <1>2, <1>3
<1>5. y <= b - 1
  BY <1>4
<1>6. w < b * (b - 1) + b
  BY <1>5
<1>7. QED BY <1>6

LEMMA TwoAreMore ==
  ASSUME NEW w \in Nat, NEW b \in Nat, b <= 2 * RRF_K + 1, w >= b * (b + 1),
         NEW x \in Nat, NEW y \in Nat, (RRF_K + 1) * x <= w, b * y <= w, w < b * y + b
  PROVE  2 * y > x
<1>1. SUFFICES ASSUME 2 * y <= x PROVE FALSE
  OBVIOUS
<1>2. b <= 121 /\ 61 * x <= w
  BY DEF RRF_K
<1>3. y >= b
  <2>1. SUFFICES ASSUME y <= b - 1 PROVE FALSE
    OBVIOUS
  <2>2. b * y <= b * (b - 1)
    BY <2>1
  <2>3. QED BY <2>2
<1>4. 122 * y <= w
  BY <1>1, <1>2
<1>5. b * y <= 121 * y
  BY <1>2
<1>6. y < b
  BY <1>4, <1>5
<1>7. QED BY <1>3, <1>6

(* The shares of the ranks a search may give differ: the earlier has the   *)
(* more, and two of any are more than one.                                 *)
LEMMA SharesDiffer ==
  ASSUME NEW k \in Limits
  PROVE  /\ k \in Nat /\ \A p \in 1 .. k : Share(p) \in Nat
         /\ \A p, q \in 1 .. k : p < q => Share(p) > Share(q)
         /\ \A p, q, r \in 1 .. k : Share(p) + Share(q) > Share(r)
<1>1. /\ Whole \in Nat /\ k \in Nat /\ 1 <= k /\ k <= RRF_K + 1
      /\ Whole >= (RRF_K + k) * (RRF_K + k + 1)
  BY UnitIsFine DEF RRF_K
<1>2. ASSUME NEW p \in 1 .. k
      PROVE  /\ RRF_K + p \in Nat /\ RRF_K + p >= 1 /\ Share(p) \in Nat
             /\ (RRF_K + p) * Share(p) <= Whole
             /\ Whole < (RRF_K + p) * Share(p) + (RRF_K + p)
             /\ Whole >= (RRF_K + p) * (RRF_K + p) /\ p \in Nat
  <2>1. RRF_K + p \in Nat /\ RRF_K + p >= 1 /\ p \in Nat /\ p <= k
    BY <1>1 DEF RRF_K
  <2>2. (RRF_K + p) * (RRF_K + p) <= (RRF_K + k) * (RRF_K + k + 1)
    BY <1>1, <2>1 DEF RRF_K
  <2>3. Share(p) = Whole \div (RRF_K + p)
    BY DEF Share
  <2>4. /\ Share(p) \in Nat /\ (RRF_K + p) * Share(p) <= Whole
        /\ Whole < (RRF_K + p) * Share(p) + (RRF_K + p)
    BY <1>1, <2>1, <2>3, QuotientIs
  <2>5. QED BY <1>1, <2>1, <2>2, <2>4 DEF RRF_K
<1>3. ASSUME NEW p \in 1 .. k, NEW q \in 1 .. k, p < q
      PROVE  Share(p) > Share(q)
  <2>1. RRF_K + p < RRF_K + q
    BY <1>1, <1>3 DEF RRF_K
  <2>2. QED BY <1>1, <1>2, <2>1, QuotientsDiffer
<1>4. 1 \in 1 .. k /\ k \in 1 .. k
  BY <1>1
<1>5. 2 * Share(k) > Share(1)
  <2>1. RRF_K + k <= 2 * RRF_K + 1
    BY <1>1 DEF RRF_K
  <2>2. QED BY <1>1, <1>2, <1>4, <2>1, TwoAreMore
<1>6. ASSUME NEW p \in 1 .. k
      PROVE  Share(p) >= Share(k) /\ Share(1) >= Share(p) /\ Share(p) \in Nat
  <2>1. p = k \/ p < k
    BY <1>1
  <2>2. p = 1 \/ 1 < p
    BY <1>1
  <2>3. Share(p) \in Nat /\ Share(k) \in Nat /\ Share(1) \in Nat
    BY <1>2, <1>4
  <2>4. Share(p) >= Share(k)
    BY <1>3, <1>4, <2>1, <2>3
  <2>5. Share(1) >= Share(p)
    BY <1>3, <1>4, <2>2, <2>3
  <2>6. QED BY <2>3, <2>4, <2>5
<1>7. ASSUME NEW p \in 1 .. k, NEW q \in 1 .. k, NEW r \in 1 .. k
      PROVE  Share(p) + Share(q) > Share(r)
  <2>1. /\ Share(p) \in Nat /\ Share(q) \in Nat /\ Share(r) \in Nat
        /\ Share(1) \in Nat /\ Share(k) \in Nat
    BY <1>4, <1>6
  <2>2. Share(p) >= Share(k) /\ Share(q) >= Share(k) /\ Share(1) >= Share(r)
    BY <1>6
  <2>3. QED BY <1>5, <2>1, <2>2
<1>8. QED BY <1>1, <1>3, <1>6, <1>7

----------------------------------------------------------------------------
(* The share of an id in a list is none, or that of its place.             *)
LEMMA SharesInList ==
  ASSUME NEW k \in Limits, NEW s, Distinct(s, k)
  PROVE  /\ \A id \in Ids(s) : /\ Place(s, id) \in 1 .. k
                               /\ ShareIn(s, id) = Share(Place(s, id)) /\ ShareIn(s, id) \in Nat
         /\ \A id : id \notin Ids(s) => ShareIn(s, id) = 0
         /\ \A a, b \in Ids(s) : Place(s, a) < Place(s, b) => ShareIn(s, a) > ShareIn(s, b)
<1>1. IsList(s) /\ Len(s) \in Nat /\ Len(s) <= k /\ k \in Nat
  BY SharesDiffer DEF Distinct, IsList
<1>2. ASSUME NEW id \in Ids(s)
      PROVE  /\ Place(s, id) \in 1 .. k
             /\ ShareIn(s, id) = Share(Place(s, id)) /\ ShareIn(s, id) \in Nat
  <2>1. Place(s, id) \in 1 .. Len(s)
    BY <1>1, PlaceIs DEF Distinct
  <2>2. Place(s, id) \in 1 .. k
    BY <1>1, <2>1
  <2>3. ShareIn(s, id) = Share(Place(s, id))
    BY DEF ShareIn
  <2>4. Share(Place(s, id)) \in Nat
    BY <2>2, SharesDiffer
  <2>5. QED BY <2>2, <2>3, <2>4
<1>3. ASSUME NEW a \in Ids(s), NEW b \in Ids(s), Place(s, a) < Place(s, b)
      PROVE  ShareIn(s, a) > ShareIn(s, b)
  <2>1. Place(s, a) \in 1 .. k /\ Place(s, b) \in 1 .. k
    BY <1>2
  <2>2. Share(Place(s, a)) > Share(Place(s, b))
    BY <1>3, <2>1, SharesDiffer
  <2>3. QED BY <1>2, <2>2
<1>4. \A id : id \notin Ids(s) => ShareIn(s, id) = 0
  BY DEF ShareIn
<1>5. QED BY <1>2, <1>3, <1>4

(* What no list orders the other way, or only one has found, scores less.  *)
LEMMA FusedScoresOrder ==
  ASSUME NEW k \in Limits, NEW s, Distinct(s, k), NEW t, Distinct(t, k),
         NEW a \in Ids(s) \cup Ids(t), NEW b \in Ids(s) \cup Ids(t),
         \/ a # b /\ Ahead(s, a, b) /\ Ahead(t, a, b)
         \/ a \in Ids(s) \cap Ids(t) /\ b \notin Ids(s) \cap Ids(t)
  PROVE  FusedScore(s, t, a) > FusedScore(s, t, b)
<1>1. ASSUME NEW u, Distinct(u, k)
      PROVE  /\ ShareIn(u, a) \in Nat /\ ShareIn(u, b) \in Nat
             /\ b \notin Ids(u) => ShareIn(u, b) = 0
             /\ Ahead(u, a, b) /\ b \in Ids(u) => ShareIn(u, a) > ShareIn(u, b)
  <2>1. /\ \A id \in Ids(u) : ShareIn(u, id) \in Nat
        /\ \A id : id \notin Ids(u) => ShareIn(u, id) = 0
        /\ \A x, y \in Ids(u) : Place(u, x) < Place(u, y) => ShareIn(u, x) > ShareIn(u, y)
    BY <1>1, SharesInList
  <2>2. ShareIn(u, a) \in Nat
    BY <2>1
  <2>3. ShareIn(u, b) \in Nat
    BY <2>1
  <2>4. ASSUME Ahead(u, a, b), b \in Ids(u)
        PROVE  ShareIn(u, a) > ShareIn(u, b)
    BY <2>1, <2>4 DEF Ahead
  <2>5. QED BY <2>1, <2>2, <2>3, <2>4
<1>2. /\ ShareIn(s, a) \in Nat /\ ShareIn(s, b) \in Nat
      /\ ShareIn(t, a) \in Nat /\ ShareIn(t, b) \in Nat
      /\ b \notin Ids(s) => ShareIn(s, b) = 0
      /\ b \notin Ids(t) => ShareIn(t, b) = 0
      /\ Ahead(s, a, b) /\ b \in Ids(s) => ShareIn(s, a) > ShareIn(s, b)
      /\ Ahead(t, a, b) /\ b \in Ids(t) => ShareIn(t, a) > ShareIn(t, b)
  BY <1>1
<1>3. CASE a # b /\ Ahead(s, a, b) /\ Ahead(t, a, b)
  <2>1. ShareIn(s, a) >= ShareIn(s, b) /\ ShareIn(t, a) >= ShareIn(t, b)
    BY <1>2, <1>3
  <2>2. ShareIn(s, a) > ShareIn(s, b) \/ ShareIn(t, a) > ShareIn(t, b)
    BY <1>2, <1>3
  <2>3. QED BY <1>2, <2>1, <2>2 DEF FusedScore
<1>4. CASE a \in Ids(s) \cap Ids(t) /\ b \notin Ids(s) \cap Ids(t)
  <2>1. /\ Place(s, a) \in 1 .. k /\ ShareIn(s, a) = Share(Place(s, a))
        /\ Place(t, a) \in 1 .. k /\ ShareIn(t, a) = Share(Place(t, a))
    BY <1>4, SharesInList
  <2>2. CASE b \in Ids(s)
    <3>1. ShareIn(t, b) = 0
      BY <1>2, <1>4, <2>2
    <3>2. Place(s, b) \in 1 .. k /\ ShareIn(s, b) = Share(Place(s, b))
      BY <2>2, SharesInList
    <3>3. Share(Place(s, a)) + Share(Place(t, a)) > Share(Place(s, b))
      BY <2>1, <3>2, SharesDiffer
    <3>4. ShareIn(s, a) + ShareIn(t, a) > ShareIn(s, b) + ShareIn(t, b)
      BY <1>2, <2>1, <3>1, <3>2, <3>3
    <3>5. QED BY <3>4 DEF FusedScore
  <2>3. CASE b \notin Ids(s)
    <3>1. b \in Ids(t) /\ ShareIn(s, b) = 0
      BY <1>2, <2>3
    <3>2. Place(t, b) \in 1 .. k /\ ShareIn(t, b) = Share(Place(t, b))
      BY <3>1, SharesInList
    <3>3. Share(Place(s, a)) + Share(Place(t, a)) > Share(Place(t, b))
      BY <2>1, <3>2, SharesDiffer
    <3>4. ShareIn(s, a) + ShareIn(t, a) > ShareIn(s, b) + ShareIn(t, b)
      BY <1>2, <2>1, <3>1, <3>2, <3>3
    <3>5. QED BY <3>4 DEF FusedScore
  <2>4. QED BY <2>2, <2>3
<1>5. QED BY <1>3, <1>4

(* Each hit is seen first in one of the lists, once.                       *)
LEMMA FirstSeenIs ==
  ASSUME NEW k \in Nat, NEW s, Distinct(s, k), NEW t, Distinct(t, k)
  PROVE  /\ IsList(FirstSeen(s, t)) /\ Ids(FirstSeen(s, t)) = Ids(s) \cup Ids(t)
         /\ \A i, j \in 1 .. Len(FirstSeen(s, t)) :
              FirstSeen(s, t)[i].id = FirstSeen(s, t)[j].id => i = j
<1> DEFINE W == {n \in DOMAIN t : t[n].id \notin Ids(s)}
           c == Chosen(t, W)
           u == s \o c
<1>1. IsList(s) /\ Len(s) \in Nat /\ IsList(t) /\ Len(t) \in Nat
  BY DEF Distinct, IsList
<1>2. DOMAIN s = 1 .. Len(s) /\ DOMAIN t = 1 .. Len(t)
  BY <1>1, ListIs
<1>3. W \in SUBSET (1 .. Len(t)) /\ \A n \in 1 .. Len(t) : n \in W <=> t[n].id \notin Ids(s)
  BY <1>2
<1>4. FirstSeen(s, t) = u
  BY DEF FirstSeen
<1> HIDE DEF W
<1>5. /\ IsList(c) /\ DOMAIN c = 1 .. Len(c)
      /\ \E at \in [1 .. Len(c) -> W] :
           /\ \A n \in 1 .. Len(c) : c[n] = t[at[n]]
           /\ \A n, m \in 1 .. Len(c) : at[n] = at[m] => n = m
           /\ \A i \in W : \E n \in 1 .. Len(c) : at[n] = i
  BY <1>1, <1>3, ChosenIs
<1> HIDE DEF c
<1>6. PICK at \in [1 .. Len(c) -> W] :
           /\ \A n \in 1 .. Len(c) : c[n] = t[at[n]]
           /\ \A n, m \in 1 .. Len(c) : at[n] = at[m] => n = m
           /\ \A i \in W : \E n \in 1 .. Len(c) : at[n] = i
  BY <1>5
<1>7. \A n \in 1 .. Len(c) : at[n] \in W /\ at[n] \in 1 .. Len(t)
  BY <1>3, <1>6
<1>8. Len(c) \in Nat
  BY <1>5 DEF IsList
<1>9. /\ IsList(u) /\ Len(u) = Len(s) + Len(c)
      /\ \A n \in 1 .. Len(s) : u[n] = s[n]
      /\ \A n \in 1 .. Len(c) : u[Len(s) + n] = c[n]
      /\ Ids(u) = Ids(s) \cup Ids(c)
  <2>1. /\ IsList(u) /\ Len(u) = Len(s) + Len(c)
        /\ \A n \in 1 .. Len(s) : u[n] = s[n]
        /\ \A n \in 1 .. Len(c) : u[Len(s) + n] = c[n]
    BY <1>1, <1>5, Joined
  <2>2. Ids(u) = Ids(s) \cup Ids(c)
    BY <1>1, <1>5, IdsJoined
  <2>3. QED BY <2>1, <2>2
<1> HIDE DEF u
<1>10. Ids(s) \cup Ids(c) = Ids(s) \cup Ids(t)
  <2>1. ASSUME NEW x \in Ids(c)
        PROVE  x \in Ids(t)
    <3>1. PICK n \in 1 .. Len(c) : x = c[n].id
      BY <1>5 DEF Ids
    <3>2. at[n] \in DOMAIN t /\ x = t[at[n]].id
      BY <1>2, <1>6, <1>7, <3>1
    <3>3. QED BY <3>2 DEF Ids
  <2>2. ASSUME NEW x \in Ids(t), x \notin Ids(s)
        PROVE  x \in Ids(c)
    <3>1. PICK i \in 1 .. Len(t) : x = t[i].id
      BY <1>2 DEF Ids
    <3>2. i \in W
      BY <1>3, <2>2, <3>1
    <3>3. PICK n \in 1 .. Len(c) : at[n] = i
      BY <1>6, <3>2
    <3>4. c[n].id = x
      BY <1>6, <3>1, <3>3
    <3>5. QED BY <1>5, <3>4 DEF Ids
  <2>3. QED BY <2>1, <2>2
<1>11. ASSUME NEW n \in 1 .. Len(c), NEW m \in 1 .. Len(c), c[n].id = c[m].id
       PROVE  n = m
  <2>1. t[at[n]].id = t[at[m]].id /\ at[n] \in 1 .. Len(t) /\ at[m] \in 1 .. Len(t)
    BY <1>6, <1>7, <1>11
  <2>2. at[n] = at[m]
    BY <2>1 DEF Distinct
  <2>3. QED BY <1>6, <2>2
<1>12. ASSUME NEW n \in 1 .. Len(s), NEW m \in 1 .. Len(c)
       PROVE  s[n].id # c[m].id
  <2>1. c[m].id \notin Ids(s)
    BY <1>3, <1>6, <1>7
  <2>2. s[n].id \in Ids(s)
    BY <1>2 DEF Ids
  <2>3. QED BY <2>1, <2>2
<1>13. ASSUME NEW i \in 1 .. Len(u)
       PROVE  \/ i \in 1 .. Len(s) /\ u[i] = s[i]
              \/ i - Len(s) \in 1 .. Len(c) /\ u[i] = c[i - Len(s)]
  <2>1. CASE i <= Len(s)
    BY <1>1, <1>9, <2>1
  <2>2. CASE ~ (i <= Len(s))
    <3>1. i - Len(s) \in 1 .. Len(c) /\ Len(s) + (i - Len(s)) = i
      BY <1>1, <1>8, <1>9, <2>2
    <3>2. QED BY <1>9, <3>1
  <2>3. QED BY <2>1, <2>2
<1>14. ASSUME NEW i \in 1 .. Len(u), NEW j \in 1 .. Len(u), u[i].id = u[j].id
       PROVE  i = j
  <2>1. i \in Int /\ j \in Int /\ Len(s) \in Int
    BY <1>1
  <2>2. CASE i \in 1 .. Len(s) /\ u[i] = s[i] /\ j \in 1 .. Len(s) /\ u[j] = s[j]
    BY <1>14, <2>2 DEF Distinct
  <2>3. CASE i - Len(s) \in 1 .. Len(c) /\ u[i] = c[i - Len(s)]
             /\ j - Len(s) \in 1 .. Len(c) /\ u[j] = c[j - Len(s)]
    <3>1. i - Len(s) = j - Len(s)
      BY <1>11, <1>14, <2>3
    <3>2. QED BY <2>1, <3>1
  <2>4. CASE i \in 1 .. Len(s) /\ u[i] = s[i]
             /\ j - Len(s) \in 1 .. Len(c) /\ u[j] = c[j - Len(s)]
    BY <1>12, <1>14, <2>4
  <2>5. CASE j \in 1 .. Len(s) /\ u[j] = s[j]
             /\ i - Len(s) \in 1 .. Len(c) /\ u[i] = c[i - Len(s)]
    BY <1>12, <1>14, <2>5
  <2>6. QED BY <1>13, <2>2, <2>3, <2>4, <2>5
<1>15. QED BY <1>4, <1>9, <1>10, <1>14

(* The hits of a list come each once, as many as it has ids.               *)
LEMMA DistinctCount ==
  ASSUME NEW s, IsList(s), \A i, j \in 1 .. Len(s) : s[i].id = s[j].id => i = j
  PROVE  Len(s) = Cardinality(Ids(s))
<1> DEFINE L == Len(s)
           S == 1 .. L
           T == Ids(s)
           f == [n \in S |-> s[n].id]
<1>1. L \in Nat /\ DOMAIN s = S
  BY ListIs DEF IsList
<1>2. f \in [S -> T] /\ \A x \in T : \E n \in S : f[n] = x
  BY <1>1 DEF Ids
<1>3. \A i, j \in S : f[i] = f[j] => i = j
  OBVIOUS
<1> HIDE DEF L, T, f
<1>4. f \in Bijection(S, T)
  <2> HIDE DEF S
  <2>1. f \in Injection(S, T) /\ f \in Surjection(S, T)
    BY <1>2, <1>3 DEF Injection, IsInjective, Surjection
  <2>2. QED BY <2>1 DEF Bijection
<1>5. IsFiniteSet(S)
  BY <1>1, FS_Interval
<1>6. Cardinality(T) = Cardinality(S)
  <2> HIDE DEF S
  <2>1. ExistsBijection(S, T)
    BY <1>4 DEF ExistsBijection
  <2>2. QED BY <1>5, <2>1, FS_Bijection
<1>7. Cardinality(S) = L
  <2>1. 1 \in Int /\ L \in Int
    BY <1>1
  <2>2. Cardinality(S) = IF 1 > L THEN 0 ELSE L - 1 + 1
    BY <2>1, FS_Interval
  <2>3. QED BY <1>1, <2>2
<1>8. QED BY <1>6, <1>7 DEF L, T

(* Fusing two searches turns no two hits round that no list orders that    *)
(* way, puts what both found before what one did, and neither loses nor    *)
(* repeats a hit, for as many ranks as the tools may ask for               *)
(* (reciprocal_rank_fusion).                                               *)
THEOREM FusionMergesWell ==
  ASSUME NEW k \in Limits, NEW s, Distinct(s, k), NEW t, Distinct(t, k)
  PROVE  MergesWell(s, t)
<1> DEFINE seen == FirstSeen(s, t)
           key == [n \in DOMAIN seen |-> FusedScore(s, t, seen[n].id)]
           merged == Ranked(seen, key)
           o == Order(DOMAIN seen, key)
           at(i) == Rank(DOMAIN seen, key, i)
           u == Fused(s, t)
           L == Len(seen)
<1>1. IsList(s) /\ IsList(t) /\ k \in Nat
  BY SharesDiffer DEF Distinct
<1>2. \A id : FusedScore(s, t, id) \in Nat
  BY <1>1, FusedScoreIsNat
<1>3. /\ IsList(seen) /\ Ids(seen) = Ids(s) \cup Ids(t)
      /\ \A i, j \in 1 .. L : seen[i].id = seen[j].id => i = j
  BY <1>1, FirstSeenIs
<1>4. key \in [DOMAIN seen -> Int] /\ \A n \in DOMAIN seen : key[n] = FusedScore(s, t, seen[n].id)
  BY <1>2
<1>5. u = [n \in DOMAIN merged |->
             [merged[n] EXCEPT !.score = FusedScore(s, t, merged[n].id)]]
  BY DEF Fused
<1> HIDE DEF seen, key, u
<1>6. /\ DOMAIN seen = 1 .. L /\ L \in Nat /\ IsList(merged) /\ Len(merged) = L
      /\ \A n \in 1 .. L : /\ o[n] \in DOMAIN seen
                           /\ at(o[n]) = n /\ merged[n] = seen[o[n]]
      /\ \A i \in DOMAIN seen : at(i) \in 1 .. L /\ merged[at(i)] = seen[i]
  BY <1>3, <1>4, RankedIs
<1>7. \A i, j \in DOMAIN seen : at(i) <= at(j) <=> NotAfter(key, i, j)
  <2>1. DOMAIN seen \in SUBSET Nat /\ IsFiniteSet(DOMAIN seen)
    <3>1. L \in Nat /\ DOMAIN seen = 1 .. L
      BY <1>6
    <3> HIDE DEF L
    <3>2. 1 .. L \in SUBSET Nat /\ IsFiniteSet(1 .. L)
      BY <3>1, FS_Interval
    <3>3. QED BY <3>1, <3>2
  <2>2. QED BY <1>4, <2>1, RanksOf
<1>8. DOMAIN merged = 1 .. L
  BY <1>6, ListIs
<1> HIDE DEF merged, o, at, L
<1>9. \A n \in 1 .. L : u[n].id = merged[n].id
  <2>1. ASSUME NEW n \in 1 .. L
        PROVE  u[n].id = merged[n].id
    <3>1. u[n] = [merged[n] EXCEPT !.score = FusedScore(s, t, merged[n].id)]
      BY <1>5, <1>8
    <3>2. QED BY <3>1
  <2>2. QED BY <2>1
<1>10. IsList(u) /\ Len(u) = L /\ DOMAIN u = 1 .. L
  <2>1. u = [n \in 1 .. L |-> u[n]]
    BY <1>5, <1>8
  <2>2. QED BY <1>6, <2>1, FunctionIsList
<1>11. \A i \in 1 .. L : at(i) \in 1 .. L /\ u[at(i)].id = seen[i].id
  BY <1>6, <1>9
<1>12. ASSUME NEW n \in 1 .. L, NEW m \in 1 .. L, u[n].id = u[m].id
       PROVE  n = m
  <2>1. seen[o[n]].id = seen[o[m]].id /\ o[n] \in 1 .. L /\ o[m] \in 1 .. L
    BY <1>6, <1>9, <1>12
  <2>2. o[n] = o[m]
    BY <1>3, <2>1
  <2>3. QED BY <1>6, <2>2
<1>13. Ids(u) = Ids(seen)
  <2>1. ASSUME NEW x \in Ids(u)
        PROVE  x \in Ids(seen)
    <3>1. PICK n \in 1 .. L : x = u[n].id
      BY <1>10 DEF Ids
    <3>2. o[n] \in DOMAIN seen /\ x = seen[o[n]].id
      BY <1>6, <1>9, <3>1
    <3>3. QED BY <3>2 DEF Ids
  <2>2. ASSUME NEW x \in Ids(seen)
        PROVE  x \in Ids(u)
    <3>1. PICK i \in 1 .. L : x = seen[i].id
      BY <1>6 DEF Ids
    <3>2. at(i) \in DOMAIN u /\ x = u[at(i)].id
      BY <1>10, <1>11, <3>1
    <3>3. QED BY <3>2 DEF Ids
  <2>3. QED BY <2>1, <2>2
<1>14. /\ Len(u) = Cardinality(Ids(u))
       /\ \A n \in 1 .. L : Place(u, u[n].id) = n
  BY <1>10, <1>12, DistinctCount, PlaceIs
<1>15. ASSUME NEW a \in Ids(u), NEW b \in Ids(u),
              FusedScore(s, t, a) > FusedScore(s, t, b)
       PROVE  Place(u, a) < Place(u, b)
  <2>1. PICK i \in 1 .. L : a = seen[i].id
    BY <1>6, <1>13 DEF Ids
  <2>2. PICK j \in 1 .. L : b = seen[j].id
    BY <1>6, <1>13 DEF Ids
  <2>3. key[i] > key[j] /\ key[i] \in Int /\ key[j] \in Int
    BY <1>4, <1>6, <1>15, <2>1, <2>2
  <2>4. ~ NotAfter(key, j, i)
    BY <2>3 DEF NotAfter
  <2>5. ~ (at(j) <= at(i)) /\ at(i) \in 1 .. L /\ at(j) \in 1 .. L
    BY <1>6, <1>7, <2>4
  <2>6. Place(u, a) = at(i) /\ Place(u, b) = at(j)
    BY <1>11, <1>14, <2>1, <2>2
  <2>7. QED BY <2>5, <2>6
<1>16. ASSUME NEW a \in Ids(u), NEW b \in Ids(u),
              \/ a # b /\ Ahead(s, a, b) /\ Ahead(t, a, b)
              \/ a \in Ids(s) \cap Ids(t) /\ b \notin Ids(s) \cap Ids(t)
       PROVE  Place(u, a) < Place(u, b)
  <2>1. a \in Ids(s) \cup Ids(t) /\ b \in Ids(s) \cup Ids(t)
    BY <1>3, <1>13
  <2>2. FusedScore(s, t, a) > FusedScore(s, t, b)
    BY <1>16, <2>1, FusedScoresOrder
  <2>3. QED BY <1>15, <2>2
<1>17. QED BY <1>3, <1>13, <1>14, <1>16 DEF MergesWell, u

----------------------------------------------------------------------------
(* The hits of some rows are finitely many, and differ in their ids.       *)
LEMMA HitsOf ==
  ASSUME NEW rows \in SUBSET Items
  PROVE  /\ IsFiniteSet({HitOf[i] : i \in rows})
         /\ \A r \in {HitOf[i] : i \in rows} : IsHit(r)
         /\ \A r, h \in {HitOf[i] : i \in rows} : r.id = h.id => r = h
<1>1. IsFiniteSet(rows)
  BY RowsAreHits, FS_Subset
<1>2. IsFiniteSet({HitOf[i] : i \in rows})
  BY <1>1, ImageFinite
<1>3. \A r \in {HitOf[i] : i \in rows} : IsHit(r)
  BY RowsAreHits
<1>4. \A r, h \in {HitOf[i] : i \in rows} : r.id = h.id => r = h
  BY RowsAreHits
<1>5. QED BY <1>2, <1>3, <1>4

(* Fusion keeps the order of whatever lists are made of a set of rows.     *)
THEOREM OrderIsKept ==
  ASSUME NEW rows \in SUBSET Items
  PROVE  KeepsOrder({HitOf[i] : i \in rows})
<1> DEFINE found == {HitOf[i] : i \in rows}
<1>1. IsFiniteSet(found) /\ \A r, h \in found : r.id = h.id => r = h
  BY HitsOf
<1> HIDE DEF found
<1>2. ASSUME NEW s \in Lists(found), NEW k \in Limits
      PROVE  Distinct(Take(s, k), k)
  <2>1. /\ IsList(s) /\ \A n \in 1 .. Len(s) : s[n] \in found
        /\ \A i, j \in 1 .. Len(s) : s[i] = s[j] => i = j
    BY <1>1, ListsAre
  <2>2. k \in Nat /\ Len(s) \in Nat
    BY <2>1, SharesDiffer DEF IsList
  <2> DEFINE c == Take(s, k)
             m == Least2(Len(s), k)
  <2>3. IsList(c) /\ Len(c) = m /\ \A n \in 1 .. m : c[n] = s[n]
    BY <2>1, <2>2, TakeIs
  <2>4. m <= k /\ \A n \in 1 .. m : n \in 1 .. Len(s)
    BY <2>2 DEF Least2
  <2> HIDE DEF c, m
  <2>5. ASSUME NEW i \in 1 .. m, NEW j \in 1 .. m, c[i].id = c[j].id
        PROVE  i = j
    <3>1. /\ i \in 1 .. Len(s) /\ s[i] \in found /\ c[i] = s[i]
          /\ j \in 1 .. Len(s) /\ s[j] \in found /\ c[j] = s[j]
      BY <2>1, <2>3, <2>4
    <3>2. s[i] = s[j]
      BY <1>1, <2>5, <3>1
    <3>3. QED BY <2>1, <3>1, <3>2
  <2>6. QED BY <2>3, <2>4, <2>5 DEF Distinct, c
<1>3. ASSUME NEW s \in Lists(found), NEW t \in Lists(found), NEW k \in Limits
      PROVE  MergesWell(Take(s, k), Take(t, k))
  BY <1>2, FusionMergesWell
<1>4. QED BY <1>3 DEF KeepsOrder, found

(* Each set of rows is answered well, whatever was asked.                  *)
LEMMA RowsAnswerWell ==
  ASSUME NEW rows \in SUBSET Items
  PROVE  AnswersTheBest({HitOf[i] : i \in rows})
<1> DEFINE found == {HitOf[i] : i \in rows}
<1>1. IsFiniteSet(found) /\ \A r \in found : IsHit(r)
  BY HitsOf
<1> HIDE DEF found
<1>2. ASSUME NEW q \in Questions(found), NEW k \in Limits
      PROVE  /\ \A scope \in Scopes : AnswersBest(q, k, scope)
             /\ \A b \in Budgets : PacksWell(q, k, b)
  <2>1. q.vec \in Lists(found) /\ q.kw \in Lists(found) /\ q.others \in Lists(Others)
    BY DEF Questions
  <2>2. \A s \in Lists(found) : AllHits(s)
    BY <1>1, ListsAre DEF AllHits
  <2>3. AllHits(q.vec) /\ AllHits(q.kw) /\ k \in Nat
    BY <2>1, <2>2, SharesDiffer
  <2>4. ASSUME NEW scope \in Scopes
        PROVE  AnswersBest(q, k, scope)
    BY <2>1, <2>3, RecallIsBest
  <2>5. ASSUME NEW b \in Budgets
        PROVE  PacksWell(q, k, b)
    BY <2>1, <2>3, PacksAreWell
  <2>6. QED BY <2>4, <2>5
<1>3. QED BY <1>2 DEF AnswersTheBest, found

(* AnswerIsBest: whichever rows a search has found, and whatever else is   *)
(* found or fails with it, the answer is the best of all of it that the    *)
(* reader may see, as if ranked once; it is fused in the order both lists  *)
(* agree on, and a pack is its beginning (MemoryFacade.recall).            *)
THEOREM AnswersAreBest == Spec => []AnswerIsBest
<1>1. ItemTypeOK => AnswerIsBest
  <2>1. SUFFICES ASSUME ItemTypeOK, NEW c \in Calls
                 PROVE  <<call[c].found, TRUE>> \in Best
    BY DEF AnswerIsBest
  <2>2. call[c].found \in SUBSET Items
    BY <2>1 DEF ItemTypeOK, ItemCall
  <2>3. PICK rows \in SUBSET Items : rows = call[c].found
    BY <2>2
  <2>4. KeepsOrder({HitOf[i] : i \in rows}) /\ AnswersTheBest({HitOf[i] : i \in rows})
    BY OrderIsKept, RowsAnswerWell
  <2>5. <<rows, TRUE>> \in Best
    <3>1. <<rows, KeepsOrder({HitOf[i] : i \in rows}) /\ AnswersTheBest({HitOf[i] : i \in rows})>> \in Best
      BY DEF Best
    <3>2. (KeepsOrder({HitOf[i] : i \in rows}) /\ AnswersTheBest({HitOf[i] : i \in rows})) = TRUE
      BY <2>4
    <3>3. QED BY <3>1, <3>2
  <2>6. QED BY <2>3, <2>5
<1>2. QED BY <1>1, ItemsTyped, PTL

----------------------------------------------------------------------------
(* Work items.  The types.                                                 *)
Stages == {"new", "update", "close", "tell", "store", "list", "unlink", "link", "join", "slug", "insert",
           "done", "failed", "refused"}
Saving ==
  [pc : Stages,
   op : {"save", "update", "create", "link", "archive", "section", "project", Unset},
   item : WorkItems \cup {Unset}, status : {"open", "done"},
   parent : WorkItems \cup {Unset}, project : Projects \cup {Unset},
   fields : SUBSET {"status", "parent"}, offered : WorkItems \cup {Unset},
   current : SUBSET Link, alone : BOOLEAN, n : Nat, base : SUBSET Nat]

BoardTyped ==
  /\ items \in [WorkItems -> ItemRow] /\ member \in [WorkItems -> Seq(Link)]
  /\ sections \in SUBSET Requests /\ slugs \in SUBSET Nat
  /\ req \in [Requests -> Saving]
  /\ excused \in SUBSET WorkItems

(* What a request at a stage has: an item, and no status but the two.      *)
Staged(s) ==
  /\ s.pc \in {"update", "close", "tell", "store", "list", "unlink", "link", "join"} =>
       s.item \in WorkItems
  /\ s.pc = "join" => s.project \in Projects

(* A closed item is dated and told of, or its closer is about to tell.     *)
Telling(i) == \E r \in Requests : Untold(r) /\ req[r].item = i
Dated(i) ==
  i \notin excused /\ items[i].status = "done" =>
    items[i].closedAt /\ (Title[i] \in episodes \/ Telling(i))

(* An item has one link to a project, and a save that is alone with the    *)
(* item knows the links it has.                                            *)
OneLink(i) ==
  \A j, k \in DOMAIN member[i] : member[i][j].project = member[i][k].project => j = k

Knows(s) ==
  /\ s.pc \in {"unlink", "link"} /\ s.alone => s.current = Links(s.item)
  /\ s.pc = "link" /\ s.alone => \A link \in s.current : link.project = s.project

(* The slugs are numbered without gaps, and who looks for a free one has   *)
(* found those before it taken.                                            *)
Numbered == \E m \in Nat : slugs = 1 .. m
Looks(s) ==
  /\ s.pc \in {"slug", "insert"} =>
       s.n \in Nat \ {0} /\ 1 .. (s.n - 1) \subseteq slugs /\ s.base \subseteq slugs
  /\ s.pc = "insert" => s.n \notin s.base
  /\ s.pc = "refused" => s.n \in slugs \ s.base

BoardKept ==
  /\ \A i \in WorkItems : Dated(i) /\ OneLink(i)
  /\ \A r \in Requests : Staged(req[r]) /\ Knows(req[r]) /\ Looks(req[r])
  /\ Numbered
----------------------------------------------------------------------------
(* How requests move.                                                      *)
Quieted(q) ==
  /\ req'[q].pc = req[q].pc /\ req'[q].item = req[q].item /\ req'[q].status = req[q].status
  /\ req'[q].project = req[q].project /\ req'[q].n = req[q].n /\ req'[q].base = req[q].base
  /\ ~ req'[q].alone

Turn(r, t) ==
  /\ req' \in [Requests -> Saving] /\ req'[r] = t
  /\ \A q \in Requests : q # r => req'[q] = req[q] \/ Quieted(q)

LEMMA SavingIs ==
  ASSUME BoardTyped, NEW r \in Requests
  PROVE  req[r] \in Saving
BY DEF BoardTyped

LEMMA BecomeTurns ==
  ASSUME BoardTyped, NEW r \in Requests, NEW t \in Saving, Become(r, t)
  PROVE  Turn(r, t) /\ \A q \in Requests : q # r => req'[q] = req[q]
BY DEF BoardTyped, Become, Turn

LEMMA ProceedTurns ==
  ASSUME BoardTyped, NEW r \in Requests, NEW pc \in Stages, Proceed(r, pc)
  PROVE  \E t \in Saving :
           /\ Turn(r, t) /\ \A q \in Requests : q # r => req'[q] = req[q]
           /\ t.pc = pc /\ t.item = req[r].item /\ t.status = req[r].status
           /\ t.project = req[r].project /\ t.current = req[r].current
           /\ t.alone = req[r].alone /\ t.n = req[r].n /\ t.base = req[r].base
<1>1. PICK s \in Saving : s = req[r]
  BY SavingIs
<1>2. PICK t : t = [s EXCEPT !.pc = pc]
  OBVIOUS
<1>3. /\ t \in Saving /\ t.pc = pc /\ t.item = s.item /\ t.status = s.status
      /\ t.project = s.project /\ t.current = s.current
      /\ t.alone = s.alone /\ t.n = s.n /\ t.base = s.base
  BY <1>1, <1>2 DEF Saving
<1>4. Become(r, t)
  BY <1>1, <1>2 DEF Proceed
<1>5. QED BY <1>1, <1>3, <1>4, BecomeTurns

LEMMA DisturbTurns ==
  ASSUME BoardTyped, NEW r \in Requests, NEW t \in Saving, Disturb(r, t)
  PROVE  /\ Turn(r, t)
         /\ \A q \in Requests : q # r /\ req[q].item # t.item => req'[q] = req[q]
         /\ \A q \in Requests : q # r /\ req[q].item = t.item => Quieted(q)
<1>1. ASSUME NEW q \in Requests, q # r, req[q].item = t.item
      PROVE  req'[q] \in Saving /\ Quieted(q)
  <2>1. PICK s \in Saving : s = req[q]
    BY SavingIs
  <2>2. PICK u : u = [s EXCEPT !.alone = FALSE]
    OBVIOUS
  <2>3. /\ u \in Saving /\ u.pc = s.pc /\ u.item = s.item /\ u.status = s.status
        /\ u.project = s.project /\ u.n = s.n /\ u.base = s.base /\ ~ u.alone
    BY <2>1, <2>2 DEF Saving
  <2>4. req'[q] = u
    BY <1>1, <2>1, <2>2 DEF Disturb
  <2>5. QED BY <2>1, <2>3, <2>4 DEF Quieted
<1>2. ASSUME NEW q \in Requests, q # r, req[q].item # t.item
      PROVE  req'[q] = req[q]
  BY <1>2 DEF Disturb
<1>3. req'[r] = t
  BY DEF Disturb
<1>4. req' \in [Requests -> Saving]
  <2>1. DOMAIN req' = Requests /\ req' = [q \in Requests |-> req'[q]]
    BY DEF Disturb
  <2>2. \A q \in Requests : req'[q] \in Saving
    BY <1>1, <1>2, <1>3, SavingIs
  <2>3. QED BY <2>1, <2>2
<1>5. QED BY <1>1, <1>2, <1>3, <1>4 DEF Turn

(* What the turn of another leaves as it is.                               *)
LEMMA OthersStay ==
  ASSUME NEW r \in Requests, NEW t, Turn(r, t), NEW q \in Requests, q # r,
         Staged(req[q]), Looks(req[q]), Knows(req[q]), slugs \subseteq slugs',
         Quieted(q) \/ \A i \in WorkItems : i = req[q].item => Links(i)' = Links(i)
  PROVE  Staged(req'[q]) /\ Looks(req[q])' /\ Knows(req[q])'
<1>1. CASE Quieted(q)
  BY <1>1 DEF Quieted, Staged, Looks, Knows
<1>2. CASE req'[q] = req[q] /\ ~ Quieted(q)
  <2>1. PICK s : s = req[q] /\ req'[q] = s
    BY <1>2
  <2>2. PICK i : i = s.item
    OBVIOUS
  <2>3. i \in WorkItems => Links(i)' = Links(i)
    BY <1>2, <2>1, <2>2
  <2>4. QED BY <1>2, <2>1, <2>2, <2>3 DEF Staged, Looks, Knows
<1>3. QED BY <1>1, <1>2 DEF Turn

LEMMA TellingStays ==
  ASSUME NEW r \in Requests, NEW t, Turn(r, t), NEW i, Telling(i),
         Untold(r) /\ req[r].item = i => t.pc \in {"tell", "store"} /\ t.item = i
  PROVE  Telling(i)'
BY DEF Turn, Telling, Untold, Quieted

LEMMA DatedStays ==
  ASSUME NEW i, Dated(i), excused \subseteq excused', episodes \subseteq episodes',
         \/ i \in excused'
         \/ items'[i].status = "done" =>
              items[i].status = "done" /\ items'[i].closedAt = items[i].closedAt,
         Telling(i) => Telling(i)' \/ Title[i] \in episodes' \/ i \in excused'
  PROVE  Dated(i)'
BY DEF Dated

(* A turn that leaves the board alone.                                     *)
LEMMA BoardStays ==
  ASSUME BoardTyped, BoardKept, NEW r \in Requests, NEW t \in Saving, Turn(r, t),
         \A q \in Requests : q # r => req'[q] = req[q],
         UNCHANGED <<items, member>>, sections' \in SUBSET Requests, slugs \subseteq slugs', Numbered',
         excused \subseteq excused', episodes \subseteq episodes', excused' \in SUBSET WorkItems,
         slugs' \in SUBSET Nat,
         \/ ~ Untold(r)
         \/ t.pc = "store" /\ t.item = req[r].item
         \/ Title[req[r].item] \in episodes'
         \/ req[r].item \in excused',
         Staged(t), Looks(t)', Knows(t)'
  PROVE  BoardTyped' /\ BoardKept'
<1>1. BoardTyped'
  <2>1. ItemRow' = ItemRow /\ Link' = Link /\ Saving' = Saving
    BY DEF ItemRow, Link, Saving
  <2>2. QED BY <2>1 DEF BoardTyped, Turn
<1>2. \A i : Links(i)' = Links(i)
  BY DEF Links
<1>3. ASSUME NEW i \in WorkItems
      PROVE  Dated(i)' /\ OneLink(i)'
  <2>1. Telling(i) => Telling(i)' \/ Title[i] \in episodes' \/ i \in excused'
    BY TellingStays
  <2>2. QED BY <2>1, DatedStays DEF BoardKept, OneLink
<1>4. ASSUME NEW q \in Requests
      PROVE  Staged(req'[q]) /\ Looks(req[q])' /\ Knows(req[q])'
  <2>1. CASE q = r
    BY <2>1 DEF Turn, Looks, Knows
  <2>2. CASE q # r
    BY <1>2, <2>2, OthersStay DEF BoardKept
  <2>3. QED BY <2>1, <2>2
<1>5. QED BY <1>1, <1>3, <1>4 DEF BoardKept, Staged

----------------------------------------------------------------------------
(* What leaves the items and the links alone.                              *)
Unhurried(t) ==
  \/ t.pc \in {"new", "done", "failed"}
  \/ t.pc \in {"update", "close", "tell", "store", "list"} /\ t.item \in WorkItems

LEMMA UnhurriedIs ==
  ASSUME NEW t, Unhurried(t)
  PROVE  Staged(t) /\ Looks(t)' /\ Knows(t)'
BY DEF Unhurried, Staged, Looks, Knows

LEMMA PlainStays ==
  ASSUME BoardTyped, BoardKept, NEW r \in Requests, NEW t \in Saving, Become(r, t), Unhurried(t),
         UNCHANGED <<items, member, slugs, episodes, excused>>, sections' \in SUBSET Requests,
         ~ Untold(r)
  PROVE  BoardTyped' /\ BoardKept'
<1>1. Turn(r, t) /\ \A q \in Requests : q # r => req'[q] = req[q]
  BY BecomeTurns
<1>2. Numbered'
  BY DEF BoardKept, Numbered
<1>3. Staged(t) /\ Looks(t)' /\ Knows(t)'
  BY UnhurriedIs
<1>4. slugs' \in SUBSET Nat /\ excused' \in SUBSET WorkItems
  BY DEF BoardTyped
<1>5. QED BY <1>1, <1>2, <1>3, <1>4, BoardStays

LEMMA FreshIs ==
  Fresh \in Saving /\ Fresh.pc = "new" /\ Fresh.status = "open" /\ ~ Fresh.alone
BY DEF Fresh, Saving, Stages

LEMMA FormIs ==
  ASSUME BoardTyped, NEW i \in There, NEW t \in Filled(i)
  PROVE  t \in Saving /\ t.pc = "update" /\ t.item = i
<1>1. PICK f \in Saving : f = Fresh
  BY FreshIs
<1>2. PICK st : st = items[i].status
  OBVIOUS
<1>3. PICK pa : pa = IF items[i].parent \in Parents(i) THEN items[i].parent ELSE Unset
  OBVIOUS
<1>4. PICK pr : pr = Selected(i)
  OBVIOUS
<1>5. st \in {"open", "done"} /\ i \in WorkItems
  BY <1>2 DEF There, BoardTyped, ItemRow
<1>6. pa \in WorkItems \cup {Unset}
  BY <1>3 DEF Parents, Open
<1>7. pr \in Projects \cup {Unset}
  BY <1>4 DEF Selected, Offered
<1>8. PICK g : g = [f EXCEPT !.pc = "update", !.op = "save", !.item = i,
                             !.fields = {"status", "parent"}, !.status = st, !.parent = pa,
                             !.project = pr]
  OBVIOUS
<1>9. g \in Saving /\ g.pc = "update" /\ g.item = i
  <2>1. "update" \in Stages /\ f \in Saving
    BY <1>1 DEF Stages
  <2> HIDE DEF Stages
  <2>2. QED BY <1>5, <1>6, <1>7, <1>8, <2>1 DEF Saving
<1>10. g = Form(i)
  BY <1>1, <1>2, <1>3, <1>4, <1>8 DEF Form
<1>11. ASSUME NEW s \in {"open", "done"}
       PROVE  LET h == [g EXCEPT !.status = s] IN h \in Saving /\ h.pc = "update" /\ h.item = i
  BY <1>9 DEF Saving
<1>12. ASSUME NEW p \in WorkItems \cup {Unset}
       PROVE  LET h == [g EXCEPT !.parent = p] IN h \in Saving /\ h.pc = "update" /\ h.item = i
  BY <1>9 DEF Saving
<1>13. ASSUME NEW p \in Projects \cup {Unset}
       PROVE  LET h == [g EXCEPT !.project = p] IN h \in Saving /\ h.pc = "update" /\ h.item = i
  BY <1>9 DEF Saving
<1>14. Parents(i) \subseteq WorkItems /\ Offered \subseteq Projects
  BY DEF Parents, Open, Offered
<1>15. CASE t = g
  BY <1>9, <1>15
<1>16. CASE \E s \in {"open", "done"} : t = [g EXCEPT !.status = s]
  BY <1>11, <1>16
<1>17. CASE \E p \in {Unset} \cup Parents(i) : t = [g EXCEPT !.parent = p]
  BY <1>12, <1>14, <1>17
<1>18. CASE \E p \in {Unset} \cup Offered : t = [g EXCEPT !.project = p]
  BY <1>13, <1>14, <1>18
<1>19. QED BY <1>10, <1>15, <1>16, <1>17, <1>18 DEF Filled

LEMMA LoadFormKeeps ==
  ASSUME BoardTyped, BoardKept, NEW r \in Requests, NEW i \in WorkItems, LoadForm(r, i)
  PROVE  BoardTyped' /\ BoardKept'
<1>1. PICK f \in Filled(i) :
        Become(r, [f EXCEPT !.offered =
                     IF f.parent = Unset THEN Unset ELSE items[f.parent].parent])
  BY DEF LoadForm
<1>2. f \in Saving /\ f.pc = "update" /\ f.item = i
  BY FormIs DEF LoadForm
<1>3. PICK o : o = IF f.parent = Unset THEN Unset ELSE items[f.parent].parent
  OBVIOUS
<1>4. o \in WorkItems \cup {Unset}
  BY <1>2, <1>3 DEF Saving, BoardTyped, ItemRow
<1>5. PICK t : t = [f EXCEPT !.offered = o]
  OBVIOUS
<1>6. t \in Saving /\ t.pc = "update" /\ t.item = i
  BY <1>2, <1>4, <1>5 DEF Saving
<1>7. Become(r, t) /\ Unhurried(t)
  BY <1>1, <1>3, <1>5, <1>6 DEF Unhurried
<1>8. req[r].pc = "new" /\ UNCHANGED <<items, member, slugs, episodes, excused, sections>>
  BY DEF LoadForm, Start, board, grouping, history
<1>9. QED BY <1>6, <1>7, <1>8, PlainStays DEF BoardTyped, Untold

LEMMA ToolUpdateKeeps ==
  ASSUME BoardTyped, BoardKept, NEW r \in Requests, NEW i \in WorkItems, ToolUpdate(r, i)
  PROVE  BoardTyped' /\ BoardKept'
<1>1. PICK f \in Saving : f = Fresh
  BY FreshIs
<1>2. PICK change \in [field : {"status"}, to : {"open", "done"}]
                        \cup [field : {"parent"}, to : {Unset} \cup There] :
       Become(r, [Fresh EXCEPT
         !.op = "update", !.item = i, !.fields = {change.field},
         !.pc = IF change.to = "done" THEN "close" ELSE "update",
         !.status = IF change.field = "status" THEN change.to ELSE "open",
         !.parent = IF change.field = "parent" THEN change.to ELSE Unset])
  BY DEF ToolUpdate
<1>3. PICK fs : fs = {change.field}
  OBVIOUS
<1>4. PICK pc : pc = IF change.to = "done" THEN "close" ELSE "update"
  OBVIOUS
<1>5. PICK st : st = IF change.field = "status" THEN change.to ELSE "open"
  OBVIOUS
<1>6. PICK pa : pa = IF change.field = "parent" THEN change.to ELSE Unset
  OBVIOUS
<1>7. /\ fs \in SUBSET {"status", "parent"} /\ pc \in {"close", "update"}
      /\ st \in {"open", "done"} /\ pa \in WorkItems \cup {Unset}
  BY <1>2, <1>3, <1>4, <1>5, <1>6 DEF There
<1>8. PICK t : t = [f EXCEPT !.op = "update", !.item = i, !.fields = fs, !.pc = pc,
                             !.status = st, !.parent = pa]
  OBVIOUS
<1>9. t \in Saving /\ t.pc = pc /\ t.item = i
  BY <1>1, <1>7, <1>8 DEF Saving, Stages
<1>10. Become(r, t) /\ Unhurried(t)
  BY <1>1, <1>2, <1>3, <1>4, <1>5, <1>6, <1>7, <1>8, <1>9 DEF Unhurried
<1>11. req[r].pc = "new" /\ UNCHANGED <<items, member, slugs, episodes, excused, sections>>
  BY DEF ToolUpdate, Start, board, grouping, history
<1>12. QED BY <1>9, <1>10, <1>11, PlainStays DEF BoardTyped, Untold

LEMMA SyncListKeeps ==
  ASSUME BoardTyped, BoardKept, NEW r \in Requests, SyncList(r)
  PROVE  BoardTyped' /\ BoardKept'
<1>1. PICK s \in Saving : s = req[r]
  BY SavingIs
<1>2. s.pc = "list" /\ s.item \in WorkItems
  BY <1>1 DEF SyncList, BoardKept, Staged
<1>3. PICK L : L = Links(s.item)
  OBVIOUS
<1>4. L \in SUBSET Link
  BY <1>2, <1>3 DEF Links, BoardTyped
<1>5. PICK t : t = [s EXCEPT !.pc = "unlink", !.current = L, !.alone = TRUE]
  OBVIOUS
<1>6. t \in Saving /\ t.pc = "unlink" /\ t.item = s.item /\ t.current = L
  BY <1>1, <1>4, <1>5 DEF Saving, Stages
<1>7. Become(r, t)
  BY <1>1, <1>3, <1>5 DEF SyncList
<1>8. UNCHANGED <<items, member, slugs, episodes, excused, sections>>
  BY DEF SyncList, board, grouping, history
<1>9. Staged(t) /\ Looks(t)' /\ Knows(t)'
  <2>1. Links(s.item)' = L
    BY <1>3, <1>8 DEF Links
  <2>2. QED BY <1>2, <1>6, <2>1 DEF Staged, Looks, Knows
<1>10. Turn(r, t) /\ \A q \in Requests : q # r => req'[q] = req[q]
  BY <1>6, <1>7, BecomeTurns
<1>11. Numbered' /\ sections' \in SUBSET Requests
       /\ excused' \in SUBSET WorkItems /\ slugs' \in SUBSET Nat
  BY <1>8 DEF BoardKept, Numbered, BoardTyped
<1>12. QED BY <1>1, <1>2, <1>6, <1>8, <1>9, <1>10, <1>11, BoardStays DEF Untold

LEMMA SyncFailsKeeps ==
  ASSUME BoardTyped, BoardKept, NEW r \in Requests, SyncFails(r)
  PROVE  BoardTyped' /\ BoardKept'
<1>1. PICK s \in Saving : s = req[r]
  BY SavingIs
<1>2. PICK t : t = [s EXCEPT !.pc = "done", !.alone = FALSE]
  OBVIOUS
<1>3. t \in Saving /\ t.pc = "done"
  BY <1>1, <1>2 DEF Saving, Stages
<1>4. Become(r, t) /\ Unhurried(t)
  BY <1>1, <1>2, <1>3 DEF SyncFails, Unhurried
<1>5. ~ Untold(r) /\ UNCHANGED <<items, member, slugs, episodes, excused, sections>>
  BY DEF SyncFails, board, grouping, history, Untold
<1>6. QED BY <1>3, <1>4, <1>5, PlainStays DEF BoardTyped, Untold

LEMMA ShortKeeps ==
  ASSUME BoardTyped, BoardKept, NEW r \in Requests,
         SectionAdd(r) \/ \E p \in Projects : Archive(r, p)
  PROVE  BoardTyped' /\ BoardKept'
<1>1. PICK f \in Saving : f = Fresh
  BY FreshIs
<1>2. PICK op \in {"section", "archive"} : Become(r, [f EXCEPT !.pc = "done", !.op = op])
  BY <1>1 DEF SectionAdd, Archive
<1>3. PICK t : t = [f EXCEPT !.pc = "done", !.op = op]
  OBVIOUS
<1>4. t \in Saving /\ t.pc = "done"
  BY <1>1, <1>2, <1>3 DEF Saving, Stages
<1>5. Become(r, t) /\ Unhurried(t)
  BY <1>2, <1>3, <1>4 DEF Unhurried
<1>6. /\ ~ Untold(r) /\ UNCHANGED <<items, member, slugs, episodes, excused>>
      /\ sections' \in SUBSET Requests
  BY DEF SectionAdd, Archive, Start, history, grouping, BoardTyped, Untold
<1>7. QED BY <1>4, <1>5, <1>6, PlainStays DEF Untold

----------------------------------------------------------------------------
(* Telling of a closed item, and being cut off.                            *)
LEMMA TellKeeps ==
  ASSUME BoardTyped, BoardKept, NEW r \in Requests, Tell(r) \/ Store(r) \/ TellFails(r)
  PROVE  BoardTyped' /\ BoardKept'
<1>1. Untold(r) /\ req[r].item \in WorkItems
  BY DEF Tell, Store, TellFails, Untold, BoardKept, Staged
<1>2. PICK pc \in {"store", "list", "done"} :
         /\ Proceed(r, pc)
         /\ \/ pc = "store" \/ Title[req[r].item] \in episodes' \/ req[r].item \in excused'
  BY DEF Tell, Store, TellFails, AfterUpdate, board, grouping
<1>3. PICK t \in Saving :
           /\ Turn(r, t) /\ \A q \in Requests : q # r => req'[q] = req[q]
           /\ t.pc = pc /\ t.item = req[r].item
  BY <1>2, ProceedTurns DEF Stages
<1>4. Unhurried(t)
  BY <1>1, <1>2, <1>3 DEF Unhurried
<1>5. Staged(t) /\ Looks(t)' /\ Knows(t)'
  BY <1>4, UnhurriedIs
<1>6. /\ UNCHANGED <<items, member, slugs, sections>>
      /\ excused \subseteq excused' /\ episodes \subseteq episodes'
      /\ excused' \in SUBSET WorkItems
  BY <1>1 DEF Tell, Store, TellFails, board, grouping, history, BoardTyped
<1>7. Numbered' /\ sections' \in SUBSET Requests /\ slugs' \in SUBSET Nat
  BY <1>6 DEF BoardKept, Numbered, BoardTyped
<1>8. QED BY <1>2, <1>3, <1>5, <1>6, <1>7, BoardStays

LEMMA AbortKeeps ==
  ASSUME BoardTyped, BoardKept, NEW r \in Requests, Abort(r)
  PROVE  BoardTyped' /\ BoardKept'
<1>1. PICK s \in Saving : s = req[r]
  BY SavingIs
<1>2. PICK t : t = [s EXCEPT !.pc = "failed", !.alone = FALSE]
  OBVIOUS
<1>3. t \in Saving /\ t.pc = "failed"
  BY <1>1, <1>2 DEF Saving, Stages
<1>4. Become(r, t)
  BY <1>1, <1>2 DEF Abort
<1>5. Staged(t) /\ Looks(t)' /\ Knows(t)'
  BY <1>3, UnhurriedIs DEF Unhurried
<1>6. Turn(r, t) /\ \A q \in Requests : q # r => req'[q] = req[q]
  BY <1>3, <1>4, BecomeTurns
<1>7. Untold(r) => req[r].item \in WorkItems
  BY DEF BoardKept, Staged, Untold
<1>8. /\ UNCHANGED <<items, member, slugs, sections, episodes>>
      /\ excused \subseteq excused' /\ excused' \in SUBSET WorkItems
      /\ ~ Untold(r) \/ req[r].item \in excused'
  BY <1>7 DEF Abort, board, grouping, BoardTyped
<1>9. /\ Numbered' /\ sections' \in SUBSET Requests /\ slugs' \in SUBSET Nat
     
  BY <1>8 DEF BoardKept, Numbered, BoardTyped
<1>10. QED BY <1>3, <1>5, <1>6, <1>8, <1>9, BoardStays DEF Untold

----------------------------------------------------------------------------
(* Looking for a slug.                                                     *)
LEMMA ProjectCreateKeeps ==
  ASSUME BoardTyped, BoardKept, NEW r \in Requests, ProjectCreate(r)
  PROVE  BoardTyped' /\ BoardKept'
<1>1. PICK f \in Saving : f = Fresh
  BY FreshIs
<1>2. PICK S \in SUBSET Nat : S = slugs
  BY DEF BoardTyped
<1>3. PICK t : t = [f EXCEPT !.pc = "slug", !.op = "project", !.n = 1, !.base = S]
  OBVIOUS
<1>4. t \in Saving /\ t.pc = "slug" /\ t.n = 1 /\ t.base = S
  BY <1>1, <1>2, <1>3 DEF Saving, Stages
<1>5. Become(r, t)
  BY <1>1, <1>2, <1>3 DEF ProjectCreate
<1>6. /\ req[r].pc = "new"
      /\ UNCHANGED <<items, member, slugs, episodes, excused, sections>>
  BY DEF ProjectCreate, Start, board, grouping, history
<1>7. Staged(t) /\ Looks(t)' /\ Knows(t)'
  <2>1. 1 .. (t.n - 1) = {}
    BY <1>4
  <2>2. QED BY <1>2, <1>4, <1>6, <2>1 DEF Staged, Looks, Knows
<1>8. Turn(r, t) /\ \A q \in Requests : q # r => req'[q] = req[q]
  BY <1>4, <1>5, BecomeTurns
<1>9. /\ Numbered' /\ sections' \in SUBSET Requests /\ slugs' \in SUBSET Nat
      /\ excused' \in SUBSET WorkItems
  BY <1>6 DEF BoardKept, Numbered, BoardTyped
<1>10. QED BY <1>4, <1>6, <1>7, <1>8, <1>9, BoardStays DEF Untold

LEMMA UniqueSlugKeeps ==
  ASSUME BoardTyped, BoardKept, NEW r \in Requests, UniqueSlug(r)
  PROVE  BoardTyped' /\ BoardKept'
<1>1. PICK s \in Saving : s = req[r]
  BY SavingIs
<1>2. /\ s.pc = "slug" /\ UNCHANGED <<items, member, slugs, episodes, excused, sections>>
      /\ Looks(s)
  BY <1>1 DEF UniqueSlug, board, grouping, history, BoardKept
<1>3. s.n \in Nat \ {0} /\ 1 .. (s.n - 1) \subseteq slugs /\ s.base \subseteq slugs
  BY <1>2 DEF Looks
<1>4. /\ Numbered' /\ sections' \in SUBSET Requests /\ slugs' \in SUBSET Nat
      /\ excused' \in SUBSET WorkItems
  BY <1>2 DEF BoardKept, Numbered, BoardTyped
<1>5. CASE s.n \in slugs
  <2>1. PICK t : t = [s EXCEPT !.n = @ + 1]
    OBVIOUS
  <2>2. t \in Saving /\ t.pc = "slug" /\ t.n = s.n + 1 /\ t.base = s.base
    BY <1>1, <1>2, <2>1 DEF Saving
  <2>3. Become(r, t)
    BY <1>1, <1>5, <2>1 DEF UniqueSlug
  <2>4. 1 .. (t.n - 1) \subseteq slugs
    BY <1>3, <1>5, <2>2
  <2>5. Staged(t) /\ Looks(t)' /\ Knows(t)'
    BY <1>2, <1>3, <2>2, <2>4 DEF Staged, Looks, Knows
  <2>6. Turn(r, t) /\ \A q \in Requests : q # r => req'[q] = req[q]
    BY <2>2, <2>3, BecomeTurns
  <2>7. QED BY <1>1, <1>2, <1>4, <2>2, <2>5, <2>6, BoardStays DEF Untold
<1>6. CASE s.n \notin slugs
  <2>1. Proceed(r, "insert")
    BY <1>1, <1>6 DEF UniqueSlug
  <2>2. PICK t \in Saving :
           /\ Turn(r, t) /\ \A q \in Requests : q # r => req'[q] = req[q]
           /\ t.pc = "insert" /\ t.n = s.n /\ t.base = s.base
    BY <1>1, <2>1, ProceedTurns DEF Stages
  <2>3. Staged(t) /\ Looks(t)' /\ Knows(t)'
    BY <1>2, <1>3, <1>6, <2>2 DEF Staged, Looks, Knows
  <2>4. QED BY <1>1, <1>2, <1>4, <2>2, <2>3, BoardStays DEF Untold
<1>7. QED BY <1>5, <1>6

LEMMA ProjectInsertKeeps ==
  ASSUME BoardTyped, BoardKept, NEW r \in Requests, ProjectInsert(r)
  PROVE  BoardTyped' /\ BoardKept'
<1>1. PICK s \in Saving : s = req[r]
  BY SavingIs
<1>2. /\ s.pc = "insert" /\ UNCHANGED <<items, member, episodes, excused, sections>>
      /\ slugs' = slugs \cup {s.n} /\ Looks(s)
  BY <1>1 DEF ProjectInsert, history, BoardKept
<1>3. /\ s.n \in Nat \ {0} /\ 1 .. (s.n - 1) \subseteq slugs /\ s.base \subseteq slugs
      /\ s.n \notin s.base
  BY <1>2 DEF Looks
<1>4. PICK pc : pc = IF s.n \in slugs THEN "refused" ELSE "done"
  OBVIOUS
<1>5. Proceed(r, pc) /\ pc \in {"refused", "done"}
  BY <1>1, <1>4 DEF ProjectInsert
<1>6. PICK t \in Saving :
           /\ Turn(r, t) /\ \A q \in Requests : q # r => req'[q] = req[q]
           /\ t.pc = pc /\ t.n = s.n /\ t.base = s.base
  BY <1>1, <1>5, ProceedTurns DEF Stages
<1>7. Staged(t) /\ Looks(t)' /\ Knows(t)'
  BY <1>2, <1>3, <1>5, <1>6 DEF Staged, Looks, Knows
<1>8. Numbered'
  <2>1. PICK m \in Nat : slugs = 1 .. m
    BY DEF BoardKept, Numbered
  <2>2. CASE s.n \in slugs
    BY <1>2, <2>1, <2>2 DEF Numbered
  <2>3. CASE s.n \notin slugs
    <3>1. s.n = m + 1
      <4>1. s.n > m
        BY <1>3, <2>1, <2>3
      <4>2. s.n > m + 1 => m + 1 \in 1 .. (s.n - 1)
        BY <1>3, <2>1
      <4>3. QED BY <1>3, <2>1, <4>1, <4>2
    <3>2. slugs' = 1 .. (m + 1)
      BY <1>2, <2>1, <3>1
    <3>3. QED BY <2>1, <3>2 DEF Numbered
  <2>4. QED BY <2>2, <2>3
<1>9. /\ sections' \in SUBSET Requests /\ slugs' \in SUBSET Nat /\ slugs \subseteq slugs'
      /\ excused' \in SUBSET WorkItems
  BY <1>2, <1>3 DEF BoardTyped
<1>10. QED BY <1>1, <1>2, <1>6, <1>7, <1>8, <1>9, BoardStays DEF Untold

----------------------------------------------------------------------------
(* Items.                                                                  *)
LEMMA ItemsStay ==
  ASSUME BoardTyped, BoardKept, NEW r \in Requests, NEW t \in Saving, Turn(r, t),
         \A q \in Requests : q # r => req'[q] = req[q],
         UNCHANGED <<member, sections, slugs>>, items' \in [WorkItems -> ItemRow],
         excused' \in SUBSET WorkItems,
         Staged(t), Looks(t)', Knows(t)',
         \A i \in WorkItems : Dated(i)'
  PROVE  BoardTyped' /\ BoardKept'
<1>1. BoardTyped'
  <2>1. ItemRow' = ItemRow /\ Link' = Link /\ Saving' = Saving
    BY DEF ItemRow, Link, Saving
  <2>2. QED BY <2>1 DEF BoardTyped, Turn
<1>2. \A i : Links(i)' = Links(i)
  BY DEF Links
<1>3. ASSUME NEW i \in WorkItems
      PROVE  Dated(i)' /\ OneLink(i)'
  BY DEF BoardKept, OneLink
<1>4. ASSUME NEW q \in Requests
      PROVE  Staged(req'[q]) /\ Looks(req[q])' /\ Knows(req[q])'
  <2>1. CASE q = r
    BY <2>1 DEF Turn, Looks, Knows
  <2>2. CASE q # r
    BY <1>2, <2>2, OthersStay DEF BoardKept
  <2>3. QED BY <2>1, <2>2
<1>5. Numbered'
  BY DEF BoardKept, Numbered
<1>6. QED BY <1>1, <1>3, <1>4, <1>5 DEF BoardKept, Staged

LEMMA UpdateKeeps ==
  ASSUME BoardTyped, BoardKept, NEW r \in Requests, Update(r)
  PROVE  BoardTyped' /\ BoardKept'
<1>1. PICK s \in Saving : s = req[r]
  BY SavingIs
<1>2. PICK i \in WorkItems : i = s.item
  BY <1>1 DEF Update, BoardKept, Staged
<1>3. PICK w \in ItemRow : w = items[i]
  BY DEF BoardTyped
<1>4. PICK st : st = IF "status" \in s.fields /\ ~ Closing(r) THEN s.status ELSE w.status
  OBVIOUS
<1>5. PICK pa : pa = IF "parent" \in s.fields THEN s.parent ELSE w.parent
  OBVIOUS
<1>6. st \in {"absent", "open", "done"} /\ pa \in {Unset} \cup WorkItems /\ (st = "done" => w.status = "done")
  BY <1>1, <1>3, <1>4, <1>5 DEF Saving, ItemRow, Closing
<1>7. PICK v : v = [w EXCEPT !.status = st, !.parent = pa]
  OBVIOUS
<1>8. v \in ItemRow /\ v.status = st /\ v.closedAt = w.closedAt
  BY <1>3, <1>6, <1>7 DEF ItemRow
<1>9. items' = [items EXCEPT ![i] = v] /\ items \in [WorkItems -> ItemRow]
  BY <1>1, <1>2, <1>3, <1>4, <1>5, <1>7 DEF Update, BoardTyped
<1>10. /\ items' \in [WorkItems -> ItemRow] /\ items'[i] = v
       /\ \A j \in WorkItems : j # i => items'[j] = items[j]
  BY <1>8, <1>9
<1>11. PICK pc \in {"close", "list", "done"} : Proceed(r, pc)
  BY DEF Update, AfterUpdate
<1>12. PICK t \in Saving :
           /\ Turn(r, t) /\ \A q \in Requests : q # r => req'[q] = req[q]
           /\ t.pc = pc /\ t.item = i
  BY <1>1, <1>2, <1>11, ProceedTurns DEF Stages
<1>13. Staged(t) /\ Looks(t)' /\ Knows(t)'
  BY <1>11, <1>12, UnhurriedIs DEF Unhurried
<1>14. req[r].pc = "update" /\ UNCHANGED <<member, sections, slugs, episodes, excused>>
  BY DEF Update, grouping
<1>15. ASSUME NEW j \in WorkItems
       PROVE  Dated(j)'
  <2>1. items'[j].status = "done" =>
          items[j].status = "done" /\ items'[j].closedAt = items[j].closedAt
    BY <1>3, <1>6, <1>8, <1>10
  <2>2. Telling(j) => Telling(j)'
    BY <1>12, <1>14, TellingStays DEF Untold
  <2>3. QED BY <1>14, <2>1, <2>2, DatedStays DEF BoardKept
<1>16. excused' \in SUBSET WorkItems
  BY <1>14 DEF BoardTyped
<1>17. QED BY <1>10, <1>12, <1>13, <1>14, <1>15, <1>16, ItemsStay

LEMMA CloseKeeps ==
  ASSUME BoardTyped, BoardKept, NEW r \in Requests, Close(r)
  PROVE  BoardTyped' /\ BoardKept'
<1>1. PICK s \in Saving : s = req[r]
  BY SavingIs
<1>2. PICK i \in WorkItems : i = s.item
  BY <1>1 DEF Close, BoardKept, Staged
<1>3. PICK w \in ItemRow : w = items[i]
  BY DEF BoardTyped
<1>4. PICK v : v = [w EXCEPT !.status = "done", !.closedAt = TRUE]
  OBVIOUS
<1>5. v \in ItemRow /\ v.status = "done" /\ v.closedAt
  BY <1>3, <1>4 DEF ItemRow
<1>6. items' = [items EXCEPT ![i] = v] /\ items \in [WorkItems -> ItemRow]
  BY <1>1, <1>2, <1>3, <1>4 DEF Close, BoardTyped
<1>7. /\ items' \in [WorkItems -> ItemRow] /\ items'[i] = v
      /\ \A j \in WorkItems : j # i => items'[j] = items[j]
  BY <1>5, <1>6
<1>8. PICK t \in Saving :
           /\ Turn(r, t) /\ \A q \in Requests : q # r => req'[q] = req[q]
           /\ t.pc = "tell" /\ t.item = i
  BY <1>1, <1>2, ProceedTurns DEF Close, Stages
<1>9. Staged(t) /\ Looks(t)' /\ Knows(t)'
  BY <1>8, UnhurriedIs DEF Unhurried
<1>10. req[r].pc = "close" /\ UNCHANGED <<member, sections, slugs, episodes, excused>>
  BY <1>1, <1>2 DEF Close, grouping
<1>11. Telling(i)'
  BY <1>8 DEF Telling, Turn, Untold
<1>12. ASSUME NEW j \in WorkItems
       PROVE  Dated(j)'
  <2>1. CASE j = i
    BY <1>5, <1>7, <1>11, <2>1 DEF Dated
  <2>2. CASE j # i
    <3>1. Telling(j) => Telling(j)'
      BY <1>8, <1>10, TellingStays DEF Untold
    <3>2. items'[j] = items[j]
      BY <1>7, <1>10, <2>2
    <3>3. QED BY <1>10, <3>1, <3>2 DEF BoardKept, Dated
  <2>3. QED BY <2>1, <2>2
<1>13. excused' \in SUBSET WorkItems
  BY <1>10 DEF BoardTyped
<1>14. QED BY <1>7, <1>8, <1>9, <1>10, <1>12, <1>13, ItemsStay

LEMMA CreateKeeps ==
  ASSUME BoardTyped, BoardKept, NEW r \in Requests, NEW i \in WorkItems, Create(r, i)
  PROVE  BoardTyped' /\ BoardKept'
<1>1. PICK s \in {"open", "done"}, p \in {Unset} \cup There, in \in {Unset} \cup Projects :
       /\ items' = [items EXCEPT ![i] = NewRow(s, p)]
       /\ excused' = IF s = "done" THEN excused \cup {i} ELSE excused
       /\ Become(r, [Fresh EXCEPT !.op = "create", !.item = i, !.project = in,
                                  !.pc = IF in = Unset THEN "done" ELSE "join"])
  BY DEF Create
<1>2. PICK f \in Saving : f = Fresh
  BY FreshIs
<1>3. PICK pc : pc = IF in = Unset THEN "done" ELSE "join"
  OBVIOUS
<1>4. PICK t : t = [f EXCEPT !.op = "create", !.item = i, !.project = in, !.pc = pc]
  OBVIOUS
<1>5. t \in Saving /\ t.pc = pc /\ t.item = i /\ t.project = in
  <2>1. pc \in {"done", "join"} /\ in \in Projects \cup {Unset}
    BY <1>1, <1>3
  <2>2. QED BY <1>2, <1>4, <2>1 DEF Saving, Stages
<1>6. Turn(r, t) /\ \A q \in Requests : q # r => req'[q] = req[q]
  <2>1. Become(r, t)
    BY <1>1, <1>2, <1>3, <1>4
  <2>2. QED BY <1>5, <2>1, BecomeTurns
<1>7. Staged(t) /\ Looks(t)' /\ Knows(t)'
  BY <1>1, <1>3, <1>5 DEF Staged, Looks, Knows
<1>8. PICK v : v = NewRow(s, p)
  OBVIOUS
<1>9. v \in ItemRow /\ v.status = s
  BY <1>1, <1>8 DEF NewRow, ItemRow, There
<1>10. /\ items' \in [WorkItems -> ItemRow] /\ items'[i] = v
       /\ \A j \in WorkItems : j # i => items'[j] = items[j]
  BY <1>1, <1>8, <1>9 DEF BoardTyped
<1>11. req[r].pc = "new" /\ UNCHANGED <<member, sections, slugs, episodes>>
  BY DEF Create, Start, grouping
<1>12. excused \subseteq excused' /\ excused' \in SUBSET WorkItems
  BY <1>1, <1>11 DEF BoardTyped
<1>13. ASSUME NEW j \in WorkItems
       PROVE  Dated(j)'
  <2>1. \/ j \in excused'
        \/ items'[j].status = "done" =>
             items[j].status = "done" /\ items'[j].closedAt = items[j].closedAt
    BY <1>1, <1>9, <1>10
  <2>2. Telling(j) => Telling(j)'
    BY <1>6, <1>11, TellingStays DEF Untold
  <2>3. QED BY <1>11, <1>12, <2>1, <2>2, DatedStays DEF BoardKept
<1>14. QED BY <1>5, <1>6, <1>7, <1>10, <1>11, <1>12, <1>13, ItemsStay

----------------------------------------------------------------------------
(* Links.                                                                  *)
Apart(T) == \A j, k \in DOMAIN T : T[j].project = T[k].project => j = k
SetOf(T) == {T[k] : k \in DOMAIN T}

LEMMA MemberMoves ==
  ASSUME BoardTyped, NEW i \in WorkItems, NEW T \in Seq(Link), Apart(T),
         member' = [member EXCEPT ![i] = T]
  PROVE  /\ member' \in [WorkItems -> Seq(Link)]
         /\ \A j \in WorkItems : j # i => member'[j] = member[j]
         /\ OneLink(i)' /\ Links(i)' = SetOf(T)
<1>1. member' \in [WorkItems -> Seq(Link)] /\ member'[i] = T
      /\ \A j \in WorkItems : j # i => member'[j] = member[j]
  BY DEF BoardTyped
<1>2. QED BY <1>1 DEF OneLink, Apart, Links, SetOf

LEMMA LinkIs ==
  ASSUME BoardTyped, NEW i \in WorkItems, NEW p
  PROVE  /\ member[i] \in Seq(Link)
         /\ p \in In(i) <=> \E k \in DOMAIN member[i] : member[i][k].project = p
BY DEF BoardTyped, In, Links

LEMMA SectionedIs ==
  ASSUME BoardTyped, NEW i \in WorkItems, OneLink(i), NEW p, NEW s \in Requests \cup {Unset},
         member' = Sectioned(i, p, s)
  PROVE  /\ member' \in [WorkItems -> Seq(Link)]
         /\ \A j \in WorkItems : j # i => member'[j] = member[j]
         /\ OneLink(i)'
<1>1. PICK S \in Seq(Link) : S = member[i]
  BY LinkIs
<1>2. PICK T : T = [k \in DOMAIN S |->
                      IF S[k].project = p THEN [S[k] EXCEPT !.section = s] ELSE S[k]]
  OBVIOUS
<1>3. ASSUME NEW k \in DOMAIN S
      PROVE  T[k] \in Link /\ T[k].project = S[k].project
  <2>1. PICK a \in Link : a = S[k]
    BY <1>1
  <2>2. PICK b : b = [a EXCEPT !.section = s]
    OBVIOUS
  <2>3. b \in Link /\ b.project = a.project
    BY <2>1, <2>2 DEF Link
  <2>4. T[k] = a \/ T[k] = b
    BY <1>2, <2>1, <2>2
  <2>5. QED BY <2>1, <2>3, <2>4
<1>4. PICK n \in Nat : DOMAIN S = 1 .. n
  BY <1>1
<1>5. T \in [1 .. n -> Link]
  BY <1>2, <1>3, <1>4
<1>6. T \in Seq(Link) /\ DOMAIN T = DOMAIN S
  BY <1>4, <1>5
<1>7. Apart(T)
  BY <1>1, <1>3, <1>6 DEF OneLink, Apart
<1>8. member' = [member EXCEPT ![i] = T]
  BY <1>1, <1>2 DEF Sectioned
<1>9. QED BY <1>6, <1>7, <1>8, MemberMoves

LEMMA LinkedIs ==
  ASSUME BoardTyped, NEW i \in WorkItems, OneLink(i), NEW p \in Projects,
         NEW s \in Requests \cup {Unset}, Linked(i, p, s)
  PROVE  /\ member' \in [WorkItems -> Seq(Link)]
         /\ \A j \in WorkItems : j # i => member'[j] = member[j]
         /\ OneLink(i)'
         /\ p \notin In(i) => \E a \in Link : a.project = p /\ Links(i)' = Links(i) \cup {a}
<1>1. CASE p \in In(i)
  BY <1>1, SectionedIs DEF Linked
<1>2. CASE p \notin In(i)
  <2>1. PICK S \in Seq(Link) : S = member[i]
    BY LinkIs
  <2>2. PICK a : a = [project |-> p, section |-> s]
    OBVIOUS
  <2>3. a \in Link /\ a.project = p
    BY <2>2 DEF Link
  <2>4. PICK T : T = Append(S, a)
    OBVIOUS
  <2>5. /\ T \in Seq(Link) /\ Len(T) = Len(S) + 1 /\ T[Len(S) + 1] = a
        /\ \A k \in 1 .. Len(S) : T[k] = S[k]
    BY <2>1, <2>3, <2>4
  <2>6. DOMAIN T = DOMAIN S \cup {Len(S) + 1} /\ DOMAIN S = 1 .. Len(S) /\ Len(S) \in Nat
    <3>1. DOMAIN S = 1 .. Len(S) /\ Len(S) \in Nat
      BY <2>1
    <3>2. DOMAIN T = 1 .. (Len(S) + 1)
      BY <2>5
    <3>3. QED BY <3>1, <3>2
  <2>7. \A k \in DOMAIN S : S[k].project # p
    BY <1>2, <2>1, LinkIs
  <2>8. Apart(T)
    BY <2>1, <2>3, <2>5, <2>6, <2>7 DEF OneLink, Apart
  <2>9. member' = [member EXCEPT ![i] = T]
    BY <1>2, <2>1, <2>2, <2>4 DEF Linked
  <2>10. SetOf(T) = Links(i) \cup {a}
    BY <2>1, <2>5, <2>6 DEF SetOf, Links
  <2>11. QED BY <2>3, <2>5, <2>8, <2>9, <2>10, MemberMoves
<1>3. QED BY <1>1, <1>2

LEMMA UnlinkedIs ==
  ASSUME BoardTyped, NEW i \in WorkItems, OneLink(i), NEW p, Unlinked(i, p)
  PROVE  /\ member' \in [WorkItems -> Seq(Link)]
         /\ \A j \in WorkItems : j # i => member'[j] = member[j]
         /\ OneLink(i)'
         /\ \A a : a \in Links(i)' <=> a \in Links(i) /\ a.project # p
<1>1. PICK S \in Seq(Link) : S = member[i]
  BY LinkIs
<1>2. CASE p \notin In(i) /\ UNCHANGED member
  <2>1. Links(i)' = Links(i) /\ OneLink(i)'
    BY <1>2 DEF Links, OneLink
  <2>2. \A a \in Links(i) : a.project # p
    BY <1>2 DEF In
  <2>3. QED BY <1>2, <2>1, <2>2 DEF BoardTyped
<1>3. CASE \E k \in DOMAIN member[i] :
             /\ member[i][k].project = p
             /\ member' = [member EXCEPT ![i] = SubSeq(@, 1, k - 1) \o SubSeq(@, k + 1, Len(@))]
  <2>1. PICK k \in DOMAIN S :
             /\ S[k].project = p
             /\ member' = [member EXCEPT ![i] = SubSeq(S, 1, k - 1) \o SubSeq(S, k + 1, Len(S))]
    BY <1>1, <1>3
  <2>2. PICK n \in Nat : n = Len(S) /\ DOMAIN S = 1 .. n
    BY <1>1
  <2>3. k \in 1 .. n
    BY <2>1, <2>2
  <2>4. PICK A : A = SubSeq(S, 1, k - 1)
    OBVIOUS
  <2>5. PICK B : B = SubSeq(S, k + 1, n)
    OBVIOUS
  <2>6. /\ A \in Seq(Link) /\ Len(A) = k - 1 /\ \A j \in 1 .. (k - 1) : A[j] = S[j]
    BY <1>1, <2>2, <2>3, <2>4
  <2>7. /\ B \in Seq(Link) /\ Len(B) = n - k /\ \A j \in 1 .. (n - k) : B[j] = S[k + j]
    <3>1. /\ k + 1 \in 1 .. n + 1 /\ n \in k .. n
          /\ n - (k + 1) + 1 = n - k /\ \A j \in 1 .. (n - k) : (k + 1) + j - 1 = k + j
      BY <2>2, <2>3
    <3>2. /\ SubSeq(S, k + 1, n) \in Seq(Link)
          /\ Len(SubSeq(S, k + 1, n)) = n - (k + 1) + 1
          /\ \A j \in 1 .. n - (k + 1) + 1 : SubSeq(S, k + 1, n)[j] = S[(k + 1) + j - 1]
      <4>1. \A j \in (k + 1) .. n : S[j] \in Link
        BY <1>1, <2>2, <2>3
      <4>2. k + 1 <= n \/ n - (k + 1) + 1 = 0
        BY <2>2, <2>3
      <4>3. k + 1 \in Int /\ n \in Int
        BY <2>2, <2>3
      <4>4. QED BY <4>1, <4>2, <4>3, SubSeqProperties
    <3>3. QED BY <2>5, <3>1, <3>2
  <2>8. PICK T : T = A \o B
    OBVIOUS
  <2>9. /\ T \in Seq(Link) /\ Len(T) = n - 1 /\ DOMAIN T = 1 .. (n - 1)
        /\ \A j \in 1 .. (n - 1) : T[j] = IF j < k THEN S[j] ELSE S[j + 1]
    <3>1. /\ T \in Seq(Link) /\ Len(T) = Len(A) + Len(B)
          /\ \A j \in 1 .. Len(A) + Len(B) :
               T[j] = IF j <= Len(A) THEN A[j] ELSE B[j - Len(A)]
      <4>1. A \in Seq(Link) /\ B \in Seq(Link)
        BY <2>6, <2>7
      <4>2. QED BY <2>8, <4>1, ConcatProperties
    <3>2. Len(T) = n - 1
      <4>1. Len(T) = (k - 1) + (n - k)
        BY <2>6, <2>7, <3>1
      <4>2. k \in Nat /\ n \in Nat
        BY <2>2, <2>3
      <4>3. QED BY <4>1, <4>2
    <3>3. DOMAIN T = 1 .. (n - 1)
      BY <3>1, <3>2
    <3>4. ASSUME NEW j \in 1 .. (n - 1), j < k
          PROVE  T[j] = S[j]
      <4>1. j \in 1 .. Len(A)
        BY <2>2, <2>3, <2>6, <3>4
      <4>2. T[j] = A[j]
        BY <2>2, <2>3, <2>6, <2>7, <3>1, <3>4, <4>1
      <4>3. QED BY <2>6, <4>1, <4>2
    <3>5. ASSUME NEW j \in 1 .. (n - 1), ~ (j < k)
          PROVE  T[j] = S[j + 1]
      <4>1. PICK l \in 1 .. (n - k) : l = j - (k - 1)
        BY <2>2, <2>3, <3>5
      <4>2. j > Len(A) /\ j \in 1 .. (Len(A) + Len(B))
        BY <2>2, <2>3, <2>6, <2>7, <3>5
      <4>3. T[j] = B[j - Len(A)]
        <5>1. ~ (j <= Len(A))
          BY <2>2, <2>3, <2>6, <4>2
        <5>2. QED BY <3>1, <4>2, <5>1
      <4>4. T[j] = S[k + l]
        BY <2>6, <2>7, <4>1, <4>3
      <4>5. QED BY <2>2, <2>3, <4>1, <4>4
    <3>6. QED BY <3>1, <3>2, <3>3, <3>4, <3>5
  <2>10. Apart(T)
    <3>1. SUFFICES ASSUME NEW j \in DOMAIN T, NEW l \in DOMAIN T, T[j].project = T[l].project
                   PROVE  j = l
      BY DEF Apart
    <3>2. PICK j1 \in DOMAIN S : T[j] = S[j1] /\ j1 = IF j < k THEN j ELSE j + 1
      BY <2>2, <2>3, <2>9
    <3>3. PICK l1 \in DOMAIN S : T[l] = S[l1] /\ l1 = IF l < k THEN l ELSE l + 1
      BY <2>2, <2>3, <2>9
    <3>4. j1 = l1
      BY <1>1, <3>1, <3>2, <3>3 DEF OneLink
    <3>5. QED BY <2>2, <2>3, <2>9, <3>2, <3>3, <3>4
  <2>11. ASSUME NEW a
         PROVE  a \in SetOf(T) <=> a \in Links(i) /\ a.project # p
    <3>1. ASSUME a \in SetOf(T)
          PROVE  a \in Links(i) /\ a.project # p
      <4>1. PICK j \in DOMAIN T : a = T[j]
        BY <3>1 DEF SetOf
      <4>2. PICK j1 \in DOMAIN S : a = S[j1] /\ j1 # k
        <5>1. j \in 1 .. (n - 1)
          BY <2>9, <4>1
        <5>2. CASE j < k
          <6>1. T[j] = S[j] /\ j \in DOMAIN S /\ j # k
            BY <2>2, <2>3, <2>9, <5>1, <5>2
          <6>2. QED BY <4>1, <6>1
        <5>3. CASE ~ (j < k)
          <6>1. T[j] = S[j + 1] /\ j + 1 \in DOMAIN S /\ j + 1 # k
            BY <2>2, <2>3, <2>9, <5>1, <5>3
          <6>2. QED BY <4>1, <6>1
        <5>4. QED BY <5>2, <5>3
      <4>3. QED BY <1>1, <2>1, <4>2 DEF OneLink, Links
    <3>2. ASSUME a \in Links(i), a.project # p
          PROVE  a \in SetOf(T)
      <4>1. PICK j \in DOMAIN S : a = S[j]
        BY <1>1, <3>2 DEF Links
      <4>2. j # k
        BY <2>1, <3>2, <4>1
      <4>3. PICK l \in DOMAIN T : l = IF j < k THEN j ELSE j - 1
        BY <2>2, <2>3, <2>9, <4>2
      <4>4. T[l] = S[j]
        BY <2>2, <2>3, <2>9, <4>2, <4>3
      <4>5. QED BY <4>1, <4>4 DEF SetOf
    <3>3. QED BY <3>1, <3>2
  <2>12. member' = [member EXCEPT ![i] = T]
    BY <2>1, <2>2, <2>4, <2>5, <2>8
  <2>13. QED BY <2>9, <2>10, <2>11, <2>12, MemberMoves
<1>4. QED BY <1>2, <1>3 DEF Unlinked

LEMMA LinksStay ==
  ASSUME BoardTyped, BoardKept, NEW r \in Requests, NEW t \in Saving, Disturb(r, t),
         NEW i \in WorkItems, t.item = i,
         member' \in [WorkItems -> Seq(Link)],
         \A j \in WorkItems : j # i => member'[j] = member[j], OneLink(i)',
         UNCHANGED <<items, sections, slugs, episodes, excused>>, ~ Untold(r),
         Staged(t), Looks(t)', Knows(t)'
  PROVE  BoardTyped' /\ BoardKept'
<1>1. /\ Turn(r, t)
      /\ \A q \in Requests : q # r /\ req[q].item = i => Quieted(q)
  BY DisturbTurns
<1>2. BoardTyped'
  <2>1. ItemRow' = ItemRow /\ Link' = Link /\ Saving' = Saving
    BY DEF ItemRow, Link, Saving
  <2>2. QED BY <1>1, <2>1 DEF BoardTyped, Turn
<1>3. \A j \in WorkItems : j # i => Links(j)' = Links(j)
  BY DEF Links
<1>4. ASSUME NEW j \in WorkItems
      PROVE  Dated(j)' /\ OneLink(j)'
  <2>1. Telling(j) => Telling(j)'
    BY <1>1, TellingStays DEF Untold
  <2>2. Dated(j)'
    BY <2>1, DatedStays DEF BoardKept
  <2>3. CASE j = i
    BY <2>2, <2>3
  <2>4. CASE j # i
    BY <2>2, <2>4 DEF BoardKept, OneLink
  <2>5. QED BY <2>3, <2>4
<1>5. ASSUME NEW q \in Requests
      PROVE  Staged(req'[q]) /\ Looks(req[q])' /\ Knows(req[q])'
  <2>1. CASE q = r
    BY <1>1, <2>1 DEF Turn, Looks, Knows
  <2>2. CASE q # r
    <3>1. Quieted(q) \/ \A j \in WorkItems : j = req[q].item => Links(j)' = Links(j)
      BY <1>1, <1>3, <2>2
    <3>2. QED BY <1>1, <2>2, <3>1, OthersStay DEF BoardKept
  <2>3. QED BY <2>1, <2>2
<1>6. Numbered'
  BY DEF BoardKept, Numbered
<1>7. QED BY <1>2, <1>4, <1>5, <1>6 DEF BoardKept, Staged

LEMMA SyncUnlinkKeeps ==
  ASSUME BoardTyped, BoardKept, NEW r \in Requests, SyncUnlink(r)
  PROVE  BoardTyped' /\ BoardKept'
<1>1. PICK s \in Saving : s = req[r]
  BY SavingIs
<1>2. /\ s.pc = "unlink" /\ UNCHANGED <<items, sections, slugs, episodes, excused>>
      /\ Knows(s)
  BY <1>1 DEF SyncUnlink, grouping, history, BoardKept
<1>3. PICK i \in WorkItems : i = s.item
  BY <1>1, <1>2 DEF BoardKept, Staged
<1>4. CASE (\A link \in s.current : link.project = s.project) /\ Proceed(r, "link") /\ UNCHANGED member
  <2>1. PICK t \in Saving :
           /\ Turn(r, t) /\ \A q \in Requests : q # r => req'[q] = req[q]
           /\ t.pc = "link" /\ t.item = i /\ t.status = s.status /\ t.current = s.current
           /\ t.project = s.project /\ t.alone = s.alone
    BY <1>1, <1>3, <1>4, ProceedTurns DEF Stages
  <2>2. Staged(t) /\ Looks(t)' /\ Knows(t)'
    <3>1. Links(i)' = Links(i)
      BY <1>4 DEF Links
    <3>2. t.alone => t.current = Links(i)'
      BY <1>2, <1>3, <2>1, <3>1 DEF Knows
    <3>3. t.item = i
      BY <2>1
    <3>4. QED BY <1>4, <2>1, <3>2, <3>3 DEF Staged, Looks, Knows
  <2>3. /\ Numbered' /\ sections' \in SUBSET Requests /\ slugs' \in SUBSET Nat
        /\ excused' \in SUBSET WorkItems
    BY <1>2 DEF BoardKept, Numbered, BoardTyped
  <2>4. QED BY <1>1, <1>2, <1>4, <2>1, <2>2, <2>3, BoardStays DEF Untold
<1>5. CASE \E link \in s.current : /\ link.project # s.project
                                  /\ Unlinked(i, link.project)
                                  /\ Disturb(r, [s EXCEPT !.current = @ \ {link}])
  <2>1. PICK link \in s.current : /\ link.project # s.project
                                  /\ Unlinked(i, link.project)
                                  /\ Disturb(r, [s EXCEPT !.current = @ \ {link}])
    BY <1>5
  <2>2. PICK t : t = [s EXCEPT !.current = @ \ {link}]
    OBVIOUS
  <2>3. /\ t \in Saving /\ t.pc = "unlink" /\ t.item = i /\ t.current = s.current \ {link}
        /\ t.alone = s.alone /\ t.status = s.status
    BY <1>1, <1>2, <1>3, <2>2 DEF Saving
  <2>4. OneLink(i)
    BY DEF BoardKept
  <2>5. PICK p : p = link.project
    OBVIOUS
  <2>6. /\ member' \in [WorkItems -> Seq(Link)]
        /\ \A j \in WorkItems : j # i => member'[j] = member[j]
        /\ OneLink(i)'
        /\ \A a : a \in Links(i)' <=> a \in Links(i) /\ a.project # p
    BY <2>1, <2>4, <2>5, UnlinkedIs
  <2>7. Staged(t) /\ Looks(t)' /\ Knows(t)'
    <3>1. ASSUME t.alone
          PROVE  t.current = Links(i)'
      <4>1. s.current = Links(i)
        BY <1>2, <1>3, <2>3, <3>1 DEF Knows
      <4>2. \A a \in Links(i) : a.project = p => a = link
        BY <2>1, <2>4, <2>5, <4>1 DEF OneLink, Links
      <4>3. QED BY <2>1, <2>3, <2>5, <2>6, <4>1, <4>2
    <3>2. QED BY <1>3, <2>3, <3>1 DEF Staged, Looks, Knows
  <2>8. Disturb(r, t)
    BY <2>1, <2>2
  <2>9. QED BY <1>1, <1>2, <2>3, <2>6, <2>7, <2>8, LinksStay DEF Untold
<1>6. QED BY <1>1, <1>3, <1>4, <1>5 DEF SyncUnlink

(* What a save that has nothing left to remove does.                       *)
LEMMA SyncLinkIs ==
  ASSUME BoardTyped, BoardKept, NEW r \in Requests, SyncLink(r)
  PROVE  \E t \in Saving, i \in WorkItems :
           /\ t.pc = "done" /\ t.item = i /\ t.current = req[r].current
           /\ t.alone = req[r].alone /\ i = req[r].item
           /\ req'[r] = t /\ t.project = req[r].project
           /\ \/ /\ UNCHANGED member /\ Turn(r, t)
                 /\ \A q \in Requests : q # r => req'[q] = req[q]
                 /\ t.project = Unset \/ \E link \in t.current : link.project = t.project
              \/ /\ t.project \in Projects /\ \A link \in t.current : link.project # t.project
                 /\ Linked(i, t.project, Unset) /\ Disturb(r, t)
<1>1. PICK s \in Saving : s = req[r]
  BY SavingIs
<1>2. PICK i \in WorkItems : i = s.item
  BY <1>1 DEF BoardKept, Staged, SyncLink
<1>3. CASE /\ s.project = Unset \/ \E link \in s.current : link.project = s.project
           /\ Proceed(r, "done") /\ UNCHANGED member
  <2>1. PICK t \in Saving :
           /\ Turn(r, t) /\ \A q \in Requests : q # r => req'[q] = req[q]
           /\ t.pc = "done" /\ t.item = i /\ t.current = s.current
           /\ t.project = s.project /\ t.alone = s.alone
    BY <1>1, <1>2, <1>3, ProceedTurns DEF Stages
  <2>2. QED BY <1>1, <1>2, <1>3, <2>1 DEF Turn
<1>4. CASE /\ ~ (s.project = Unset \/ \E link \in s.current : link.project = s.project)
           /\ Linked(i, s.project, Unset) /\ Disturb(r, [s EXCEPT !.pc = "done"])
  <2>1. PICK t : t = [s EXCEPT !.pc = "done"]
    OBVIOUS
  <2>2. /\ t \in Saving /\ t.pc = "done" /\ t.item = i /\ t.current = s.current
        /\ t.project = s.project /\ t.alone = s.alone
    BY <1>1, <1>2, <2>1 DEF Saving, Stages
  <2>3. s.project \in Projects
    BY <1>1, <1>4 DEF Saving
  <2>4. Disturb(r, t)
    BY <1>4, <2>1
  <2>5. req'[r] = t
    BY <2>2, <2>4, DisturbTurns DEF Turn
  <2>6. QED BY <1>1, <1>2, <1>4, <2>2, <2>3, <2>4, <2>5
<1>5. QED BY <1>1, <1>2, <1>3, <1>4 DEF SyncLink

LEMMA SyncLinkKeeps ==
  ASSUME BoardTyped, BoardKept, NEW r \in Requests, SyncLink(r)
  PROVE  BoardTyped' /\ BoardKept'
<1>1. PICK t \in Saving, i \in WorkItems :
           /\ t.pc = "done" /\ t.item = i
           /\ \/ UNCHANGED member /\ Turn(r, t) /\ \A q \in Requests : q # r => req'[q] = req[q]
              \/ t.project \in Projects /\ Linked(i, t.project, Unset) /\ Disturb(r, t)
  BY SyncLinkIs
<1>2. Staged(t) /\ Looks(t)' /\ Knows(t)'
  BY <1>1, UnhurriedIs DEF Unhurried
<1>3. ~ Untold(r) /\ UNCHANGED <<items, sections, slugs, episodes, excused>>
  BY DEF SyncLink, grouping, history, Untold
<1>4. CASE UNCHANGED member /\ Turn(r, t) /\ \A q \in Requests : q # r => req'[q] = req[q]
  <2>1. /\ Numbered' /\ sections' \in SUBSET Requests /\ slugs' \in SUBSET Nat
        /\ excused' \in SUBSET WorkItems
    BY <1>3 DEF BoardKept, Numbered, BoardTyped
  <2>2. QED BY <1>2, <1>3, <1>4, <2>1, BoardStays DEF Untold
<1>5. CASE t.project \in Projects /\ Linked(i, t.project, Unset) /\ Disturb(r, t)
  <2>1. PICK p \in Projects : p = t.project
    BY <1>5
  <2>2. /\ member' \in [WorkItems -> Seq(Link)]
        /\ \A j \in WorkItems : j # i => member'[j] = member[j]
    BY <1>5, <2>1, LinkedIs DEF BoardKept
  <2>3. OneLink(i)'
    BY <1>5, <2>1, LinkedIs DEF BoardKept
  <2>4. QED BY <1>1, <1>2, <1>3, <1>5, <2>2, <2>3, LinksStay DEF Untold
<1>6. QED BY <1>1, <1>4, <1>5

LEMMA JoinKeeps ==
  ASSUME BoardTyped, BoardKept, NEW r \in Requests, Join(r)
  PROVE  BoardTyped' /\ BoardKept'
<1>1. PICK s \in Saving : s = req[r]
  BY SavingIs
<1>2. PICK i \in WorkItems, p \in Projects : i = s.item /\ p = s.project
  BY <1>1 DEF BoardKept, Staged, Join
<1>3. PICK t : t = [s EXCEPT !.pc = "done"]
  OBVIOUS
<1>4. t \in Saving /\ t.pc = "done" /\ t.item = i
  BY <1>1, <1>2, <1>3 DEF Saving, Stages
<1>5. Disturb(r, t) /\ Linked(i, p, Unset)
  BY <1>1, <1>2, <1>3 DEF Join
<1>6. /\ member' \in [WorkItems -> Seq(Link)]
      /\ \A j \in WorkItems : j # i => member'[j] = member[j]
      /\ OneLink(i)'
  BY <1>5, LinkedIs DEF BoardKept
<1>7. Staged(t) /\ Looks(t)' /\ Knows(t)'
  BY <1>4, UnhurriedIs DEF Unhurried
<1>8. ~ Untold(r) /\ UNCHANGED <<items, sections, slugs, episodes, excused>>
  BY DEF Join, grouping, history, Untold
<1>9. QED BY <1>4, <1>5, <1>6, <1>7, <1>8, LinksStay DEF Untold

LEMMA ToolLinkKeeps ==
  ASSUME BoardTyped, BoardKept, NEW r \in Requests, NEW i \in WorkItems, NEW p \in Projects,
         ToolLink(r, i, p)
  PROVE  BoardTyped' /\ BoardKept'
<1>1. PICK f \in Saving : f = Fresh
  BY FreshIs
<1>2. PICK t : t = [f EXCEPT !.pc = "done", !.op = "link", !.item = i]
  OBVIOUS
<1>3. t \in Saving /\ t.pc = "done" /\ t.item = i
  BY <1>1, <1>2 DEF Saving, Stages
<1>4. Disturb(r, t)
  BY <1>1, <1>2 DEF ToolLink, Settle
<1>5. sections \subseteq Requests /\ OneLink(i)
  BY DEF BoardTyped, BoardKept
<1>6. /\ member' \in [WorkItems -> Seq(Link)]
      /\ \A j \in WorkItems : j # i => member'[j] = member[j]
      /\ OneLink(i)'
  <2>1. CASE ToolAdd(r, i, p)
    <3>1. PICK s \in Requests \cup {Unset} : Linked(i, p, s)
      BY <1>5, <2>1 DEF ToolAdd
    <3>2. QED BY <1>5, <3>1, LinkedIs
  <2>2. CASE ToolRemove(r, i, p)
    <3>1. Unlinked(i, p)
      BY <2>2 DEF ToolRemove
    <3>2. QED BY <1>5, <3>1, UnlinkedIs
  <2>3. CASE ToolMove(r, i, p)
    <3>1. PICK s \in Requests \cup {Unset} : member' = Sectioned(i, p, s)
      BY <1>5, <2>3 DEF ToolMove
    <3>2. QED BY <1>5, <3>1, SectionedIs
  <2>4. QED BY <2>1, <2>2, <2>3 DEF ToolLink
<1>7. Staged(t) /\ Looks(t)' /\ Knows(t)'
  BY <1>3, UnhurriedIs DEF Unhurried
<1>8. ~ Untold(r) /\ UNCHANGED <<items, sections, slugs, episodes, excused>>
  BY DEF ToolLink, ToolAdd, ToolRemove, ToolMove, Start, grouping, history, Untold
<1>9. QED BY <1>3, <1>4, <1>6, <1>7, <1>8, LinksStay DEF Untold

----------------------------------------------------------------------------
LEMMA BoardStepKeeps ==
  ASSUME BoardTyped, BoardKept, NEW r \in Requests, Step(r)
  PROVE  BoardTyped' /\ BoardKept'
<1>1. CASE \E i \in WorkItems :
             \/ LoadForm(r, i) \/ ToolUpdate(r, i) \/ Create(r, i)
             \/ \E p \in Projects : ToolLink(r, i, p)
  BY <1>1, LoadFormKeeps, ToolUpdateKeeps, CreateKeeps, ToolLinkKeeps
<1>2. CASE Update(r) \/ Close(r) \/ Tell(r) \/ Store(r) \/ TellFails(r) \/ Abort(r)
  BY <1>2, UpdateKeeps, CloseKeeps, TellKeeps, AbortKeeps
<1>3. CASE SyncList(r) \/ SyncUnlink(r) \/ SyncLink(r) \/ SyncFails(r) \/ Join(r)
  BY <1>3, SyncListKeeps, SyncUnlinkKeeps, SyncLinkKeeps, SyncFailsKeeps, JoinKeeps
<1>4. CASE SectionAdd(r) \/ ProjectCreate(r) \/ UniqueSlug(r) \/ ProjectInsert(r)
           \/ \E p \in Projects : Archive(r, p)
  BY <1>4, ShortKeeps, ProjectCreateKeeps, UniqueSlugKeeps, ProjectInsertKeeps
<1>5. QED BY <1>1, <1>2, <1>3, <1>4 DEF Step

LEMMA BoardStutters ==
  ASSUME BoardTyped, BoardKept, UNCHANGED boardVars
  PROVE  BoardTyped' /\ BoardKept'
<1>1. UNCHANGED <<items, member, archived, sections, slugs, req, episodes, excused>>
  BY DEF boardVars, board, grouping, history
<1>2. BoardTyped'
  BY <1>1 DEF BoardTyped, ItemRow, Link, Saving
<1>3. (\A i \in WorkItems : Dated(i) /\ OneLink(i))'
  BY <1>1 DEF BoardKept, Dated, Telling, Untold, OneLink
<1>4. (\A r \in Requests : Staged(req[r]) /\ Knows(req[r]) /\ Looks(req[r]))'
  BY <1>1 DEF BoardKept, Staged, Knows, Looks, Links
<1>5. Numbered'
  BY <1>1 DEF BoardKept, Numbered
<1>6. QED BY <1>2, <1>3, <1>4, <1>5 DEF BoardKept

LEMMA BoardStarts ==
  ASSUME BoardInit
  PROVE  BoardTyped /\ BoardKept
<1>1. PICK f \in Saving : f = Fresh
  BY FreshIs
<1>2. req = [r \in Requests |-> f] /\ f.pc = "new"
  BY <1>1, FreshIs DEF BoardInit
<1>3. /\ items \in [WorkItems -> ItemRow]
      /\ \A i \in WorkItems : items[i].status # "done"
  <2>1. PICK a : a = [status |-> "open", closedAt |-> FALSE, parent |-> Unset]
    OBVIOUS
  <2>2. PICK b : b = [status |-> "absent", closedAt |-> FALSE, parent |-> Unset]
    OBVIOUS
  <2>3. a \in ItemRow /\ b \in ItemRow /\ a.status = "open" /\ b.status = "absent"
    BY <2>1, <2>2 DEF ItemRow
  <2>4. \A i \in WorkItems : items[i] = a \/ items[i] = b
    BY <2>1, <2>2 DEF BoardInit
  <2>5. items = [i \in WorkItems |-> items[i]]
    BY DEF BoardInit
  <2>6. QED BY <2>3, <2>4, <2>5
<1>4. BoardTyped
  BY <1>1, <1>2, <1>3 DEF BoardInit, BoardTyped
<1>5. \A i \in WorkItems : Dated(i) /\ OneLink(i)
  BY <1>3 DEF BoardInit, Dated, OneLink
<1>6. \A r \in Requests : Staged(req[r]) /\ Knows(req[r]) /\ Looks(req[r])
  BY <1>2 DEF Staged, Knows, Looks
<1>7. Numbered
  <2>1. slugs = 1 .. 0
    BY DEF BoardInit
  <2>2. QED BY <2>1 DEF Numbered
<1>8. QED BY <1>4, <1>5, <1>6, <1>7 DEF BoardKept

LEMMA BoardAlways == BoardSpec => [](BoardTyped /\ BoardKept)
<1>1. ASSUME BoardTyped /\ BoardKept, [BoardNext]_boardVars
      PROVE  (BoardTyped /\ BoardKept)'
  BY <1>1, BoardStepKeeps, BoardStutters DEF BoardNext
<1>2. QED BY <1>1, BoardStarts, PTL DEF BoardSpec

(* At rest a closed item has its closing time and an episode since, unless *)
(* it was created closed, or a closing was cut off or its episode lost     *)
(* (work_close of memory/facade.py).                                       *)
THEOREM ClosedItemsAreTold == BoardSpec => []ClosedIsTold
<1>1. ASSUME BoardTyped, BoardKept
      PROVE  ClosedIsTold
  <2>1. SUFFICES ASSUME Busy = {}, NEW i \in There \ excused, items[i].status = "done"
                 PROVE  items[i].closedAt /\ Title[i] \in episodes
    BY DEF ClosedIsTold
  <2>2. ~ Telling(i)
    BY <2>1 DEF Telling, Untold, Busy, Ended
  <2>3. i \in WorkItems
    BY DEF There
  <2>4. QED BY <1>1, <2>1, <2>2, <2>3 DEF BoardKept, Dated
<1>2. QED BY <1>1, BoardAlways, PTL

(* The projects of one name have its slug and the numbers after it, none   *)
(* left out, and a new one is refused only when another took the slug      *)
(* meanwhile (_unique_slug of memory/projects.py).                         *)
THEOREM SlugsStayApart == BoardSpec => []SlugsApart
<1>1. ASSUME BoardTyped, BoardKept
      PROVE  SlugsApart
  <2>1. PICK m \in Nat : slugs = 1 .. m
    BY <1>1 DEF BoardKept, Numbered
  <2>2. Cardinality(1 .. m) = m
    <3>1. Cardinality(1 .. m) = IF 1 > m THEN 0 ELSE m - 1 + 1
      BY <2>1, FS_Interval
    <3>2. QED BY <2>1, <3>1
  <2>3. \A r \in Requests : req[r].pc = "refused" => req[r].n \in slugs \ req[r].base
    BY <1>1 DEF BoardKept, Looks
  <2>4. QED BY <2>1, <2>2, <2>3 DEF SlugsApart
<1>2. QED BY <1>1, BoardAlways, PTL

(* A step of a request leaves the stage of the others.                     *)
StagesHeld(q) == \A r \in Requests : r # q => req'[r].pc = req[r].pc

LEMMA BecomeHolds ==
  ASSUME BoardTyped, NEW q \in Requests, NEW s, Become(q, s)
  PROVE  StagesHeld(q)
BY DEF BoardTyped, Become, StagesHeld

LEMMA DisturbHolds ==
  ASSUME BoardTyped, NEW q \in Requests, NEW s, Disturb(q, s)
  PROVE  StagesHeld(q)
<1>1. SUFFICES ASSUME NEW r \in Requests, r # q
               PROVE  req'[r].pc = req[r].pc
  BY DEF StagesHeld
<1>2. PICK u \in Saving : u = req[r]
  BY SavingIs
<1>3. PICK v : v = [u EXCEPT !.alone = FALSE]
  OBVIOUS
<1>4. v.pc = u.pc
  BY <1>2, <1>3 DEF Saving
<1>5. req'[r] = u \/ req'[r] = v
  BY <1>1, <1>2, <1>3 DEF Disturb
<1>6. QED BY <1>2, <1>4, <1>5

LEMMA StepHolds ==
  ASSUME BoardTyped, NEW q \in Requests, Step(q)
  PROVE  StagesHeld(q)
<1>1. CASE \E i \in WorkItems : LoadForm(q, i) \/ ToolUpdate(q, i) \/ Create(q, i)
  BY <1>1, BecomeHolds DEF LoadForm, ToolUpdate, Create
<1>2. CASE \E i \in WorkItems, p \in Projects : ToolLink(q, i, p)
  BY <1>2, DisturbHolds DEF ToolLink, Settle
<1>3. CASE \E p \in Projects : Archive(q, p)
  BY <1>3, BecomeHolds DEF Archive
<1>4. CASE Update(q) \/ Close(q) \/ Tell(q) \/ Store(q) \/ TellFails(q)
  BY <1>4, BecomeHolds DEF Update, Close, Tell, Store, TellFails, Proceed
<1>5. CASE SyncList(q) \/ SyncFails(q)
  BY <1>5, BecomeHolds DEF SyncList, SyncFails
<1>6. CASE SyncUnlink(q) \/ SyncLink(q)
  BY <1>6, BecomeHolds, DisturbHolds DEF SyncUnlink, SyncLink, Proceed
<1>7. CASE Join(q)
  BY <1>7, DisturbHolds DEF Join
<1>8. CASE SectionAdd(q) \/ ProjectCreate(q) \/ UniqueSlug(q) \/ ProjectInsert(q) \/ Abort(q)
  BY <1>8, BecomeHolds DEF SectionAdd, ProjectCreate, UniqueSlug, ProjectInsert, Abort, Proceed
<1>9. QED BY <1>1, <1>2, <1>3, <1>4, <1>5, <1>6, <1>7, <1>8 DEF Step

(* From the last stage of a save only the link ends it well.               *)
LEMMA OnlyLinkEnds ==
  ASSUME BoardTyped, NEW r \in Requests, Step(r), req[r].pc = "link",
         req'[r].pc = "done", req'[r].alone
  PROVE  SyncLink(r)
<1>1. \A s : Become(r, s) => req'[r] = s
  BY DEF BoardTyped, Become
<1>2. PICK u \in Saving : u = req[r]
  BY SavingIs
<1>3. ~ SyncFails(r) /\ ~ Abort(r)
  <2>1. PICK v : v = [u EXCEPT !.pc = "done", !.alone = FALSE]
    OBVIOUS
  <2>2. PICK w : w = [u EXCEPT !.pc = "failed", !.alone = FALSE]
    OBVIOUS
  <2>3. ~ v.alone /\ ~ w.alone
    BY <1>2, <2>1, <2>2 DEF Saving
  <2>4. QED BY <1>1, <1>2, <2>1, <2>2, <2>3 DEF SyncFails, Abort
<1>4. \A op : ~ Start(r, op)
  BY DEF Start
<1>5. /\ \A i : ~ LoadForm(r, i) /\ ~ ToolUpdate(r, i) /\ ~ Create(r, i)
      /\ \A i, p : ~ ToolLink(r, i, p)
      /\ \A p : ~ Archive(r, p)
      /\ ~ SectionAdd(r) /\ ~ ProjectCreate(r)
  BY <1>4 DEF LoadForm, ToolUpdate, Create, ToolLink, ToolAdd, ToolRemove, ToolMove, Archive,
              SectionAdd, ProjectCreate
<1>6. /\ ~ Update(r) /\ ~ Close(r) /\ ~ Tell(r) /\ ~ Store(r) /\ ~ TellFails(r)
      /\ ~ SyncList(r) /\ ~ SyncUnlink(r) /\ ~ Join(r)
      /\ ~ UniqueSlug(r) /\ ~ ProjectInsert(r)
  BY DEF Update, Close, Tell, Store, TellFails, Untold, SyncList, SyncUnlink, Join, UniqueSlug, ProjectInsert
<1>7. QED BY <1>3, <1>5, <1>6 DEF Step

(* A save nobody interfered with leaves the item in the project selected   *)
(* and no other, in the section it had there (_sync_work_project of        *)
(* server/console.py).                                                     *)
THEOREM SavesLeaveOneProject == BoardSpec => OneProject
<1> DEFINE Leaves(r) ==
      req[r].pc = "link" /\ req[r].alone /\ req'[r].pc = "done" /\ req'[r].alone
         => /\ In(req[r].item)' = {req[r].project} \ {Unset}
            /\ req[r].current \subseteq Links(req[r].item)'
<1>1. ASSUME BoardTyped, BoardKept, NEW r \in Requests, SyncLink(r)
      PROVE  Leaves(r)
  <2>1. PICK t \in Saving, i \in WorkItems :
           /\ t.pc = "done" /\ t.item = i /\ t.current = req[r].current
           /\ t.alone = req[r].alone /\ i = req[r].item
           /\ req'[r] = t /\ t.project = req[r].project
           /\ \/ /\ UNCHANGED member
                 /\ t.project = Unset \/ \E link \in t.current : link.project = t.project
              \/ /\ t.project \in Projects /\ \A link \in t.current : link.project # t.project
                 /\ Linked(i, t.project, Unset)
    <3>1. PICK t \in Saving, i \in WorkItems :
             /\ t.pc = "done" /\ t.item = i /\ t.current = req[r].current
             /\ t.alone = req[r].alone /\ i = req[r].item
             /\ req'[r] = t /\ t.project = req[r].project
             /\ \/ /\ UNCHANGED member /\ Turn(r, t)
                   /\ \A q \in Requests : q # r => req'[q] = req[q]
                   /\ t.project = Unset \/ \E link \in t.current : link.project = t.project
                \/ /\ t.project \in Projects /\ \A link \in t.current : link.project # t.project
                   /\ Linked(i, t.project, Unset) /\ Disturb(r, t)
      BY <1>1, SyncLinkIs
    <3>2. QED BY <3>1
  <2>2. PICK p, C : p = t.project /\ C = t.current
    OBVIOUS
  <2>3. SUFFICES ASSUME req[r].pc = "link", req[r].alone
                 PROVE  In(i)' = {p} \ {Unset} /\ C \subseteq Links(i)'
    BY <2>1, <2>2
  <2>4. C = Links(i) /\ \A link \in C : link.project = p
    BY <1>1, <2>1, <2>2, <2>3 DEF BoardKept, Knows
  <2>5. C \subseteq Link /\ \A link \in Link : link.project # Unset
    BY <2>1, <2>2, WorkAssumption DEF Saving, Link
  <2>6. CASE UNCHANGED member /\ (p = Unset \/ \E link \in C : link.project = p)
    <3>1. Links(i)' = C
      BY <2>4, <2>6 DEF Links
    <3>2. In(i)' = {link.project : link \in C}
      BY <3>1 DEF In
    <3>3. QED BY <2>4, <2>5, <2>6, <3>1, <3>2
  <2>7. CASE p \in Projects /\ (\A link \in C : link.project # p) /\ Linked(i, p, Unset)
    <3>1. C = {} /\ p \notin In(i)
      BY <2>4, <2>7 DEF In
    <3>2. OneLink(i)
      BY <1>1 DEF BoardKept
    <3>3. PICK a \in Link : a.project = p /\ Links(i)' = Links(i) \cup {a}
      BY <1>1, <2>7, <3>1, <3>2, LinkedIs
    <3>4. Links(i)' = {a}
      BY <2>4, <3>1, <3>3
    <3>5. In(i)' = {p}
      BY <3>3, <3>4 DEF In
    <3>6. QED BY <2>5, <2>7, <3>1, <3>3, <3>5, WorkAssumption
  <2>8. QED BY <2>1, <2>2, <2>6, <2>7
<1>2. ASSUME BoardTyped /\ BoardKept, [BoardNext]_boardVars
      PROVE  [\A r \in Requests :
                req[r].pc = "link" /\ req[r].alone /\ req'[r].pc = "done" /\ req'[r].alone
                  => /\ In(req[r].item)' = {req[r].project} \ {Unset}
                     /\ req[r].current \subseteq Links(req[r].item)']_boardVars
  <2>1. SUFFICES ASSUME BoardNext, NEW r \in Requests, req[r].pc = "link",
                        req'[r].pc = "done", req'[r].alone
                 PROVE  Leaves(r)
    BY <1>2
  <2>2. PICK q \in Requests : Step(q)
    BY <2>1 DEF BoardNext
  <2>3. q = r
    BY <1>2, <2>1, <2>2, StepHolds DEF StagesHeld
  <2>4. SyncLink(r)
    BY <1>2, <2>1, <2>2, <2>3, OnlyLinkEnds
  <2>5. QED BY <1>1, <1>2, <2>4
<1>3. QED BY <1>2, BoardAlways, PTL DEF BoardSpec, OneProject

----------------------------------------------------------------------------
(* The lists of the work page.                                             *)

(* What a request will write of a parent names items there are; a form was *)
(* shown a top-level item other than its own.                              *)
Carries(s) ==
  /\ s.pc \in {"update", "close"} => s.item \in There
  /\ s.parent \in There \cup {Unset}
  /\ s.op = "save" => s.offered = Unset /\ (s.parent # Unset => s.parent # s.item)

(* Parents that forms set can be ranked above their children.              *)
RankedBy(f) ==
  \A i \in There \ raced : items[i].parent # Unset => f[items[i].parent] < f[i]

Climbs(g, N, list, i) ==
  g = [k \in 0 .. N |-> IF k = 0 THEN i ELSE Over(list, g[k - 1])]

(* A climb of any length exists: by induction, from a least length without. *)
LEMMA ClimbExists ==
  ASSUME NEW N \in Nat, NEW list, NEW i
  PROVE  \E g : Climbs(g, N, list, i)
<1> DEFINE Bad == {n \in Nat : ~ \E g : Climbs(g, n, list, i)}
<1>1. SUFFICES ASSUME Bad # {}
               PROVE  FALSE
  OBVIOUS
<1>2. PICK n \in Bad : \A m \in Bad : n <= m
  <2>1. Bad \in SUBSET Nat
    OBVIOUS
  <2>2. QED BY <1>1, <2>1, Least
<1>3. n \in Nat /\ ~ \E g : Climbs(g, n, list, i)
  BY <1>2
<1>4. CASE n = 0
  <2>1. PICK g : g = [k \in 0 .. 0 |-> i]
    OBVIOUS
  <2>2. 0 .. 0 = {0}
    OBVIOUS
  <2>3. Climbs(g, 0, list, i)
    BY <2>1, <2>2 DEF Climbs
  <2>4. QED BY <1>3, <1>4, <2>3
<1>5. CASE n # 0
  <2>1. n - 1 \in Nat /\ n - 1 \notin Bad
    BY <1>2, <1>3, <1>5
  <2>2. PICK g : Climbs(g, n - 1, list, i)
    BY <2>1
  <2>3. PICK h : h = [k \in 0 .. n |-> IF k = n THEN Over(list, g[n - 1]) ELSE g[k]]
    OBVIOUS
  <2>4. ASSUME NEW k \in 0 .. n
        PROVE  h[k] = IF k = 0 THEN i ELSE Over(list, h[k - 1])
    <3>1. CASE k = n
      <4>1. n - 1 \in 0 .. n /\ n - 1 # n
        BY <1>3, <2>1
      <4>2. h[n - 1] = g[n - 1] /\ h[n] = Over(list, g[n - 1])
        BY <1>3, <2>3, <4>1
      <4>3. QED BY <1>5, <3>1, <4>2
    <3>2. CASE k # n
      <4>1. k \in 0 .. (n - 1) /\ (k # 0 => k - 1 \in 0 .. (n - 1))
        BY <1>3, <3>2
      <4>2. \A j \in 0 .. (n - 1) : j \in 0 .. n /\ j # n
        BY <1>3
      <4>3. \A j \in 0 .. (n - 1) : h[j] = g[j]
        BY <2>3, <4>2
      <4>4. g[k] = IF k = 0 THEN i ELSE Over(list, g[k - 1])
        BY <2>2, <4>1 DEF Climbs
      <4>5. QED BY <4>1, <4>3, <4>4
    <3>3. QED BY <3>1, <3>2
  <2>5. h = [k \in 0 .. n |-> h[k]]
    BY <2>3
  <2>6. Climbs(h, n, list, i)
    BY <2>4, <2>5 DEF Climbs
  <2>7. QED BY <1>3, <2>6
<1>6. QED BY <1>4, <1>5

LEMMA ClimbIs ==
  ASSUME NEW list, IsFiniteSet(list), NEW i
  PROVE  Climbs(Climb(list, i), Cardinality(list), list, i)
<1>1. Cardinality(list) \in Nat
  BY FS_CardinalityType
<1>2. \E g : Climbs(g, Cardinality(list), list, i)
  BY <1>1, ClimbExists
<1>3. QED BY <1>2 DEF Climbs, Climb

(* A climb of more steps than there are rows would visit one twice, and    *)
(* ranks fall on the way up.                                               *)
LEMMA ClimbTops ==
  ASSUME NEW f \in [WorkItems -> Nat], RankedBy(f),
         NEW list \in SUBSET There, IsFiniteSet(list), NEW i \in list,
         NEW N \in Nat, N = Cardinality(list), NEW c, Climbs(c, N, list, i),
         \A k \in 0 .. N : c[k] \notin raced
  PROVE  Over(list, c[N]) = c[N]
<1> DEFINE Up(k) == Over(list, c[k])
<1>1. SUFFICES ASSUME Up(N) # c[N]
               PROVE  FALSE
  OBVIOUS
<1>2. c[0] = i /\ \A k \in 1 .. N : c[k] = Up(k - 1)
  <2>1. 0 \in 0 .. N /\ \A k \in 1 .. N : k \in 0 .. N /\ k # 0
    OBVIOUS
  <2>2. \A k \in 0 .. N : c[k] = IF k = 0 THEN i ELSE Over(list, c[k - 1])
    BY DEF Climbs
  <2>3. QED BY <2>1, <2>2
<1>3. \A k \in 0 .. N : c[k] \in list
  <2> DEFINE Bad == {k \in 0 .. N : c[k] \notin list}
  <2>1. SUFFICES ASSUME Bad # {} PROVE FALSE
    OBVIOUS
  <2>2. PICK k \in Bad : \A j \in Bad : k <= j
    <3>1. Bad \in SUBSET Nat
      OBVIOUS
    <3>2. QED BY <2>1, <3>1, Least
  <2>3. k \in 0 .. N /\ c[k] \notin list
    BY <2>2
  <2>4. k # 0
    BY <1>2, <2>3
  <2>5. k \in 1 .. N /\ k - 1 \in 0 .. N /\ ~ (k <= k - 1)
    BY <2>3, <2>4
  <2>6. c[k - 1] \in list
    BY <2>2, <2>5
  <2>7. c[k] \in list
    BY <1>2, <2>5, <2>6 DEF Over
  <2>8. QED BY <2>3, <2>7
<1>4. \A k \in 0 .. N : Up(k) # c[k]
  <2> DEFINE Bad == {m \in 0 .. N : Up(N - m) = c[N - m]}
  <2>1. SUFFICES ASSUME NEW k \in 0 .. N, Up(k) = c[k] PROVE FALSE
    OBVIOUS
  <2>2. Bad # {}
    <3>1. N - k \in 0 .. N /\ N - (N - k) = k
      OBVIOUS
    <3>2. N - k \in Bad
      BY <2>1, <3>1
    <3>3. QED BY <3>2
  <2>3. PICK m \in Bad : \A j \in Bad : m <= j
    <3>1. Bad \in SUBSET Nat
      OBVIOUS
    <3>2. QED BY <2>2, <3>1, Least
  <2>4. m \in 0 .. N /\ Up(N - m) = c[N - m]
    BY <2>3
  <2>5. m # 0
    <3>1. N - 0 = N
      OBVIOUS
    <3>2. QED BY <1>1, <2>4, <3>1
  <2>6. PICK a, b : a = N - m /\ b = N - (m - 1)
    OBVIOUS
  <2>7. /\ a \in 0 .. N /\ b \in 1 .. N /\ b - 1 = a
        /\ m - 1 \in 0 .. N /\ ~ (m <= m - 1)
    BY <2>4, <2>5, <2>6
  <2>8. c[b] = Up(a)
    BY <1>2, <2>7
  <2>9. Up(a) = c[a]
    BY <2>4, <2>6
  <2>10. Up(b) = c[b]
    BY <2>8, <2>9
  <2>11. m - 1 \in Bad
    BY <2>6, <2>7, <2>10
  <2>12. QED BY <2>3, <2>7, <2>11
<1>5. ASSUME NEW k \in 1 .. N
      PROVE  c[k] \in WorkItems /\ c[k - 1] \in WorkItems /\ f[c[k]] < f[c[k - 1]]
  <2>1. k - 1 \in 0 .. N /\ k \in 0 .. N
    OBVIOUS
  <2>2. PICK x, y : x = c[k - 1] /\ y = c[k]
    OBVIOUS
  <2>3. x \in list /\ y \in list /\ x \notin raced
    BY <1>3, <2>1, <2>2
  <2>4. Over(list, x) # x /\ y = Over(list, x)
    BY <1>2, <1>4, <2>1, <2>2
  <2>5. y = items[x].parent
    BY <2>4 DEF Over
  <2>6. y # Unset /\ x \in WorkItems /\ y \in WorkItems
    BY <2>3, WorkAssumption DEF There
  <2>7. x \in There \ raced
    BY <2>3
  <2>8. f[y] < f[x]
    BY <2>5, <2>6, <2>7 DEF RankedBy
  <2>9. QED BY <2>2, <2>6, <2>8
<1>6. \A k \in 0 .. N : c[k] \in WorkItems /\ f[c[k]] \in Nat
  BY <1>3 DEF There
<1>7. ASSUME NEW j \in 0 .. N
      PROVE  \A k \in 0 .. N : j < k => f[c[k]] < f[c[j]]
  <2> DEFINE Bad == {k \in 0 .. N : j < k /\ ~ (f[c[k]] < f[c[j]])}
  <2>1. SUFFICES ASSUME Bad # {} PROVE FALSE
    OBVIOUS
  <2>2. PICK k \in Bad : \A m \in Bad : k <= m
    <3>1. Bad \in SUBSET Nat
      OBVIOUS
    <3>2. QED BY <2>1, <3>1, Least
  <2>3. k \in 0 .. N /\ j < k /\ ~ (f[c[k]] < f[c[j]])
    BY <2>2
  <2>4. k \in 1 .. N /\ k - 1 \in 0 .. N /\ ~ (k <= k - 1) /\ (j = k - 1 \/ j < k - 1)
    BY <2>3
  <2>5. f[c[k]] < f[c[k - 1]]
    BY <1>5, <2>4
  <2>6. CASE j = k - 1
    BY <2>3, <2>5, <2>6
  <2>7. CASE j < k - 1
    <3>1. PICK m : m = k - 1
      OBVIOUS
    <3>2. m \in 0 .. N /\ m \notin Bad /\ j < m
      BY <2>2, <2>4, <2>7, <3>1
    <3>3. f[c[m]] < f[c[j]]
      BY <3>2
    <3>4. f[c[m]] \in Nat /\ f[c[k]] \in Nat /\ f[c[j]] \in Nat
      BY <1>6, <2>3, <3>2
    <3>5. QED BY <2>3, <2>5, <3>1, <3>3, <3>4
  <2>8. QED BY <2>4, <2>6, <2>7
<1>8. PICK S : S = 0 .. N
  OBVIOUS
<1>9. IsFiniteSet(S) /\ Cardinality(S) = N + 1
  <2>1. /\ IsFiniteSet(0 .. N)
        /\ Cardinality(0 .. N) = IF 0 > N THEN 0 ELSE N - 0 + 1
    BY FS_Interval
  <2>2. QED BY <1>8, <2>1
<1>10. c \in [S -> list]
  BY <1>3, <1>8 DEF Climbs
<1>11. PICK x \in S, y \in S : x # y /\ c[x] = c[y]
  <2>1. Cardinality(list) < Cardinality(S)
    BY <1>9
  <2>2. QED BY <1>9, <1>10, <2>1, FS_PigeonHole
<1>12. x \in 0 .. N /\ y \in 0 .. N /\ (x < y \/ y < x)
  BY <1>8, <1>11
<1>13. f[c[x]] \in Nat /\ f[c[y]] \in Nat
  BY <1>6, <1>12
<1>14. QED BY <1>7, <1>11, <1>12, <1>13

LEMMA PlacedHangs ==
  ASSUME IsFiniteSet(There), NEW f \in [WorkItems -> Nat], RankedBy(f)
  PROVE  HangsFromTop
<1>1. ASSUME NEW list \in Listings, NEW i \in list
      PROVE  LET above == Climb(list, i)
                 top == above[Cardinality(list)]
             IN  Over(list, top) = top \/ \E k \in DOMAIN above : above[k] \in raced
  <2>1. list \in SUBSET There
    BY DEF Listings, Open, There, OfProject
  <2>2. IsFiniteSet(list)
    BY <2>1, FS_Subset
  <2>3. PICK N \in Nat : N = Cardinality(list)
    BY <2>2, FS_CardinalityType
  <2>4. PICK c : c = Climb(list, i)
    OBVIOUS
  <2>5. Climbs(c, N, list, i)
    BY <2>2, <2>3, <2>4, ClimbIs
  <2>6. DOMAIN c = 0 .. N
    BY <2>5 DEF Climbs
  <2>7. Over(list, c[N]) = c[N] \/ \E k \in DOMAIN c : c[k] \in raced
    BY <2>1, <2>2, <2>3, <2>5, <2>6, ClimbTops
  <2>8. QED BY <2>3, <2>4, <2>7
<1>2. QED BY <1>1 DEF HangsFromTop

(* What requests carry.                                                    *)
Kin(s, t) ==
  /\ t.item = s.item /\ t.parent = s.parent /\ t.op = s.op /\ t.offered = s.offered
  /\ t.pc \in {"update", "close"} => s.pc \in {"update", "close"}

LEMMA KinCarries ==
  ASSUME NEW s, NEW t, Carries(s), Kin(s, t), There \subseteq There'
  PROVE  Carries(t)'
BY DEF Carries, Kin

LEMMA OneCarries ==
  ASSUME BoardTyped, \A q \in Requests : Carries(req[q]), There \subseteq There',
         NEW r \in Requests, NEW t, Carries(t)', Become(r, t) \/ Disturb(r, t)
  PROVE  (\A q \in Requests : Carries(req[q]))'
<1>1. ASSUME NEW q \in Requests
      PROVE  Carries(req[q])'
  <2>1. PICK s \in Saving : s = req[q]
    BY SavingIs
  <2>2. PICK u : u = [s EXCEPT !.alone = FALSE]
    OBVIOUS
  <2>3. Kin(s, u) /\ Kin(s, s)
    BY <2>1, <2>2 DEF Saving, Kin
  <2>4. PICK v : req'[q] = v
    OBVIOUS
  <2>5. v = t \/ v = u \/ v = s
    BY <2>1, <2>2, <2>4 DEF BoardTyped, Become, Disturb
  <2>6. Carries(v)'
    BY <2>1, <2>3, <2>5, KinCarries
  <2>7. QED BY <2>4, <2>6 DEF Carries
<1>2. QED BY <1>1

LEMMA ProceedKin ==
  ASSUME BoardTyped, NEW r \in Requests, NEW pc, Proceed(r, pc),
         pc \in {"update", "close"} => req[r].pc \in {"update", "close"}
  PROVE  \E t : Kin(req[r], t) /\ (Become(r, t) \/ Disturb(r, t))
<1>1. PICK s \in Saving : s = req[r]
  BY SavingIs
<1>2. PICK t : t = [s EXCEPT !.pc = pc]
  OBVIOUS
<1>3. Kin(s, t)
  BY <1>1, <1>2 DEF Saving, Kin
<1>4. Become(r, t)
  BY <1>1, <1>2 DEF Proceed
<1>5. QED BY <1>1, <1>3, <1>4

LEMMA MovesOn ==
  ASSUME BoardTyped, NEW r \in Requests,
         \/ Update(r) \/ Close(r) \/ Tell(r) \/ Store(r) \/ TellFails(r)
         \/ SyncList(r) \/ SyncUnlink(r) \/ SyncLink(r) \/ SyncFails(r) \/ Join(r)
         \/ UniqueSlug(r) \/ ProjectInsert(r) \/ Abort(r)
  PROVE  \E t : Kin(req[r], t) /\ (Become(r, t) \/ Disturb(r, t))
<1>1. PICK s \in Saving : s = req[r]
  BY SavingIs
<1>2. CASE Update(r)
  <2>1. PICK pc : Proceed(r, pc) /\ req[r].pc = "update"
    BY <1>2 DEF Update
  <2>2. QED BY <2>1, ProceedKin
<1>3. CASE Close(r)
  BY <1>3, ProceedKin DEF Close
<1>4. CASE Tell(r) \/ Store(r) \/ TellFails(r)
  <2>1. PICK pc \in {"store", "list", "done"} : Proceed(r, pc)
    BY <1>4 DEF Tell, Store, TellFails, AfterUpdate
  <2>2. QED BY <2>1, ProceedKin
<1>5. CASE SyncList(r)
  <2>1. PICK C : C = Links(s.item)
    OBVIOUS
  <2>2. PICK t : t = [s EXCEPT !.pc = "unlink", !.current = C, !.alone = TRUE]
    OBVIOUS
  <2>3. Kin(s, t)
    BY <1>1, <2>2 DEF Saving, Kin
  <2>4. Become(r, t)
    BY <1>1, <1>5, <2>1, <2>2 DEF SyncList
  <2>5. QED BY <1>1, <2>3, <2>4
<1>6. CASE SyncUnlink(r)
  <2>1. CASE Proceed(r, "link")
    BY <2>1, ProceedKin
  <2>2. CASE \E link \in s.current : Disturb(r, [s EXCEPT !.current = @ \ {link}])
    <3>1. PICK link : Disturb(r, [s EXCEPT !.current = @ \ {link}])
      BY <2>2
    <3>2. PICK C : C = s.current \ {link}
      OBVIOUS
    <3>3. PICK t : t = [s EXCEPT !.current = C]
      OBVIOUS
    <3>4. Kin(s, t)
      BY <1>1, <3>3 DEF Saving, Kin
    <3>5. Disturb(r, t)
      BY <3>1, <3>2, <3>3
    <3>6. QED BY <1>1, <3>4, <3>5
  <2>3. QED BY <1>1, <1>6, <2>1, <2>2 DEF SyncUnlink
<1>7. CASE SyncLink(r) \/ Join(r)
  <2>1. CASE Proceed(r, "done")
    BY <2>1, ProceedKin
  <2>2. CASE Disturb(r, [s EXCEPT !.pc = "done"])
    <3>1. PICK t : t = [s EXCEPT !.pc = "done"]
      OBVIOUS
    <3>2. Kin(s, t)
      BY <1>1, <3>1 DEF Saving, Kin
    <3>3. QED BY <1>1, <2>2, <3>1, <3>2
  <2>3. QED BY <1>1, <1>7, <2>1, <2>2 DEF SyncLink, Join
<1>8. CASE SyncFails(r) \/ Abort(r)
  <2>1. PICK pc \in {"done", "failed"} : Become(r, [s EXCEPT !.pc = pc, !.alone = FALSE])
    BY <1>1, <1>8 DEF SyncFails, Abort
  <2>2. PICK t : t = [s EXCEPT !.pc = pc, !.alone = FALSE]
    OBVIOUS
  <2>3. Kin(s, t)
    BY <1>1, <2>1, <2>2 DEF Saving, Kin
  <2>4. QED BY <1>1, <2>1, <2>2, <2>3
<1>9. CASE UniqueSlug(r)
  <2>1. CASE Become(r, [s EXCEPT !.n = @ + 1])
    <3>1. PICK t : t = [s EXCEPT !.n = s.n + 1]
      OBVIOUS
    <3>2. Kin(s, t)
      BY <1>1, <3>1 DEF Saving, Kin
    <3>3. Become(r, t)
      BY <2>1, <3>1
    <3>4. QED BY <1>1, <3>2, <3>3
  <2>2. CASE Proceed(r, "insert")
    BY <2>2, ProceedKin
  <2>3. QED BY <1>1, <1>9, <2>1, <2>2 DEF UniqueSlug
<1>10. CASE ProjectInsert(r)
  <2>1. PICK pc \in {"refused", "done"} : Proceed(r, pc)
    BY <1>10 DEF ProjectInsert
  <2>2. QED BY <2>1, ProceedKin
<1>11. QED BY <1>2, <1>3, <1>4, <1>5, <1>6, <1>7, <1>8, <1>9, <1>10

(* A form names a parent that is top-level, or none.                       *)
LEMMA FormOffers ==
  ASSUME BoardTyped, NEW i \in There, NEW t \in Filled(i)
  PROVE  t \in Saving /\ t.pc = "update" /\ t.item = i /\ t.op = "save"
         /\ t.parent \in {Unset} \cup Parents(i)
<1>1. t \in Saving /\ t.pc = "update" /\ t.item = i
  BY FormIs
<1>2. PICK f \in Saving : f = Fresh
  BY FreshIs
<1>3. PICK pa : pa = IF items[i].parent \in Parents(i) THEN items[i].parent ELSE Unset
  OBVIOUS
<1>4. PICK st, pr, fs : st = items[i].status /\ pr = Selected(i) /\ fs = {"status", "parent"}
  OBVIOUS
<1>5. PICK g : g = [f EXCEPT !.pc = "update", !.op = "save", !.item = i, !.fields = fs,
                             !.status = st, !.parent = pa, !.project = pr]
  OBVIOUS
<1>6. g = Form(i)
  BY <1>2, <1>3, <1>4, <1>5 DEF Form
<1>7. /\ DOMAIN g = DOMAIN f /\ g.op = "save" /\ g.parent = pa
      /\ pa \in {Unset} \cup Parents(i)
  BY <1>2, <1>3, <1>5 DEF Saving
<1>8. \A s : LET h == [g EXCEPT !.status = s] IN h.op = "save" /\ h.parent = pa
  BY <1>2, <1>7 DEF Saving
<1>9. \A p : LET h == [g EXCEPT !.parent = p] IN h.op = "save" /\ h.parent = p
  BY <1>2, <1>7 DEF Saving
<1>10. \A p : LET h == [g EXCEPT !.project = p] IN h.op = "save" /\ h.parent = pa
  BY <1>2, <1>7 DEF Saving
<1>11. \/ t = g \/ \E s : t = [g EXCEPT !.status = s]
       \/ \E p \in {Unset} \cup Parents(i) : t = [g EXCEPT !.parent = p]
       \/ \E p : t = [g EXCEPT !.project = p]
  BY <1>6 DEF Filled
<1>12. t.op = "save" /\ t.parent \in {Unset} \cup Parents(i)
  <2>1. CASE t = g
    BY <1>7, <2>1
  <2>2. CASE \E s : t = [g EXCEPT !.status = s]
    BY <1>7, <1>8, <2>2
  <2>3. CASE \E p \in {Unset} \cup Parents(i) : t = [g EXCEPT !.parent = p]
    BY <1>9, <2>3
  <2>4. CASE \E p : t = [g EXCEPT !.project = p]
    BY <1>7, <1>10, <2>4
  <2>5. QED BY <1>11, <2>1, <2>2, <2>3, <2>4
<1>13. QED BY <1>1, <1>12

LEMMA StartsCarry ==
  ASSUME BoardTyped, NEW r \in Requests, There \subseteq There',
         \A i \in There : items[i].parent \in There \cup {Unset},
         \/ \E i \in WorkItems :
              \/ LoadForm(r, i) \/ ToolUpdate(r, i) \/ Create(r, i)
              \/ \E p \in Projects : ToolLink(r, i, p)
         \/ \E p \in Projects : Archive(r, p)
         \/ SectionAdd(r) \/ ProjectCreate(r)
  PROVE  \E t : Carries(t)' /\ (Become(r, t) \/ Disturb(r, t))
<1>1. PICK f \in Saving : f = Fresh /\ f.parent = Unset /\ f.op = Unset
  BY FreshIs DEF Fresh
<1>2. CASE \E i \in WorkItems : LoadForm(r, i)
  <2>1. PICK i \in There : LoadForm(r, i)
    BY <1>2 DEF LoadForm
  <2>2. PICK g \in Filled(i) :
          Become(r, [g EXCEPT !.offered =
                       IF g.parent = Unset THEN Unset ELSE items[g.parent].parent])
    BY <2>1 DEF LoadForm
  <2>3. /\ g \in Saving /\ g.pc = "update" /\ g.item = i /\ g.op = "save"
        /\ g.parent \in {Unset} \cup Parents(i)
    BY FormOffers
  <2>4. PICK o : o = IF g.parent = Unset THEN Unset ELSE items[g.parent].parent
    OBVIOUS
  <2>5. o = Unset /\ g.parent \in There \cup {Unset} /\ g.parent # i
    BY <2>3, <2>4, WorkAssumption DEF Parents, Open, There
  <2>6. PICK t : t = [g EXCEPT !.offered = o]
    OBVIOUS
  <2>7. t.pc = "update" /\ t.item = i /\ t.parent = g.parent /\ t.offered = o /\ t.op = "save"
    BY <2>3, <2>6 DEF Saving
  <2>8. Carries(t)'
    BY <2>5, <2>7 DEF Carries
  <2>9. Become(r, t)
    BY <2>2, <2>4, <2>6
  <2>10. QED BY <2>8, <2>9
<1>3. CASE \E i \in WorkItems : ToolUpdate(r, i)
  <2>1. PICK i \in There : ToolUpdate(r, i)
    BY <1>3 DEF ToolUpdate
  <2>2. PICK change \in [field : {"status"}, to : {"open", "done"}]
                        \cup [field : {"parent"}, to : {Unset} \cup There] :
       Become(r, [Fresh EXCEPT
         !.op = "update", !.item = i, !.fields = {change.field},
         !.pc = IF change.to = "done" THEN "close" ELSE "update",
         !.status = IF change.field = "status" THEN change.to ELSE "open",
         !.parent = IF change.field = "parent" THEN change.to ELSE Unset])
    BY <2>1 DEF ToolUpdate
  <2>3. PICK fs, pc, st, pa :
          /\ fs = {change.field}
          /\ pc = IF change.to = "done" THEN "close" ELSE "update"
          /\ st = IF change.field = "status" THEN change.to ELSE "open"
          /\ pa = IF change.field = "parent" THEN change.to ELSE Unset
    OBVIOUS
  <2>4. PICK t : t = [f EXCEPT !.op = "update", !.item = i, !.fields = fs, !.pc = pc,
                               !.status = st, !.parent = pa]
    OBVIOUS
  <2>5. t.item = i /\ t.parent = pa /\ t.op = "update"
    BY <1>1, <2>4 DEF Saving
  <2>6. pa \in There \cup {Unset}
    BY <2>2, <2>3
  <2>7. Carries(t)'
    BY <2>5, <2>6 DEF Carries
  <2>8. Become(r, t)
    BY <1>1, <2>2, <2>3, <2>4
  <2>9. QED BY <2>7, <2>8
<1>4. CASE \E i \in WorkItems : Create(r, i)
  <2>1. PICK i \in WorkItems, in \in {Unset} \cup Projects :
          Become(r, [f EXCEPT !.op = "create", !.item = i, !.project = in,
                              !.pc = IF in = Unset THEN "done" ELSE "join"])
    BY <1>1, <1>4 DEF Create
  <2>2. PICK pc \in {"done", "join"} : pc = IF in = Unset THEN "done" ELSE "join"
    OBVIOUS
  <2>3. PICK t : t = [f EXCEPT !.op = "create", !.item = i, !.project = in, !.pc = pc]
    OBVIOUS
  <2>4. t.pc = pc /\ t.parent = Unset /\ t.op = "create"
    BY <1>1, <2>3 DEF Saving
  <2>5. QED BY <2>1, <2>2, <2>3, <2>4 DEF Carries
<1>5. CASE \E i \in WorkItems, p \in Projects : ToolLink(r, i, p)
  <2>1. PICK i : Disturb(r, [f EXCEPT !.pc = "done", !.op = "link", !.item = i])
    BY <1>1, <1>5 DEF ToolLink, Settle
  <2>2. PICK t : t = [f EXCEPT !.pc = "done", !.op = "link", !.item = i]
    OBVIOUS
  <2>3. t.pc = "done" /\ t.parent = Unset /\ t.op = "link"
    BY <1>1, <2>2 DEF Saving
  <2>4. QED BY <2>1, <2>2, <2>3 DEF Carries
<1>6. CASE SectionAdd(r) \/ \E p \in Projects : Archive(r, p)
  <2>1. PICK op \in {"section", "archive"} : Become(r, [f EXCEPT !.pc = "done", !.op = op])
    BY <1>1, <1>6 DEF SectionAdd, Archive
  <2>2. PICK t : t = [f EXCEPT !.pc = "done", !.op = op]
    OBVIOUS
  <2>3. t.pc = "done" /\ t.parent = Unset /\ t.op # "save"
    BY <1>1, <2>1, <2>2 DEF Saving
  <2>4. QED BY <2>1, <2>2, <2>3 DEF Carries
<1>7. CASE ProjectCreate(r)
  <2>1. PICK n, b : Become(r, [f EXCEPT !.pc = "slug", !.op = "project", !.n = n, !.base = b])
    BY <1>1, <1>7 DEF ProjectCreate
  <2>2. PICK t : t = [f EXCEPT !.pc = "slug", !.op = "project", !.n = n, !.base = b]
    OBVIOUS
  <2>3. t.pc = "slug" /\ t.parent = Unset /\ t.op = "project"
    BY <1>1, <2>2 DEF Saving
  <2>4. QED BY <2>1, <2>2, <2>3 DEF Carries
<1>8. QED BY <1>2, <1>3, <1>4, <1>5, <1>6, <1>7

(* A new parent is top-level, and can be ranked above all.                 *)
Placed ==
  /\ IsFiniteSet(There)
  /\ \A i \in There : items[i].parent \in There \cup {Unset}
  /\ \A r \in Requests : Carries(req[r])
  /\ \E f \in [WorkItems -> Nat] : RankedBy(f)

LEMMA UpdateRanks ==
  ASSUME BoardTyped, Placed, NEW r \in Requests, Update(r)
  PROVE  /\ There' = There
         /\ \A i \in There : items'[i].parent \in There \cup {Unset}
         /\ \E f \in [WorkItems -> Nat] : RankedBy(f)'
<1>1. PICK s \in Saving : s = req[r]
  BY SavingIs
<1>2. Carries(s) /\ s.pc = "update"
  BY <1>1 DEF Placed, Update
<1>3. PICK i : i = s.item /\ i \in There /\ i \in WorkItems
  BY <1>2 DEF Carries, There
<1>4. PICK w \in ItemRow : w = items[i]
  BY <1>3 DEF BoardTyped
<1>5. PICK st : st = IF "status" \in s.fields /\ ~ Closing(r) THEN s.status ELSE w.status
  OBVIOUS
<1>6. PICK pa : pa = IF "parent" \in s.fields THEN s.parent ELSE w.parent
  OBVIOUS
<1>7. PICK v : v = [w EXCEPT !.status = st, !.parent = pa]
  OBVIOUS
<1>8. v.status = st /\ v.parent = pa
  BY <1>4, <1>7 DEF ItemRow
<1>9. items' = [items EXCEPT ![i] = v] /\ items \in [WorkItems -> ItemRow]
  BY <1>1, <1>3, <1>4, <1>5, <1>6, <1>7 DEF Update, BoardTyped
<1>10. items'[i] = v /\ \A j \in WorkItems : j # i => items'[j] = items[j]
  BY <1>3, <1>9
<1>11. There' = There
  <2>1. st # "absent"
    BY <1>1, <1>3, <1>4, <1>5 DEF Saving, There
  <2>2. QED BY <1>3, <1>8, <1>10, <2>1 DEF There
<1>12. pa \in There \cup {Unset}
  BY <1>2, <1>3, <1>4, <1>6 DEF Carries, Placed
<1>13. \A j \in There : items'[j].parent \in There \cup {Unset}
  <2>1. \A j \in There : j \in WorkItems
    BY DEF There
  <2>2. QED BY <1>8, <1>10, <1>12, <2>1 DEF Placed
<1>14. PICK f \in [WorkItems -> Nat] : RankedBy(f)
  BY DEF Placed
<1>15. CASE "parent" \notin s.fields
  <2>1. pa = w.parent /\ raced' = raced
    BY <1>1, <1>6, <1>15 DEF Update, Reparent
  <2>2. \A j \in There : items'[j].parent = items[j].parent
    <3>1. \A j \in There : j \in WorkItems
      BY DEF There
    <3>2. QED BY <1>4, <1>8, <1>10, <2>1, <3>1
  <2>3. RankedBy(f)'
    BY <1>11, <1>14, <2>1, <2>2 DEF RankedBy
  <2>4. QED BY <1>11, <1>13, <2>3
<1>16. CASE "parent" \in s.fields /\ (Misled(r) \/ pa = Unset)
  <2>1. pa = s.parent /\ (raced' = raced \cup {i} \/ (raced' = raced \ {i} /\ pa = Unset))
    BY <1>1, <1>3, <1>6, <1>16 DEF Update, Reparent
  <2>2. ASSUME NEW j \in There' \ raced', items'[j].parent # Unset
        PROVE  f[items'[j].parent] < f[j]
    <3>1. j # i
      BY <1>8, <1>10, <2>1, <2>2
    <3>2. j \in There \ raced /\ items'[j] = items[j]
      <4>1. j \in There /\ j \in WorkItems
        BY <1>11, <2>2 DEF There
      <4>2. QED BY <1>10, <2>1, <2>2, <3>1, <4>1
    <3>3. QED BY <1>14, <2>2, <3>2 DEF RankedBy
  <2>3. RankedBy(f)'
    BY <2>2 DEF RankedBy
  <2>4. QED BY <1>11, <1>13, <2>3
<1>17. CASE "parent" \in s.fields /\ ~ Misled(r) /\ pa # Unset
  <2>1. pa = s.parent /\ raced' = raced \ {i}
    BY <1>1, <1>3, <1>6, <1>17 DEF Update, Reparent
  <2>2. s.op = "save" /\ items[pa].parent = s.offered
    BY <1>1, <1>17, <2>1 DEF Misled
  <2>3. pa # i /\ items[pa].parent = Unset /\ pa \in WorkItems
    BY <1>2, <1>3, <1>12, <1>17, <2>1, <2>2 DEF Carries, There
  <2>4. PICK g : g = [j \in WorkItems |-> IF j = pa THEN 0 ELSE f[j] + 1]
    OBVIOUS
  <2>5. g \in [WorkItems -> Nat]
    BY <2>4
  <2>6. ASSUME NEW j \in There' \ raced', items'[j].parent # Unset
        PROVE  g[items'[j].parent] < g[j]
    <3>1. j \in There /\ j \in WorkItems
      BY <1>11, <2>6 DEF There
    <3>2. PICK k : k = items'[j].parent
      OBVIOUS
    <3>3. k \in WorkItems
      BY <1>13, <2>6, <3>1, <3>2 DEF There
    <3>4. j # pa
      BY <1>10, <2>3, <2>6
    <3>5. g[j] = f[j] + 1 /\ f[j] \in Nat /\ f[k] \in Nat
      BY <2>4, <3>1, <3>3, <3>4
    <3>6. CASE k = pa
      <4>1. g[k] = 0
        BY <2>3, <2>4, <3>6
      <4>2. QED BY <3>2, <3>5, <4>1
    <3>7. CASE k # pa
      <4>1. j # i /\ items'[j] = items[j]
        BY <1>8, <1>10, <3>1, <3>2, <3>7
      <4>2. j \in There \ raced /\ items[j].parent = k
        BY <2>1, <2>6, <3>1, <3>2, <4>1
      <4>3. f[k] < f[j]
        BY <1>14, <2>6, <3>2, <4>2 DEF RankedBy
      <4>4. g[k] = f[k] + 1
        BY <2>4, <3>3, <3>7
      <4>5. QED BY <3>2, <3>5, <4>3, <4>4
    <3>8. QED BY <3>6, <3>7
  <2>7. RankedBy(g)'
    BY <2>6 DEF RankedBy
  <2>8. QED BY <1>11, <1>13, <2>5, <2>7
<1>18. QED BY <1>15, <1>16, <1>17

LEMMA CreateRanks ==
  ASSUME BoardTyped, Placed, NEW r \in Requests, NEW i \in WorkItems, Create(r, i)
  PROVE  /\ There' = There \cup {i}
         /\ \A j \in There' : items'[j].parent \in There' \cup {Unset}
         /\ \E f \in [WorkItems -> Nat] : RankedBy(f)'
<1>1. PICK s \in {"open", "done"}, p \in {Unset} \cup There : items' = [items EXCEPT ![i] = NewRow(s, p)]
  BY DEF Create
<1>2. PICK v : v = NewRow(s, p)
  OBVIOUS
<1>3. v.status = s /\ v.parent = p
  BY <1>2 DEF NewRow
<1>4. items'[i] = v /\ \A j \in WorkItems : j # i => items'[j] = items[j]
  BY <1>1, <1>2 DEF BoardTyped
<1>5. i \notin There /\ raced' = raced
  BY DEF Create
<1>6. There' = There \cup {i}
  BY <1>1, <1>3, <1>4 DEF There
<1>7. \A j \in There : j # i /\ j \in WorkItems /\ items'[j] = items[j]
  BY <1>4, <1>5 DEF There
<1>8. \A j \in There' : items'[j].parent \in There' \cup {Unset}
  BY <1>1, <1>3, <1>4, <1>6, <1>7 DEF Placed
<1>9. PICK f \in [WorkItems -> Nat] : RankedBy(f)
  BY DEF Placed
<1>10. PICK g : g = [j \in WorkItems |-> IF j = i THEN (IF p = Unset THEN 0 ELSE f[p] + 1) ELSE f[j]]
  OBVIOUS
<1>11. g \in [WorkItems -> Nat]
  <2>1. p # Unset => p \in WorkItems
    BY <1>1 DEF There
  <2>2. QED BY <1>10, <2>1
<1>12. ASSUME NEW j \in There' \ raced', items'[j].parent # Unset
       PROVE  g[items'[j].parent] < g[j]
  <2>1. CASE j = i
    <3>1. p \in There /\ p # i /\ p \in WorkItems /\ items'[j].parent = p
      BY <1>1, <1>3, <1>4, <1>5, <1>12, <2>1 DEF There
    <3>2. g[p] = f[p] /\ g[i] = f[p] + 1 /\ f[p] \in Nat
      <4>1. p # Unset
        BY <1>12, <3>1
      <4>2. QED BY <1>10, <3>1, <4>1
    <3>3. QED BY <2>1, <3>1, <3>2
  <2>2. CASE j # i
    <3>1. j \in There \ raced /\ j \in WorkItems /\ items'[j] = items[j]
      BY <1>5, <1>6, <1>7, <1>12, <2>2
    <3>2. PICK k : k = items[j].parent
      OBVIOUS
    <3>3. k \in There /\ k # i /\ k \in WorkItems
      BY <1>7, <1>12, <3>1, <3>2 DEF Placed
    <3>4. f[k] < f[j]
      BY <1>9, <1>12, <3>1, <3>2 DEF RankedBy
    <3>5. g[k] = f[k] /\ g[j] = f[j]
      BY <1>10, <2>2, <3>1, <3>3
    <3>6. QED BY <3>1, <3>2, <3>4, <3>5
  <2>3. QED BY <2>1, <2>2
<1>13. RankedBy(g)'
  BY <1>12 DEF RankedBy
<1>14. QED BY <1>6, <1>8, <1>11, <1>13

LEMMA RanksStay ==
  ASSUME BoardTyped, Placed, raced' = raced,
         \A i \in WorkItems :
           /\ items'[i].parent = items[i].parent
           /\ items'[i].status = "absent" <=> items[i].status = "absent"
  PROVE  /\ There' = There
         /\ \A i \in There' : items'[i].parent \in There' \cup {Unset}
         /\ \E f \in [WorkItems -> Nat] : RankedBy(f)'
<1>1. There' = There
  BY DEF There
<1>2. \A i \in There : i \in WorkItems
  BY DEF There
<1>3. PICK f \in [WorkItems -> Nat] : RankedBy(f)
  BY DEF Placed
<1>4. RankedBy(f)'
  BY <1>1, <1>2, <1>3 DEF RankedBy
<1>5. QED BY <1>1, <1>2, <1>3, <1>4 DEF Placed

LEMMA PlacedStarts ==
  ASSUME BoardInit
  PROVE  Placed
<1>1. \A i \in WorkItems : /\ items[i].parent = Unset
                           /\ items[i].status # "absent" => i \in Existing
  BY DEF BoardInit
<1>2. IsFiniteSet(There)
  <2>1. There \subseteq Existing
    BY <1>1 DEF There
  <2>2. QED BY <2>1, WorkAssumption, FS_Subset
<1>3. \A r \in Requests : Carries(req[r])
  <2>1. PICK f : f = Fresh
    OBVIOUS
  <2>2. f.pc = "new" /\ f.parent = Unset /\ f.offered = Unset
    BY <2>1 DEF Fresh
  <2>3. \A r \in Requests : req[r] = f
    BY <2>1 DEF BoardInit
  <2>4. QED BY <2>2, <2>3 DEF Carries
<1>4. PICK f : f = [i \in WorkItems |-> 0]
  OBVIOUS
<1>5. f \in [WorkItems -> Nat] /\ RankedBy(f)
  BY <1>1, <1>4 DEF RankedBy, There
<1>6. QED BY <1>1, <1>2, <1>3, <1>5 DEF Placed, There

LEMMA PlacedStays ==
  ASSUME BoardTyped, BoardKept, Placed, NEW r \in Requests, Step(r)
  PROVE  Placed'
<1>1. /\ There \subseteq There' /\ IsFiniteSet(There')
      /\ \A i \in There' : items'[i].parent \in There' \cup {Unset}
      /\ \E f \in [WorkItems -> Nat] : RankedBy(f)'
  <2>1. CASE Update(r)
    BY <2>1, UpdateRanks DEF Placed
  <2>2. CASE \E i \in WorkItems : Create(r, i)
    <3>1. PICK i \in WorkItems : Create(r, i)
      BY <2>2
    <3>2. IsFiniteSet(There \cup {i})
      BY FS_AddElement DEF Placed
    <3>3. QED BY <3>1, <3>2, CreateRanks
  <2>3. CASE Close(r)
    <3>1. PICK i : i = req[r].item /\ i \in There /\ i \in WorkItems
      BY <2>3 DEF Close, Placed, Carries, There
    <3>2. PICK w \in ItemRow : w = items[i]
      BY <3>1 DEF BoardTyped
    <3>3. PICK v : v = [w EXCEPT !.status = "done", !.closedAt = TRUE]
      OBVIOUS
    <3>4. v.status = "done" /\ v.parent = w.parent
      BY <3>2, <3>3 DEF ItemRow
    <3>5. items' = [items EXCEPT ![i] = v] /\ items \in [WorkItems -> ItemRow]
      BY <2>3, <3>1, <3>2, <3>3 DEF Close, BoardTyped
    <3>6. \A j \in WorkItems : /\ items'[j].parent = items[j].parent
                               /\ items'[j].status = "absent" <=> items[j].status = "absent"
      BY <3>1, <3>2, <3>4, <3>5 DEF There
    <3>7. raced' = raced
      BY <2>3 DEF Close
    <3>8. QED BY <3>6, <3>7, RanksStay DEF Placed
  <2>4. CASE /\ ~ Update(r) /\ ~ Close(r)
             /\ ~ \E i \in WorkItems : Create(r, i)
    <3>1. UNCHANGED <<items, raced>>
      <4>1. CASE \E i \in WorkItems :
                    LoadForm(r, i) \/ ToolUpdate(r, i) \/ \E p \in Projects : ToolLink(r, i, p)
        BY <4>1 DEF LoadForm, ToolUpdate, ToolLink, board, history
      <4>2. CASE \E p \in Projects : Archive(r, p)
        BY <4>2 DEF Archive, history
      <4>3. CASE Tell(r) \/ Store(r) \/ TellFails(r) \/ SyncList(r) \/ SyncFails(r) \/ Abort(r)
        BY <4>3 DEF Tell, Store, TellFails, SyncList, SyncFails, Abort, board, history
      <4>4. CASE SyncUnlink(r) \/ SyncLink(r) \/ Join(r)
        BY <4>4 DEF SyncUnlink, SyncLink, Join, history
      <4>5. CASE SectionAdd(r) \/ ProjectCreate(r) \/ UniqueSlug(r) \/ ProjectInsert(r)
        BY <4>5 DEF SectionAdd, ProjectCreate, UniqueSlug, ProjectInsert, board, history
      <4>6. QED BY <2>4, <4>1, <4>2, <4>3, <4>4, <4>5 DEF Step
    <3>2. QED BY <3>1, RanksStay DEF Placed
  <2>5. QED BY <2>1, <2>2, <2>3, <2>4
<1>2. (\A q \in Requests : Carries(req[q]))'
  <2>1. CASE \/ \E i \in WorkItems :
                 \/ LoadForm(r, i) \/ ToolUpdate(r, i) \/ Create(r, i)
                 \/ \E p \in Projects : ToolLink(r, i, p)
             \/ \E p \in Projects : Archive(r, p)
             \/ SectionAdd(r) \/ ProjectCreate(r)
    <3>1. PICK t : Carries(t)' /\ (Become(r, t) \/ Disturb(r, t))
      BY <1>1, <2>1, StartsCarry DEF Placed
    <3>2. QED BY <1>1, <3>1, OneCarries DEF Placed
  <2>2. CASE \/ Update(r) \/ Close(r) \/ Tell(r) \/ Store(r) \/ TellFails(r)
             \/ SyncList(r) \/ SyncUnlink(r) \/ SyncLink(r) \/ SyncFails(r) \/ Join(r)
             \/ UniqueSlug(r) \/ ProjectInsert(r) \/ Abort(r)
    <3>1. PICK t : Kin(req[r], t) /\ (Become(r, t) \/ Disturb(r, t))
      BY <2>2, MovesOn
    <3>2. PICK s : s = req[r]
      OBVIOUS
    <3>3. Carries(t)'
      BY <1>1, <3>1, <3>2, KinCarries DEF Placed
    <3>4. QED BY <1>1, <3>1, <3>3, OneCarries DEF Placed
  <2>3. QED BY <2>1, <2>2 DEF Step
<1>3. QED BY <1>1, <1>2 DEF Placed

(* Every row of a list of the work page hangs under a top-level row of it, *)
(* unless an item above it was given its parent by a tool call or by a     *)
(* form whose parent had been moved since (_nest_subtasks and              *)
(* _work_link_options of server/console.py).                               *)
THEOREM RowsHangFromTop == BoardSpec => []HangsFromTop
<1>1. ASSUME BoardTyped /\ BoardKept, Placed, [BoardNext]_boardVars
      PROVE  Placed'
  <2>1. CASE BoardNext
    BY <1>1, <2>1, PlacedStays DEF BoardNext
  <2>2. CASE UNCHANGED boardVars
    <3>1. UNCHANGED <<items, req, raced>>
      BY <2>2 DEF boardVars, board, history
    <3>2. There' = There
      BY <3>1 DEF There
    <3>3. \A s : Carries(s)' <=> Carries(s)
      BY <3>2 DEF Carries
    <3>4. \A f : RankedBy(f)' <=> RankedBy(f)
      BY <3>1, <3>2 DEF RankedBy
    <3>5. (\A q \in Requests : Carries(req[q]))'
      BY <1>1, <3>1, <3>2 DEF Placed, Carries
    <3>6. QED BY <1>1, <3>1, <3>2, <3>4, <3>5 DEF Placed
  <2>3. QED BY <1>1, <2>1, <2>2
<1>2. Placed => HangsFromTop
  BY PlacedHangs DEF Placed
<1>3. QED BY <1>1, <1>2, PlacedStarts, BoardAlways, PTL DEF BoardSpec

=============================================================================
