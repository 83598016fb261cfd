---------------------------- MODULE MemoryItems ----------------------------
(***************************************************************************)
(* Memory items: the guarded write path (ingestion/pipeline.py), the rows  *)
(* with their version history (memory/vectorstore.py) and the in-memory    *)
(* candidate index every process keeps in front of them                    *)
(* (memory/hnsw_cache.py), for one organisation.                           *)
(*                                                                         *)
(* The table is shared; an index belongs to one process, is filled by its  *)
(* first search and from then on written through by the calls of that      *)
(* process, each after its own commit.  Steps are one transaction, or what *)
(* a coroutine does between two awaits.                                    *)
(***************************************************************************)
EXTENDS Naturals, FiniteSets

CONSTANTS
  Processes,   \* server and worker processes, each with an index of its own
  Items,       \* row ids, given out by INSERT
  Contents,    \* what a caller may want remembered
  Secrets,     \* the contents with a hard secret in them
  Redacted(_), \* redact_pii
  Calls,       \* calls of the operations, each used once
  Home(_),     \* the process that serves a call
  Operations,  \* the operations the instance runs
  MaxVersion,  \* bound: no edit past this version
  Stored,      \* the items that are in the table from the start
  Mishaps,     \* bound: sweeps, purges and process restarts
  None

ASSUME RedactionIsStable ==
  /\ Secrets \subseteq Contents
  /\ \A c \in Contents : Redacted(c) \in Contents /\ Redacted(Redacted(c)) = Redacted(c)
ASSUME CallsHaveHomes == \A c \in Calls : Home(c) \in Processes
ASSUME NoneIsNothing == None \notin Calls \cup Items \cup Contents \cup Processes
ASSUME BoundsAreNumbers == MaxVersion \in Nat /\ Mishaps \in Nat
ASSUME StoredAreItems == Stored \subseteq Items /\ (Stored # {} => MaxVersion > 0)
ASSUME KnownOperations == Operations \subseteq {"ingest", "edit", "delete", "search"}

VARIABLES
  row,      \* memory_items: status, content, version
  prior,    \* memory_versions: <<item, version, content>>
  index,    \* per process: the version whose embedding it holds, 0 for none
  hydrated, \* the processes whose index is installed
  lock,     \* per process: the call holding the organisation's asyncio.Lock
  call,     \* the calls
  mishaps,  \* how many sweeps and restarts there were
  was,      \* history: every <<item, version, content>> ever committed
  skipped,  \* history: <<item, version>> replaced by an edit based on an older one
  missed    \* history, per process: items whose last write its index cannot have

vars == <<row, prior, index, hydrated, lock, call, mishaps, was, skipped, missed>>
table == <<row, prior, was, skipped>>
caches == <<index, hydrated, lock, missed>>

----------------------------------------------------------------------------
Row == [status: {"none", "active", "soft_deleted"}, content: Contents \cup {None},
        version: 0..MaxVersion]

Hydrating == {"select", "install"}
Places == {"new", "insert", "write", "add", "drop", "recall", "sql", "filter", "keyword",
           "done"}
          \cup Hydrating

(* old: the content an edit has read; ver: the version read, then the one  *)
(* written; rows: what a hydration selected, then the candidates; found:   *)
(* the answer of a search; gone: what was deleted when the call came.      *)
Call == [pc: Places, item: Items \cup {None},
         says: Contents \cup {None}, old: Contents \cup {None}, ver: 0..MaxVersion,
         rows: [Items -> 0..MaxVersion], found: SUBSET Items, gone: SUBSET Items]

Nothing == [i \in Items |-> 0]
Active(i) == row[i].status = "active"
Deleted == {i \in Items : row[i].status = "soft_deleted"}

(* What an index should hold of an item.                                   *)
Live(i) == IF Active(i) THEN row[i].version ELSE 0

(* No process has searched yet; what is stored was stored by an earlier    *)
(* ingest.                                                                 *)
Absent == [status |-> "none", content |-> None, version |-> 0]
Stores(s) == [status |-> "active", content |-> Redacted(s), version |-> 1]

Init ==
  /\ \E s \in Contents \ Secrets :
       /\ row = [i \in Items |-> IF i \in Stored THEN Stores(s) ELSE Absent]
       /\ was = {<<i, 1, Redacted(s)>> : i \in Stored}
  /\ prior = {} /\ skipped = {}
  /\ index = [p \in Processes |-> Nothing]
  /\ hydrated = {}
  /\ lock = [p \in Processes |-> None]
  /\ missed = [p \in Processes |-> {}]
  /\ call = [c \in Calls |-> [pc |-> "new", item |-> None, says |-> None,
                              old |-> None, ver |-> 0, rows |-> Nothing, found |-> {},
                              gone |-> {}]]
  /\ mishaps = 0

----------------------------------------------------------------------------
(* Steps of a call.                                                        *)

At(c, place) == call[c].pc = place
Goto(c, place) == call' = [call EXCEPT ![c].pc = place]

(* The processes that hold, or are loading, an index.                      *)
Loading(p) == lock[p] # None /\ call[lock[p]].pc = "install"
Indexing == {p \in Processes : p \in hydrated \/ Loading(p)}

(* A committed write of these items, by process p or (None) by a statement *)
(* that does not go through a VectorStore: nobody else's index hears of it.*)
Unheard(items, p) ==
  missed' = [q \in Processes |-> IF q \in Indexing \ {p} THEN missed[q] \cup items
                                 ELSE missed[q]]

Returned == [pc |-> "done", item |-> None, says |-> None, old |-> None, ver |-> 0,
             rows |-> Nothing, found |-> {}, gone |-> Deleted]
Accept(c, op) == At(c, "new") /\ op \in Operations

(* ingest, its first transaction, then the screening.  The hash looked up  *)
(* is that of the content as given; the one stored is of what redact_pii   *)
(* leaves of it.                                                           *)
Twins(s) == {i \in Items : Active(i) /\ row[i].content = s}

Ingest(c, s) ==
  /\ Accept(c, "ingest")
  /\ call' = [call EXCEPT ![c] =
       IF Twins(s) # {} \/ s \in Secrets THEN Returned
       ELSE [Returned EXCEPT !.pc = "insert", !.says = Redacted(s)]]
  /\ UNCHANGED <<table, caches, mishaps>>

(* add: item, chunk and embedding in one transaction.                      *)
Insert(c, i) ==
  /\ At(c, "insert") /\ row[i].status = "none"
  /\ row' = [row EXCEPT ![i] = [status |-> "active", content |-> call[c].says, version |-> 1]]
  /\ was' = was \cup {<<i, 1, call[c].says>>}
  /\ call' = [call EXCEPT ![c].pc = "add", ![c].item = i, ![c].ver = 1,
                          ![c].says = None]
  /\ Unheard({i}, Home(c))
  /\ UNCHANGED <<prior, skipped, index, hydrated, lock, mishaps>>

(* update_content: the read is a statement of its own and looks at no      *)
(* status; the snapshot and the update that follow wait for the row lock   *)
(* and the UNIQUE key of a concurrent edit, so they are one step.  A       *)
(* snapshot already there is kept (ON CONFLICT DO NOTHING).                *)
EditRead(c, i, s) ==
  /\ Accept(c, "edit") /\ row[i].status # "none"
  /\ call' = [call EXCEPT ![c] =
       [Returned EXCEPT !.pc = "write", !.item = i, !.says = s, !.old = row[i].content,
                        !.ver = row[i].version]]
  /\ UNCHANGED <<table, caches, mishaps>>

(* The snapshot is numbered with the version about to be written.          *)
BugSnapshotNew(i, v, s) == prior \cup {<<i, v + 1, s>>}

Snapshot(i, v, s) ==
  IF \E t \in prior : t[1] = i /\ t[2] = v THEN prior ELSE prior \cup {<<i, v, s>>}

EditWrite(c) ==
  LET i == call[c].item  v == row[i].version IN
  /\ At(c, "write") /\ v < MaxVersion
  /\ prior' = Snapshot(i, call[c].ver, call[c].old)
  /\ row' = [row EXCEPT ![i].content = call[c].says, ![i].version = v + 1]
  /\ was' = was \cup {<<i, v + 1, call[c].says>>}
  /\ skipped' = IF call[c].ver # v THEN skipped \cup {<<i, v>>} ELSE skipped
  /\ call' = [call EXCEPT ![c].pc = "add", ![c].ver = v + 1,
                          ![c].says = None, ![c].old = None]
  /\ Unheard({i}, Home(c))
  /\ UNCHANGED <<index, hydrated, lock, mishaps>>

(* The write-through of add and update_content: no status is asked for,    *)
(* and an index that is not installed takes nothing.                       *)
Overtaken(c) == call[c].ver # Live(call[c].item)

(* The index does not replace an embedding it has.                         *)
BugAddOnce(c) ==
  LET i == call[c].item  p == Home(c) IN
  /\ At(c, "add")
  /\ index' = IF p \in hydrated /\ index[p][i] = 0
              THEN [index EXCEPT ![p][i] = call[c].ver] ELSE index
  /\ missed' = [missed EXCEPT ![p] = IF p \in Indexing THEN @ \ {i} ELSE @]
  /\ call' = [call EXCEPT ![c] = Returned]
  /\ UNCHANGED <<table, hydrated, lock, mishaps>>

WriteThrough(c) ==
  LET i == call[c].item  p == Home(c) IN
  /\ At(c, "add")
  /\ index' = IF p \in hydrated THEN [index EXCEPT ![p][i] = call[c].ver] ELSE index
  /\ missed' = [missed EXCEPT ![p] =
       IF p \in hydrated /\ ~Overtaken(c) THEN @ \ {i}
       ELSE IF p \in Indexing THEN @ \cup {i} ELSE @]
  /\ call' = [call EXCEPT ![c] = Returned]
  /\ UNCHANGED <<table, hydrated, lock, mishaps>>

(* soft_delete, and what follows its commit.                               *)
SoftDelete(c, i) ==
  /\ Accept(c, "delete") /\ row[i].status # "none"
  /\ IF Active(i)
     THEN /\ row' = [row EXCEPT ![i].status = "soft_deleted"]
          /\ call' = [call EXCEPT ![c] = [Returned EXCEPT !.pc = "drop", !.item = i]]
          /\ Unheard({i}, Home(c))
     ELSE /\ call' = [call EXCEPT ![c] = Returned]
          /\ UNCHANGED <<row, missed>>
  /\ UNCHANGED <<prior, was, skipped, index, hydrated, lock, mishaps>>

Drop(c) ==
  LET i == call[c].item  p == Home(c) IN
  /\ At(c, "drop")
  /\ index' = IF p \in hydrated THEN [index EXCEPT ![p][i] = 0] ELSE index
  /\ missed' = [missed EXCEPT ![p] = IF p \in hydrated THEN @ \ {i}
                                     ELSE IF p \in Indexing THEN @ \cup {i} ELSE @]
  /\ call' = [call EXCEPT ![c] = Returned]
  /\ UNCHANGED <<table, hydrated, lock, mishaps>>

(* search: with an index, its candidates and one filtering SELECT; without *)
(* one, the first call to take the lock loads it and the others wait.      *)
Search(c) ==
  /\ Accept(c, "search")
  /\ call' = [call EXCEPT ![c] = [Returned EXCEPT !.pc = "recall"]]
  /\ UNCHANGED <<table, caches, mishaps>>

Candidates(c) ==
  LET p == Home(c) IN
  /\ At(c, "recall") /\ p \in hydrated
  /\ call' = [call EXCEPT ![c].pc = "filter", ![c].rows = index[p]]
  /\ UNCHANGED <<table, caches, mishaps>>

Lock(c) ==
  LET p == Home(c) IN
  /\ At(c, "recall") /\ p \notin hydrated /\ lock[p] = None
  /\ lock' = [lock EXCEPT ![p] = c]
  /\ Goto(c, "select")
  /\ UNCHANGED <<table, index, hydrated, missed, mishaps>>

HydrateSelect(c) ==
  /\ At(c, "select")
  /\ call' = [call EXCEPT ![c].pc = "install", ![c].rows = [i \in Items |-> Live(i)]]
  /\ missed' = [missed EXCEPT ![Home(c)] = {}]
  /\ UNCHANGED <<table, index, hydrated, lock, mishaps>>

HydrateInstall(c) ==
  LET p == Home(c) IN
  /\ At(c, "install")
  /\ index' = [index EXCEPT ![p] = call[c].rows]
  /\ hydrated' = hydrated \cup {p}
  /\ lock' = [lock EXCEPT ![p] = None]
  /\ Goto(c, "filter")
  /\ UNCHANGED <<table, missed, mishaps>>

(* A failed load is tried again, for ever.                                 *)
BugRetryLoad(c) ==
  /\ call[c].pc \in Hydrating
  /\ lock' = [lock EXCEPT ![Home(c)] = None]
  /\ Goto(c, "recall")
  /\ UNCHANGED <<table, index, hydrated, missed, mishaps>>

(* A database error releases the lock; the search falls back to SQL.       *)
HydrateFails(c) ==
  /\ call[c].pc \in Hydrating
  /\ lock' = [lock EXCEPT ![Home(c)] = None]
  /\ call' = [call EXCEPT ![c].pc = "sql", ![c].rows = Nothing]
  /\ UNCHANGED <<table, index, hydrated, missed, mishaps>>

SearchSql(c) ==
  /\ At(c, "sql")
  /\ call' = [call EXCEPT ![c].pc = "keyword", ![c].found = {i \in Items : Active(i)},
                          ![c].rows = Nothing]
  /\ UNCHANGED <<table, caches, mishaps>>

(* The candidates are answered without asking the table.                   *)
BugTrustIndex(c) ==
  /\ At(c, "filter")
  /\ call' = [call EXCEPT ![c].pc = "keyword",
                          ![c].found = {i \in Items : call[c].rows[i] > 0},
                          ![c].rows = Nothing]
  /\ UNCHANGED <<table, caches, mishaps>>

Filter(c) ==
  /\ At(c, "filter")
  /\ call' = [call EXCEPT ![c].pc = "keyword",
                          ![c].found = {i \in Items : call[c].rows[i] > 0 /\ Active(i)},
                          ![c].rows = Nothing]
  /\ UNCHANGED <<table, caches, mishaps>>

(* The keyword search, in a transaction of its own; every item has the     *)
(* words.  If one of the two searches raises, neither's hits count.        *)
Keyword(c) ==
  /\ At(c, "keyword")
  /\ call' = [call EXCEPT ![c].pc = "done", ![c].found = @ \cup {i \in Items : Active(i)}]
  /\ UNCHANGED <<table, caches, mishaps>>

SearchFails(c) ==
  /\ call[c].pc \in {"sql", "filter", "keyword"}
  /\ call' = [call EXCEPT ![c].pc = "done", ![c].found = {}, ![c].rows = Nothing]
  /\ UNCHANGED <<table, caches, mishaps>>

(* enforce_retention and purge_user_memory: one UPDATE of any active       *)
(* items, past every index.                                                *)
Sweep(items) ==
  /\ mishaps < Mishaps /\ mishaps' = mishaps + 1
  /\ items # {} /\ \A i \in items : Active(i)
  /\ row' = [i \in Items |-> IF i \in items THEN [row[i] EXCEPT !.status = "soft_deleted"]
                             ELSE row[i]]
  /\ Unheard(items, None)
  /\ UNCHANGED <<prior, was, skipped, index, hydrated, lock, call>>

(* The process ends: its index and its calls with it.                      *)
Restart(p) ==
  /\ mishaps < Mishaps /\ mishaps' = mishaps + 1
  /\ index' = [index EXCEPT ![p] = Nothing]
  /\ hydrated' = hydrated \ {p}
  /\ lock' = [lock EXCEPT ![p] = None]
  /\ missed' = [missed EXCEPT ![p] = {}]
  /\ call' = [c \in Calls |-> IF Home(c) = p /\ ~At(c, "new") THEN Returned ELSE call[c]]
  /\ UNCHANGED table

----------------------------------------------------------------------------
Remember(c) == \E s \in Contents : Ingest(c, s)
Correct(c) == \E i \in Items, s \in Contents : EditRead(c, i, s)
Forget(c) == \E i \in Items : SoftDelete(c, i)

Arrive(c) == Remember(c) \/ Correct(c) \/ Forget(c) \/ Search(c)

WriterStep(c) ==
  (\E i \in Items : Insert(c, i)) \/ EditWrite(c) \/ WriteThrough(c) \/ Drop(c)

SearchStep(c) ==
  \/ Candidates(c) \/ Lock(c) \/ HydrateSelect(c) \/ HydrateInstall(c)
  \/ HydrateFails(c) \/ SearchSql(c) \/ Filter(c)
  \/ Keyword(c) \/ SearchFails(c)

Next ==
  \/ \E c \in Calls : Arrive(c) \/ WriterStep(c) \/ SearchStep(c)
  \/ \E items \in SUBSET Items : Sweep(items)
  \/ \E p \in Processes : Restart(p)

Spec == Init /\ [][Next]_vars

(* The event loop runs a coroutine that can run, and Postgres answers or   *)
(* raises.  Nothing is assumed of arriving calls, sweeps or restarts.      *)
FairSpec == Spec /\ \A c \in Calls : WF_vars(SearchStep(c))

----------------------------------------------------------------------------
(* What an installed index holds of an item is the version in the table,   *)
(* and nothing of a deleted item, unless a call of that process is about   *)
(* to write the difference through, or the index cannot know: the item was *)
(* last written by another process or by a sweep, its write-through came   *)
(* while the index was being loaded, or it came after a later write of the *)
(* item (VectorStore.add, update_content and soft_delete with HnswCache).  *)
InHand(p, i) == \E c \in Calls : /\ Home(c) = p /\ call[c].item = i
                                 /\ call[c].pc \in {"add", "drop"}

IndexFollows ==
  \A p \in hydrated, i \in Items :
    index[p][i] # Live(i) => InHand(p, i) \/ i \in missed[p]

(* memory_versions holds nothing an item never said, and everything it     *)
(* said before its current version, but for what an edit replaced that was *)
(* based on an older version (update_content).                             *)
HistoryKept ==
  /\ prior \subseteq was
  /\ \A t \in was : \/ t[2] = row[t[1]].version
                    \/ t \in prior
                    \/ <<t[1], t[2]>> \in skipped

(* However stale the index, a search never answers with an item that was   *)
(* deleted before the search began (_search_from_candidates asks the table *)
(* again).                                                                 *)
DeletedStaysGone == \A c \in Calls : call[c].found \cap call[c].gone = {}

(* A search answers, also when the load of the index fails under it or     *)
(* under the call it waits for (_cache_candidates degrades to SQL).        *)
SearchReturns == \A c \in Calls : At(c, "recall") ~> At(c, "done")
=============================================================================
