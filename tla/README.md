# TLA+ verification of teamshared

Teamshared is a memory server for teams of agents: a Python asyncio process
serves MCP tools, a REST API and a console over Redis (short-lived working memory,
job queues, guards) and Postgres (durable memory, files, wiki, playbooks, work items,
ontology, people, connectors), with an object bucket for public file mirrors; worker
processes distil closed sessions, curate wiki pages and synchronise connectors. This
directory models the parts of it whose correctness depends on the order of things:
handlers between two Redis round trips, SQL statements of READ COMMITTED
transactions, chains of transactions that may break off, caches and mirrors
written after a commit, workers that end with the only copy of a job.

Paths below are relative to the Python package, `src/src/teamshared/`.

1. [Inventory](#1-inventory)
2. [Hazards](#2-hazards)
3. [Modules](#3-modules)
4. [Runs](#4-runs)
5. [Proofs](#5-proofs)
6. [Behaviours the models show](#6-behaviours-the-models-show)
7. [What is not modelled](#7-what-is-not-modelled)
8. [What is left](#8-what-is-left)

## 1. Inventory

### How the parts interact

```
 LLM clients ──> chat gateway ──> compression (refs in Redis) ──> upstream model
                     │ conversation mapped to a session, turns appended
 MCP / REST / console handlers
   │ guards: rate limit, idempotency key, upload grant, roles
   ├─> capture ────────────┐
   ├─> session tools ──────┴─> working memory (Redis) ──> distill queue ──> distill worker
   │                                     │                                     │
   │                                     └──> curate queue ──> curator worker ─┤
   ├─> ingestion pipeline ─> memory items ─> per-process vector index          v
   │         └─> links of the ontology                                       wiki
   ├─> recall, think, context pack <── memory items, playbooks, work, graph, turns
   ├─> files ──> bucket mirror
   ├─> playbooks, skills, statements, goals, soul, work items, projects, people
   └─> connectors <── integrations worker ──> providers ──> ingestion pipeline
```

Handlers are coroutines of one event loop; a deployment may run several server
processes and several workers. Nothing but Redis, Postgres and the bucket is
shared between processes, and no handler holds a lock across two of its calls except
the row locks of an open SQL transaction and the asyncio lock around the load of a
vector index. So the grain of every model is one Redis command (or MULTI
pipeline), one SQL statement or one transaction (which of them, each module says in
its head), one bucket request, or what a coroutine does between two awaits.

### Components

For each: the state it keeps, what is hard, what makes it correct, and the
module. `-`: none (section 7).

**Sessions, curation, gateway**

| component | state | hard | correct when | module |
|---|---|---|---|---|
| working memory (`memory/working.py`) | per session a hash and a turn list with TTLs, per agent pointers and pins, queues, dead letters, counters, pending set | every method is a chain of round trips; keys expire between any two | no job for an open session, no job lost, no turn duplicated or misplaced | `WorkingMemory` and its users |
| automatic capture (`server/capture.py`) | none; background tasks | concurrent calls of one agent share one pointer | one rolling session per agent; nothing captured is stranded | `AutoCapture` |
| session tools (`memory/facade.py`: session_*) | none | tools call each other, each may break off | a turn is in exactly the session the call answers with | `SessionTools` |
| chat gateway (`server/gateway_api.py`, `llm/gateway.py`) | none | mapping, append, compression and upstream fail one by one | question and answer meet in one session | `ChatGateway` |
| context compression (`compress/`) | originals in Redis, by digest | shared refs, expiry, shrinking what is already shrunk | what shrinking cut can be found again | `ChatGateway` |
| distill worker (`distill/worker.py`) | the popped job | crash after BLPOP, retries, expired transcript | every job is settled or accounted for | `WorkingMemory`, `CurateQueue` |
| curator worker (`distill/curator_worker.py`), wiki | the popped job, the facts read; page versions | facts arriving between read and write | at rest fewer than a threshold of facts are unread | `CurateQueue` |

**Durable stores**

| component | state | hard | correct when | module |
|---|---|---|---|---|
| shared files, bucket mirror | file row, version rows; objects | interleaved statements, UNIQUE key, put after commit | history whole, current version newest, mirror exact | `SharedFiles` |
| ingestion pipeline, vector store, hnsw cache | items with versions; one index per organisation and process | check and insert apart; cache written after commit; loading races writing | index follows the table, nothing deleted is served | `MemoryItems` |
| retrieval (`memory/retrieval.py`, `hybrid.py`, `think.py`, ...) | none | two rankings, two cuts, two permission checks, partial failure | the answer is the best of what may be seen | `Retrieval`, `Recalls` |
| playbooks, skills, strategy, wiki form, soul | version rows; goals; one row | MAX(version)+1, forget beside save, composition from several reads | versions whole, never back, composed as pinned | `VersionedDocs` |
| work items, projects | rows, links, sections, slugs | forms posted long after they were rendered; chains of transactions | a forest, one project, closings told | `WorkBoard` |
| ontology, graph, autolink, actions | registry, entities, edges, log | validated by reads, written later; effect before log | links conform, the log tells the truth | `Ontology` |

**Edges**

| component | state | hard | correct when | module |
|---|---|---|---|---|
| connectors, OAuth, integrations worker, adapters | rows, tokens, cursor, mirror of source documents | cursor stale when written; token rotated before it is stored; deletion beside a sync | nothing skipped, the token kept, everything imported | `ConnectorSync` |
| request guards (`rate_limit.py`, `idempotency.py`, upload grants) | counters, claims, grants | two commands per decision; expiry under a running request | once per key, once per grant, windows end | `RequestGuards` |
| identity, administration, invites | organisations, users, memberships, bindings, keys | a role in two tables, sign-up as six transactions | both places agree; who is let in can act | `Members` |
| tenancy | transaction scope | - | a transaction is all or nothing, an organisation sees its rows | scope of every SQL model |
| job streams, quotas, legacy semantic memory, LLM client, installers, observability, evaluation | | | | - |

## 2. Hazards

`PROJECT.json` lists the hazards line by line with the properties that cover
them. They come in six families:

* **A pointer read in one round trip and used in the next**: `record_turn`,
  `append_turn`, the session tools, conversation pins, refs of compressed texts.
* **A job held by one process only.** `BLPOP` removes it from Redis; a process
  that ends before its next push takes the job along.
* **A flag beside a queue, a counter beside its TTL, a key beside its work**: two
  commands that nothing ties together.
* **MAX(version)+1 and read-then-write.** Files, pages, playbooks, skills, item
  versions, slugs, souls and roles compute in one statement what they write in
  another, and lean on a UNIQUE key, or on nothing.
* **A second store written after the commit**: the bucket, the vector index, the
  action log, the links of a memory, the cursor of a connector.
* **A chain of transactions that may break off**: sign-up, sign-in, saves of the
  console, session tools, token rotation.

Some of these the code does not guard against. Where that is so, a hazard's `note` says what
its property leaves out (overlapping handlers, crashes between two commands), and
section 6 tells the trace; a property that names such an exception holds everything
else to be right.

## 3. Modules

| module | models | extends |
|---|---|---|
| `WorkingMemory` | Redis state of the sessions and the distill queue, one operator per round trip; the distill worker, complete | |
| `AutoCapture` | `record_turn` by several handlers, faults | `WorkingMemory` |
| `SessionTools` | the session tools and the mapping of conversations, as chains of the same round trips by several callers | `WorkingMemory` |
| `ChatGateway` | requests of the gateway and of the context tools, on top of session calls | `SessionTools` |
| `SessionContract` | abstract: a session is new, open, closed, gone; jobs only for those that take no more turns | |
| `CurateQueue` | counters, pending set, queue, marking, curators, page versions | |
| `SharedFiles` | one file, its versions, its public page and its mirror | |
| `SharedFilesSerial` | the same, with a memory of whether requests came one at a time | `SharedFiles` |
| `MemoryItems` | ingestion, rows with history, index of each process, search | |
| `Retrieval` | operators: scope, fusion, ranking, recall, packing, think | |
| `Recalls` | what a recall answers with the rows a search has found | `MemoryItems`, `Retrieval` |
| `VersionedDocs` | saves, forgets, composition; goals and their tree; the soul | |
| `WorkBoard` | items, parents, project links, sections, slugs | |
| `Ontology` | registry, entities, links, autolinks, actions | |
| `ConnectorSync` | connectors, OAuth, import, worker, provider | |
| `RequestGuards` | rate limit, idempotency, upload grants | |
| `Members` | organisations, people, roles, keys, invites | |
| `MC*` | small instances and symmetry sets | the module of that name |
| `MCEdge` | `RequestGuards` and `Members` side by side in one run: a behaviour belongs to one of them (`moving`) | `MCRequestGuards`, `MCMembers` |
| `*Proofs` | theorems | the module of that name, TLAPS; four of them a second component (section 5) |

`Recalls` composes `MemoryItems` with `Retrieval`: what a search found in some
interleaving is, as hits (`HitOf`), what the ranking is applied to. `ChatGateway`'s session calls are
`SessionTools` calls; `AutoCapture` and `SessionTools` are both shown to implement
`SessionContract`, and `ChatGateway` to implement `SessionTools` (section 5).

### WorkingMemory, AutoCapture, SessionContract

| TLA+ | code |
|---|---|
| `meta[s]` | the session hash: absent, with empty `closed_at`, with one, or holding nothing but `closed_at` (`ghost`: HSET on a key whose TTL ran out) |
| `turns[s]`, `pointer[a]` | the turn list; `working:{org}:agent:{agent}:autosession` |
| `queue`, `dead` | `working:distill:queue`, `working:distill:dead` with LTRIM |
| `client[c].pc` | the place of a handler between two awaits of `record_turn` |
| `GetPointer` | GET of the pointer and the three-way decision (none, fresh, full or idle) |
| `CloseMeta`, `CloseMark`, `ClosePush` | `close_session`: HGETALL, HSET, RPUSH of the signed job; KeyError suppressed |
| `Open`, `AppendCheck`, `AppendPush`, `SetPointer` | `open_session`; `append_turn` (check, then RPUSH pipeline), one retry in a fresh session; the final SET |
| `Pop`, `RejectJob`, `ReadTranscript`, `Distill`, `FailJob` | the worker: BLPOP, verification failure, `get_session`, success, exception with requeue or dead letter |

`SessionContract` keeps a phase per session and the set of sessions a job is due
for; its five actions open, close, expire, enqueue and settle. `brain`, `count`,
`landed` and `handed` are history: no guard reads them. Time is not modelled: a
pointer may be found idle and a key may expire whenever that can happen at all,
which covers every timing.

### SessionTools

A call is one tool; its operation, session id and place between two awaits are
`call[c]`. The tools call each other (`session_commit` appends, closes and clears;
`session_ensure` closes, opens and appends), so their common tails are one group of
actions each, which any tool enters: `GetPointer`, `Inspect`, `SetActive`
(`session_ensure`); `GetPin`, `CheckPinned`, `SetPin`
(`resolve_conversation_session`); `Owner`, `Check`, `Push` and the except branch
`Reopen`, `Recheck`, `Repush`, `Reset` (`session_append`); `CloseOwner`, `CloseMeta`,
`CloseMark`, `ClosePush` (`session_close`); `Clear`. `ExpireKey`, `Expire` and `Cut` are
TTLs and calls that end under way. With `agent=` a call may write as another agent
(`Named`, a set of agents per call): `session_ensure` then opens and looks for sessions of the
`Writer`, while the pointer it sets is that of its caller. `Elsewhere` is what a module that extends this one
adds: a step of its own that leaves the session state alone.

### ChatGateway

A request of the gateway is the chain mapping, question, shrinking, upstream,
answer; `context_prepare` and `POST /llm/prepare` are its first half, `context_compress`,
`context_normalize`, `context_retrieve` and the middleware over tool outputs use the
shrinking alone. Its session calls (`Part[r]`: resolve, question, reply) are calls
of `SessionTools`, started when the request gets there and read when they have
ended. A text is a kind and a sequence of lines (items of an array, fields of an object), each an
error, filler, noise, a long content, a ref, or the injected pack: enough to tell what
`inject_context` replaces (`Injected`: the content of a system message that is a list of parts
goes, one that is text is kept), what cleaning a tool's output takes away *before*
anything is stored (`Clean`: noise, all beyond `Limit` lines of plain text; a long
content becomes a `Stub`), which lines `_compress_log_text`,
`compress_json_array` and the middle cut of `compress_text` keep, and where the
refs lead. `ccr` is the set of stored originals (keys are digests, so the text is its
own key), `lapsed` those whose TTL ended; `GetRef`, `SetRef` and `FailRef` are the
GET, the SETEX and the failure of `CcrStore.put`; a stored text keeps its TTL.

### CurateQueue

The facts one distill job brings about one subject are a *batch*. A distill
worker runs `mark_subject_dirty` per subject (INCR, at the threshold DEL, SADD,
RPUSH: `Count`, `Reset`, `SetPending`, `Push`); a curator runs BLPOP, SREM,
SELECT, LLM, then MAX(version) and INSERT of `upsert_page` (`Pop`, `Clear`, `Read`,
`Number`, `Insert`), with `Reject`/`RejectClear` for a job that does not verify
and `FailJob` for an exception. `counted[s]` is the set behind the counter's
value, which lets a property ask *which* facts the counter stands for. `harmed`
remembers subjects a fault hit, `curated` the batches a finished curation has read.

### SharedFiles

A request is one facade call: the SQL statements of its transaction, then its
bucket requests. READ COMMITTED is modelled as it is: a statement sees what was
committed when it starts, a writer waits for the row lock or the uncommitted
UNIQUE key of another. An uncommitted version row lives in `req[r]` until its
transaction ends, so that an abort needs no undo. `versions` maps a number to the
request that wrote it, which is how `UpdatesKept` tells an overwritten update. The
public page (`PageOf`, `Sidebar`, `DirectUrl`) is what the mirror is compared with.

### MemoryItems and Retrieval

`Ingest` runs redaction and the duplicate check, `Insert` the row; `EditRead` and
`EditWrite` are the two halves of `update_content` as far as another transaction can
come between (the row, its version, the snapshot of the text before);
`WriteThrough` and `Drop` are what a call does to the index of *its* process after its
commit. A search takes candidates from the index, or loads it under the lock first
(`Lock`, `HydrateSelect`, `HydrateInstall`, `HydrateFails`), or goes to SQL, and then
asks the table again (`Filter`). `index[p][i]` is the *version* whose embedding the
index holds: an embedding of an old text is as stale as a deleted one.

`Retrieval` has no state. `Fused` is `reciprocal_rank_fusion` in integers, `Score`
and `Boosted` the two rankings, `SecureSearch` and `Recall` the two cuts with the
permission check in between, `Packed` the budget rule, `Think` and `AssembleContext` what
is built on them. A *question* is a record: the reader's filter, what each search would
return before its own LIMIT (every order of every subset of the rows found, `Lists`), and
which searches fail; the relations of the graph, in any order, are a list of their own. Sorting
and filtering are one operator, `Arranged`: the k-th of a list is the position of *rank* k, where
`Rank` counts the positions that come no later. It is what `sorted` computes, ties left as they
were, and unlike `SortSeq` and `SelectSeq` it can be reasoned about without induction. The two
rankings of one recall see the same age of a record, although the code reads the clock
twice, milliseconds apart.

`Recalls` adds the rows: whatever set of them a search of `MemoryItems` ends with,
`KeepsOrder` and `AnswersTheBest` hold of its hits (`AnswerIsBest`). `Best` evaluates both
once per set of rows, not once per state.

### VersionedDocs

Four tables, one pattern: `MAX(version) + 1` in one statement, INSERT in the next, UNIQUE
key at commit (`SaveInsert`, `SaveRefused`, `SaveCommit`), forgets that soft-delete what
they see. `ExpandRead`/`ExpandSkill` compose a playbook from its skills, each read in
its own transaction, pinned or not. The console's forms add what they read when they
are rendered. Goals are plain rows; `TreePlan`, `TreeObjectives`, `TreeKeyResults`
and `TreeInitiatives` are the four statements of a plan's tree. `SoulSet`,
`AbsorbRead` and `AbsorbWrite` are the soul; its body is the sequence of texts in it. One that is
too long (`SoulMax`) is cut to leave room for a marker (`Compressed`), which takes the place of
the last text there was room for.

### WorkBoard

A console save is a form rendered at one time (`LoadForm`) and then, one transaction
each: fields (`Update`), closing (`Close`), episode (`Tell` looks for an equal one, of which
`ingest` makes a duplicate, and `Store` adds it), and the list, removals and
addition of project links (`SyncList`, `SyncUnlink`, `SyncLink`, `SyncFails`). Tools run the
same transactions without the form. `UniqueSlug` and `ProjectInsert` are the SELECT loop
and the INSERT of a new project.

### Ontology

`ValidatePredicate`, `GetLinkType`, `ResolveSubject`, `ResolveObject` are the reads of
`validate_link`, `AddRelation` the upsert (its weight grows). A memory is stored and
then its links are tried one after the other (`AllowedPredicates`); an action runs the
handler of a tool and is logged after it (`LogAction`), "applied" or "failed". `Seed`,
`LinkTypeSet`, `ObjectKindSet` and `ProposeEntity` change the registry under it.

### ConnectorSync

A thread is the worker or a call: it reads the cursor, the token bundle, refreshes it if
expired (`refresh` at the provider, then `persist`), fetches a page, and per document
mirrors, looks for a duplicate and adds; then it writes the cursor. The provider
(what it accepts, what it posted) is part of the model. `severed` remembers connectors
whose rotated token was lost on its way, `late` how many documents a sync imported
after its connector was deleted. `Polled` are the adapters the worker asks for, and `WorkerMay`
is whether the agents of the organisation hold `connector:manage`, which the worker's sync
requires (section 6).

### RequestGuards

A write passes INCR, EXPIRE, SET NX, the handler, DEL (`Count`, `SetExpire`, `Claim`,
`Succeed`/`Refuse`/`HandlerRaises`, `Release`), each of which may fail open or be cut
off; an upload takes its grant (GETDEL), checks the body, looks for the file, stores,
publishes. `lapses[k]` counts the claims that expired or failed open.

### Members

A handler is a chain of transactions, all of whose steps are actions: listing,
making an organisation, a user, a membership, looking for and inserting a role
binding, the cookie (`login`); joining by invite; granting (`Snapshot`, `Swap`, `Mirror`)
and revoking a role; minting and revoking keys, with the bindings a server process
remembers (`cached`).

## 4. Runs

Every run says `CHECK_DEADLOCK FALSE`: turns, batches, calls and requests are a finite
supply, so an instance comes to rest when the supply is used up. That nothing
rests too early is what the liveness properties check. All runs but the last one pass;
`handler_raises` checks what a docstring says of the code, and is violated.

| run | instance | distinct states | shows |
|---|---|---|---|
| `capture_races` | 2 agents, 3 sessions, 3 turns, 2 handlers, good and bad signatures, every fault | 244 k | jobs are conserved; sessions and jobs follow the contract |
| `capture_single` | 1 handler, failing and unverifiable jobs, fair | 29 k | a single open session, nothing stranded, every due job settled |
| `chat_gateway` | 2 agents, one of which may write as the other, 2 sessions, session tools, 2 requests, 2 session calls at a time, one expired key or cut call | 1.72 M (symmetry) | a turn is in exactly the session its call answers with; closed sessions were handed over; question and answer meet; what was shrunk leads back to all that shrinking was given |
| `curate_races` | 2 distill workers, 2 curators, 2 subjects, 4 batches, every fault, fair | 57 k | a flag no fault hit has a job; no fact is forgotten; what is due is curated or dead-lettered |
| `files_races` | 4 requests, 3 in flight, every operation, aborts and bucket failures | 976 k | before a deletion no gap, duplicate or overwritten update; one at a time the newest version is current and the mirror exact, after deletions too |
| `recall_races` | 2 processes, 2 items, 3 calls, one sweep or restart, fair; every ranking of the rows found | 399 k | an index differs from the table only where it must; histories are whole; nothing deleted is served; searches answer; the answer is the best of what may be seen |
| `connector_sync` | a channel with pages and a rotating connector, the worker and one call, 2 documents listed, a third posted later, one mishap, fair | 369 k | nothing skipped; the token kept; a deleted connector imports one document more at most; given the permission, everything is imported that no hard secret is in the way of |
| `edge_races` | `RequestGuards`: 3 writes on 1 key, 2 uploads on 1 grant, 2 mishaps; beside it `Members`: 3 organisations, 2 people, 3 calls, an invite for two, one call cut short or a restart | 459 k (symmetry) | windows end; once per key and per grant; the two places of a role agree; one organisation of one's own; who is let in can act |
| `docs_races` | 4 requests of one family at a time (playbooks and skills, pages, goals, soul), 2 organisations, aborts | 361 k | numbers without gap; readers never go back; composed as pinned; trees hang together; notes kept |
| `work_saves` | 3 items, two of one title, 2 projects, 3 requests, 2 at a time, aborts and swallowed errors | 1.70 M (symmetry) | rows hang from the top; closings are told; one project per item; slugs apart |
| `ontology_links` | 2 kinds, 2 entities, 2 predicates, 3 calls, 2 at a time, one mishap | 2.32 M | links exactly as the registry allows; the log tells the effects |
| `handler_raises` | 2 writes with 1 key, an upload, no mishap | stops at the violation | a handler that raises keeps its idempotency key, where the docstring says a failure frees it (section 6) |

### Bounds and why they are enough

* **Pairs race.** Everywhere the races are between a read and a write of the same
  row or key by two actors, so two at a time are every pair; a third (or fourth)
  comes after one of them and finds what it left behind: a pointer, a pin, a
  mirror, a forgotten version, a stale cookie.
* **Capture.** Three sessions let a rollover and a retry happen after an expiry.
  `MaxTurns = 2` makes the second append fill a session. `PushBound` caps jobs ever
  pushed (2 or 3); `MaxDistillAttempts = 2` gives one retry and one dead letter;
  `DeadLetterMaxLen = 1` makes the trim happen.
* **Gateway.** `Scenes` is a model bound: which texts, requests and tools meet in one
  behaviour. There are nine: session tools by themselves; a call that names another agent
  and one of that agent; a chat or preparation with a tool beside it; two chats of one
  conversation; a chat with a long message and a tool of another agent; what is shrunk
  again; fields of an object cleaned and shrunk; packs prepared again; a system prompt in
  parts. Texts have five or six lines, cleaning leaves `Limit = 5` of plain text and shrinking
  1 + 2 + 1, so that an error can be kept or lost at each end and the cleaned text is
  still shrunk; `Nesting = 1` lets a shrunk text be shrunk once more.
* **Curation.** `Threshold = 2` with three batches of one subject lets a second
  round of counting overlap the first round's job, which is where the DEL of the
  counter, the flag and the read can go wrong; a batch of a second subject shows
  that subjects do not disturb each other.
* **Files.** Three in flight are two racing writers and one that mirrors or
  archives beside them; the fourth updates what was deleted or publishes again what was
  unpublished. `crossed` (history, in `SharedFilesSerial`) tells the behaviours in which requests
  came one at a time without a fault; `SerialMirrorFollows` speaks of these.
* **Items.** `MaxVersion = 3` is two edits of one item; one of the two contents is
  redacted to the other, so that a duplicate is one only after redaction; the third
  call is another process's, whose index hears of nothing. `Mishaps = 1`: a sweep or a
  restart.
* **Retrieval.** Two rows of `memory_items`, one hit of two other pillars each, two turns,
  one edge; `Limits` cut at one, two and nothing, `Budgets` admit nothing, one record
  and some. `Scopes`: the default, and two pillars with the turns. `Failures`: none, the search
  of the rows, or of the turns; one of another pillar that fails leaves what one that finds
  nothing does. `Whole = 238266` = 61 * 62 * 63 is the unit in which the shares of the
  first ranks are whole numbers.
* **Documents and work.** `Scenarios` is a model bound: which families of requests
  meet in one behaviour. Families that share no row are not mixed. `SoulMax = 3`: the fourth
  text that is absorbed cuts the third. Two of the items have one title, so that an episode is a
  duplicate of another item's as well as of an earlier closing's.
* **Connectors.** Pages of two documents, so that the first fills a page, and the third, a hard
  secret, is posted behind the cursor and sticks; a document is then listed before it and
  none is behind it, which `Blocked` excuses on a channel. The other connector's document has an
  address, and its token rotates once.
* **Guards.** `Limit = 2` of three writes closes the bucket; they share a key, so
  that a lapse admits a second and leaves a third to be refused.
* **People.** Three calls are two that race and one that comes after; the restart (or the cut)
  is what the remembered binding goes stale by.

Symmetry is used where ids are random or requests alike (sessions, calls, requests,
second organisations), and in no run that checks liveness.

### Fairness

Weak fairness of the disjunction of one process's steps: of a handler, a
worker, a search, a sync. A coroutine that can run is run by the event loop; worker
loops do nothing but wait on Redis, Postgres, the LLM or a provider, whose clients have
timeouts and so answer or raise; the integrations worker runs on a timer. No
fairness is assumed of faults, expiry, arriving calls or success: a job may fail
every time it is tried, and then its attempts run out. Weak fairness is enough
because one process takes one step at a time, and what enables it (a queued job, a held
job, a released lock) is not taken away for good without being settled. The properties
are `JobsSettle`, `CurationSettles`, `SearchReturns` and `EverythingImported`; the last
is conditional on the worker's permission (`WorkerMay`), and names what stands in the way for good: a
hard secret posted on a channel with pages, wherever the document stands (the cursor stays before
the secret, so what comes later is never listed), or, without pages, one listed before the
document is; a document that left the window its adapter lists; a token lost or revoked.

### Mutants

Each property has a mutated definition (operators whose name starts with `Bug`) that
it tells from the real one: a dropped guard, a push before the mark, an
off-by-one in the attempts, a missing return, a cursor written first, a lock not asked
for, a refresh token that is not replaced, a count of what is not seen.

## 5. Proofs

TLAPS checks these for *every* value of the constants under the named
assumptions: any number of agents, sessions, handlers, workers, requests, keys, any
thresholds, any set of faults. Every invariant and every action property that a passing run checks is
a theorem here but `NoTurnStranded`; what else is left to TLC alone is liveness.

Four proof modules hold a second component, which shares no state and no name with the first:
`RequestGuardsProofs` the theorems of `Members`, `CurateQueueProofs` those of `VersionedDocs`,
`MemoryItemsProofs` those of `WorkBoard`, `SharedFilesProofs` those of `Ontology`. They are
stated of `MembersSpec`, `DocsSpec`, `BoardSpec` and `OntologySpec`; `Spec` is the first one's.
`MemoryItemsProofs` also has the theorems of `Retrieval` and `Recalls`.

| theorem | states | inductive invariant |
|---|---|---|
| `AutoCaptureProofs!TypeCorrect` | `[]TypeOK` | itself |
| `JobsOnlyForClosed` | no job, waiting, held or dead, names an open session | `JobInv` |
| `JobsAccountedFor` | pushed = waiting + held + dead + settled + lost + trimmed | `TypeOK` and itself |
| `CaptureRefinesContract` | `Spec => Contract!Spec` | `JobInv` |
| `OneSessionRolls` | where no handler is cut off and no two of one agent run at once, `[]SingleRollingSession` | `JobInv` and `Rolling` |
| `SessionToolsProofs!TypeCorrect` | `[]ToolTypeOK` | `HeldHere` |
| `ReplacedAreClosed` | where a job is about to be pushed, or a session to be replaced, that session takes no turns | `HeldHere` |
| `ToolsRefineContract` | `Spec => ContractSpec` | `HeldHere` and `JobOnlyForClosed` |
| `TurnsLandOnce` | `[]TurnsLand` | `HeldHere` and `TurnInv` |
| `PointersLeadHome` | a pin names a session of its agent; a pointer too, or one of an agent that a call of its agent named | those and itself |
| `ClosedAreHandedOver` | `[]HandedOver` | those and itself |
| `GatewayUsesTools` | `GatewaySpec => SessionTools!Spec` | - |
| `GatewayTurnsMeet` | `GatewaySpec => []TurnsMeet` | `MeetInv` |
| `ShrunkLeadBack` | `GatewaySpec => []LeadsBack`: to all that shrinking was given, but for parts that the pack replaced | `TraceInv` |
| `SharedFilesProofs!TypeCorrect` | `[]FileTypeOK` | itself |
| `HistoryComplete` | `[]VersionsNumbered` | `History` |
| `MirrorFollowsSerially` | `SerialSpec => []SerialMirrorFollows` | `FileTypeOK` and `Serial` |
| `ActionLogTells` | `OntologySpec => []LogTellsEffects` | `LinkInv` |
| `LinksConform` | `OntologySpec => []LinkedIffConforms` | `LinkInv` |
| `CurateQueueProofs!TypeCorrect` | `[]CurateTypeOK` | itself |
| `FlagsHaveJobs` | `[]PendingHasJob` | `CurateInv` |
| `NoFactForgotten` | `[]FactsAccounted` | `CurateInv` |
| `QuietPagesCurated` | at rest fewer than a threshold of facts are unread | `CurateInv` and `CounterFires` |
| `SavesAreNumbered` | `DocsSpec => []SavesNumbered` | `DocsKept` |
| `PlaybooksKeepPins` | `DocsSpec => []ComposedAsPinned` | `DocsKept` |
| `ReadersNeverGoBack` | `DocsSpec => NeverGoesBack` (an action property) | `DocsKept` |
| `TreesHangTogether` | `DocsSpec => []TreeHangsTogether` | `GoalsKept` |
| `NotesAreKept` | `DocsSpec => []NotesKept` | `SoulKept` |
| `RequestGuardsProofs!GuardCounters` | `[]CounterExpires` | `IInv` |
| `GuardWork` | `[]ProcessedOnce` | `IInv` |
| `MembershipsMatch` | `MembersSpec => []MembershipMatches` | `MembersKept` |
| `OneOrgEach` | `MembersSpec => []OneOwnOrg` | `MembersKept` |
| `AdmittedMayAct` | `MembersSpec => []AdmittedCanAct` | `MembersKept` |
| `MemoryItemsProofs!IndexesFollow` | `[]IndexFollows` | `IndexInv` |
| `HistoriesKept` | `[]HistoryKept` | `HistoryInv`, with `IndexInv` |
| `DeletedStayGone` | `[]DeletedStaysGone` | `GoneInv`, with `IndexInv` |
| `CutTwiceIsCutOnce` | a list ranked and cut, then joined by others, ranked and cut again is all of it ranked and cut once | - |
| `FusionMergesWell` | `MergesWell`, for all lists without repeats | - |
| `RecallIsBest` | `AnswersBest`, for all questions, scopes and limits | - |
| `PacksAreBeginnings` | `IsPack`, for all lists and budgets | - |
| `AnswersAreBest` | `[]AnswerIsBest` | `ItemTypeOK` |
| `ClosedItemsAreTold` | `BoardSpec => []ClosedIsTold` | `BoardKept` |
| `SlugsStayApart` | `BoardSpec => []SlugsApart` | `BoardKept` |
| `SavesLeaveOneProject` | `BoardSpec => OneProject` (an action property) | `BoardKept` |
| `RowsHangFromTop` | `BoardSpec => []HangsFromTop` | `Placed` |
| `ConnectorSyncProofs!SyncTyped` | `[]Typed` | `SyncInv` |
| `PagesInOrder` | `[]NothingSkipped` | `SyncInv` |
| `RefreshTokenKept` | `[]TokenKept` | `SyncInv` |
| `DeleteStopsSyncs` | `[]StopsAfterDelete` | `SyncInv` |

**`JobInv` = TypeOK, `HandlersHold`, `JobOnlyForClosed`.** `JobOnlyForClosed` is
not inductive: a handler at "close push" is about to create a job, and the
step would break it if the session could still be open there. `HandlersHold`
supplies that fact, and that handlers and pointers only name ids once returned
by `open_session`, so that a fresh id never has a job (ids are UUIDs, modelled as
`issued`). The lemmas are `StepJobs` (one step per action) and, for the
refinement, `PhaseMoves`: a command opens one session never seen before, closes
one, expires one, or leaves every phase alone; none reopens one. `StepRefines`
combines it with `JobInv`, which gives the contract's guard of `Enqueue`.

**`HeldHere` = ToolTypeOK, `CallsHold`** is the same idea for the session tools. The
lemmas go through `Command`: whatever a call does, it does to the working memory
at most one of open, mark closed, push a turn, push a job of a session that
takes no turns, expire, or a step of the worker. `Kept(c)` says so of every action of
a call, together with where the call may go; from `Kept`, the invariant of jobs and
the refinement follow without another look at the actions (`CommandJobs`,
`CommandRefines`).

**`TurnInv`** adds which operation may be at which place (`Scripted`) and, per call,
what has landed by then and whose session it is about to write to (`Lands`). It
is what `TurnsLand` needs to be inductive: before the first push nothing
has landed, after the except branch nothing has landed *in the session given up*,
since the branch is only entered by a check that failed before the push.

**The gateway on top.** `GatewayUsesTools` shows that every step of `GatewaySpec` is
a step of `SessionTools` (a session call, `Elsewhere`, or a stutter), so its theorems
hold behind the gateway: `GatewayTurnsLand` and `GatewayHandsOver` are corollaries.
`MeetInv` says of each request where its three session calls are (not begun, under way,
ended) at each place, which session the request then knows, and that its question and
its answer were given that session (`Toward`, `Facing`). What fails is covered by the
places a request may be left in: a failed mapping leaves no session, and the append of
the question then opens the one the answer goes to.

**`TraceInv`**, for `LeadsBack`: what is or was stored refers only to the like, and *every* text
that a message leads to leads on to one that begins with all of the first. Every text, not
just the message: `context_retrieve` may hand out any of them, and what it hands out is shrunk again.
A message whose original is not stored yet has no such way back, so of it the invariant says what it was
shrunk from; `SetRef` makes the way. `Follow` is the least set closed under refs, so the
lemmas `FollowLeast`, `FollowOn` and `FollowStays` need no depth. What cleaning took away and
the parts that the pack replaced (`Replaced`) are not owed: the code stores neither (section 6). What a text loses to shrinking is in `ArrayLeft`
and `LogLeft`, which rest on `InOrder`: putting positions in order loses none. That clients write no
refs of their own is `TextsAssumption`.

**`History` = FileTypeOK, `VersionsNumbered`, `UpdatesKept`, `UpdatesInHand`.** The
last says what an update holds between INSERT and commit: its number is
`current + 1`, it is the only request with an uncommitted row of that number
(the UNIQUE key), and what an update is about to insert is at most one ahead of
`current`. `VersionsNumbered` speaks of the states before a deletion was asked
for; with deletions beside updates it is false (section 6).

**`CurateInv`** adds to the types, `PendingHasJob` and `FactsAccounted` what the
curators hold: a curator past its read has read a subset of the facts of its own
subject (`ReadsItsSubject`), and one that clears the flag after a rejection has
already dead-lettered its job (`RejectedIsDead`). The heart of the argument is the
order in the curator: the flag is cleared *before* the facts are read. A
distill worker that finds the flag set may drop its push only because the job
behind the flag has its read still ahead, which is `Upcoming`. For
`QuietPagesCurated`, `CounterFires` adds that a counter stays below the threshold.

**`IInv` of `RequestGuardsProofs`** strengthens each property to an account that every
step balances. Of keys (`KeyInv`): the requests that hold a key or have done its work,
plus one while the key is free, are at most one more than its lapses; a claim moves one from
the free side to the other, a release back, a lapse raises the bound. Of grants: before one
is gone nobody is past it, and whoever is past it is the only one. `InPlace` (which places the two kinds of requests may be at, and that no work is
done before the handler) gives that a releasing request has done nothing. The lemma `Table`
reduces the seventeen actions of a request to six kinds of moves, and the accounts are
proved for these.

**`IndexInv` = ItemTypeOK, `HandsFull`, `OneLoads`, `IndexFollows`, `LoadFollows`.** An
index becomes visible only when its load is installed, so what a load has selected must
already stand in the relation to the table that `IndexFollows` asks of an index
(`LoadFollows`); that nobody installs another load over it, or writes through into an index
being loaded, is `OneLoads`: whoever loads holds the lock of its process, and a process
that loads has no index. `HandsFull` says that a write in hand is about an inserted item,
and a deletion about a deleted one. `Kinds` reduces the seventeen steps of a call to those that
leave rows and indexes alone, those that write one row, and the four that write or load an
index.
`HistoryInv` adds that a version of an item was one content only, none beyond the
current, and that an edit holds a content the item really had; `GoneInv` that what a
call remembers as deleted still is (`StatusStays`: nothing deleted comes back).

**`Rolling`** is about one handler per agent (`OneHandlerEach`), which nothing
in `record_turn` enforces: it is a hypothesis on the behaviour, `[]OneHandlerEach`, and section 6
has what happens without it. It says at every place of a handler which open sessions its
agent has: the one in hand, or none between close and open; and that an agent at rest
has none but the one its pointer names.

**`Serial`** is the same idea for files: at most one request is under way, until it commits
the mirror is true of the rows, and from then on it knows what to put (`TakesPlace`, place by
place): the token, the current number and its text. The archive is left out, since it
leaves the mirror behind (section 6).

**`LinkInv` = OntologyTyped, `Effects`, `Unchanged`.** `Effects` says of a call what its
stage, its result and its entry in the log have to do with each other: a result it calls good is in
the graph or stored (and nothing is ever taken away), what it wrote of a bad one is excused
by a fault. `Unchanged` is about calls that saw no change of the registry: `Knowing` is
what the reads so far have established of the current link (at "add", that it conforms),
`Progress` that every reference that conforms is written, in hand, or still ahead.
The lemma `OnwardGoes` says of `apply_autolink`'s loop that what it passes over is not
allowed; a change of the registry empties the set of undisturbed calls, so nothing else
is owed there.

**`DocsKept`, `GoalsKept`, `SoulKept`.** A save is one past what it has seen, and from INSERT to
commit its number is its own (`Alone`: the UNIQUE key makes every other INSERT wait). For
the numbers to have no gap under forgets as well, a forget must hold the oldest active rows
of a name, and active rows be newer than forgotten ones (`Sorted`): a reader that goes by the
newest active version then never goes back. An expansion is held against what was there when
it began (`Shown`). A tree is read from the top, so what a lower level hangs from was
read before (`TreeHeld`). A writer of the soul either has its text in it, or wrote too much, or was
overwritten by one that had not seen it, or was cut by one that was too long (`Lost`), which is
exactly what `NotesKept` admits; and a cut takes only what stood at the marker's place or behind.

**`MembersKept`** follows a person through the chains of transactions. The role in a membership is
bound, or a handler stands before the step that binds it, or before one that writes another
into the membership (`RoleKept`); unless two grants crossed, there is one such handler
(`OneGrant`). An organisation that a sign-in has made is found by the next, or the
sign-in is still on its way to the membership (`OwnKept`). Agents keep a role unless it
was revoked (`AgentKept`). `Placed` says which operation may stand where and with what in hand.

**`BoardKept`**: a closed item is dated, and an episode says its text, or its closer stands before the
episode; an
item has one link per project, and a save that is alone with its item knows the links there
are; slugs are numbered without a gap, and who looks for a free one has found those before it
taken. None of the three can be seen from the state alone between two transactions of a save, which
is why the request's locals are in it.

**`Placed`**, for `HangsFromTop`: the parents that forms gave can be *ranked*, each item below its
parent. A form offers top-level items only, and the one it was given has no parent when nothing
moved it since; so the item that gets a parent, and all that hang from it, can be ranked below
it by lifting the others. From the ranking, a climb never visits a row twice; climbing as
many times as the list is long would (pigeonhole), so each climb ends at a top-level row.
`Existing` is assumed finite, as a table is.

**`SyncInv`** has one part per hazard. `TokensHeld`: of all threads that refresh one connector's
token, the one whose request the provider accepted is the only one up to date, and until
it has stored what it got the others hold an older one; so the stored token is the
provider's current one, or on its way, or `severed`. `PagesHeld`: between the cursor a sync began
with and the one it will write, each document is in its hand or was imported, and a document is
mirrored before it is added. `Stopping`: after the connector is gone, one document at
most, the one in hand, because the next upsert raises on its foreign key.

**`AnswersAreBest`** needs of the behaviour only that what a search found are rows of the table
(`ItemTypeOK`): the rest holds of *every* set of rows, and is about the operators.
A position's rank is its place (`Order` and `Rank` are inverse bijections, by counting), which
gives what a sort must: nothing lost, nothing repeated, keys descending, ties as they were.

* *Two cuts are one.* The list that was cut, with the turns behind it, lies in the whole list in
  the same order (`Embeds`) and has the first k of the whole in it (`CutEmbeds`), so the first k
  of both are the same ones at the same ranks (`SameBest`).
* *The second permission check loses nothing.* Each record gathered passed `Where` or has no
  scope, and what is listed as shared is flagged as shared, so `Reaches` lets it through
  (`GatheredPass`, `RecheckIsIdentity`).
* *Fusion keeps order.* `Share` decreases strictly with the rank, and two shares exceed any single
  one as long as there are no more than `RRF_K + 1` ranks (`TwoAreMore`); with more, a hit found
  last by both searches could fall behind the first hit of one.
* *Packs.* That the packed length is the greatest one that goes is all that is needed; what
  the sum `CostOf` computes is not.

The assumptions are three. `RowsAreHits`: ids tell the rows apart (a primary key), and a row
listed in `memory_shares` has the flag, since `share` writes both in one transaction.
`HitsAreTyped`: the hits of the other pillars are finitely many and have no scope.
`UnitIsFine`: a limit is 1 to `RRF_K + 1` (the tools' `k` is at most 50), and the unit of a
score tells the shares of neighbouring ranks apart, as floats do.

**What stays with TLC.** `NoTurnStranded`: it holds in an instance of one handler, no expiry and a
dead-letter list that is not trimmed, and a theorem would have to assume all three. Liveness (`JobsSettle`, `CurationSettles`, `SearchReturns`,
`EverythingImported`) needs ENABLED. What a recursive function computes for every input
(`CostOf`) would need induction over data, and no theorem here rests on it.
(Where an argument needed only a least natural number, the lemmas `Least` and `LeastNumber` get
it from the well-foundedness of `<`.)

## 6. Behaviours the models show

One of these is a run of its own (`handler_raises`). Of the others no run says anything: the
properties are stated so that they hold, and their exceptions (a disjunct, a history variable,
a condition on concurrency) are these behaviours. They are worth knowing before the code is
changed; where a doc or a docstring says otherwise, its line is given (those of `README.md` and
`docs/` are the repository's).

### Sessions and captures

* A conversation nobody closes is never distilled. The gateway appends "so the
  distiller/curator see the full conversation with zero agent cooperation"
  (`server/gateway_api.py:8-11`), but only a close queues a session (`memory/working.py:449`):
  unless an agent uses a session tool on it, it expires after its idle TTL.
* Two concurrent handlers of one agent both find no pointer (or the same full session) and
  open a session each; the pointer keeps the second, and the first expires undistilled, where
  "a single rolling session per agent holds the interleaved story" (`memory/working.py:374-375`).
  So may the session of an agent that falls silent: rollover happens on the next call, and
  does not "close + distill" after the idle time (`README.md:347-349`) when there is none.
* `append_turn` checks `closed_at` in one round trip and pushes in the next
  (`memory/working.py:304`). Handler A finds the session open; B finds it full, closes it and
  queues it; the worker reads the transcript and settles the job; then A pushes. That turn is
  in a session that nothing distils any more (`NoTurnStranded` is of one handler).
* `session_ensure(agent=...)` opens the session for the agent named, and sets the pointer of
  its caller to it (`memory/facade.py:966-968`): the caller's next tools that follow the pointer
  write to, or close, a session of another agent.
* Closing an expired session leaves a hash without TTL that holds nothing but
  `closed_at`; an append to one raises PermissionError, where one to an expired session
  heals itself. `session_commit` without an active session opens one and does not set
  the pointer; `session_commit(close=True)` clears it even if another call has set it since.
  An append to an older, closed session moves the pointer to the reopened one.
* A distill worker that ends after BLPOP loses its job.

### Gateway and compression

* When a session is closed between the mapping of a conversation and the append of its
  question, the append opens another one, whose id `prepare_llm_messages` ignores: question
  and answer end in two fresh sessions, where the head of `gateway_api.py` promises one
  (the last disjunct of `TurnsMeet`).
* When both the mapping and the pipeline behind it fail, the answer is not appended.
* A failure of the compression in `prepare` raises after the turn of the user was appended,
  so that a client that retries appends it twice. A user message in parts is not seen by
  `last_user_text` (`llm/gateway.py:38-46`), which finds an older one and appends that again.
* `CcrStore.put` never renews the TTL of a text that is stored already
  (`compress/ccr_store.py:36-37`): a ref just given out may lapse at once.
* A system message whose content is a list of parts is replaced by the pack
  (`llm/gateway.py:64-65`): its text reaches neither the model nor the store, where "nothing is
  silently deleted—it's swapped for a pointer" (`docs/context-compression.md:161`).
* A tool's output is cleaned before it is stored (`compress/tool_output.py:174`, `199`): long
  contents and plain text are truncated (`60-95`, `134-136`), empty and internal fields dropped,
  and what the ref leads to is not "the **full original**" (`docs/context-compression.md:151`). What
  is only cleaned gets no ref at all (`tool_output.py:191`).
* Shrinking a log lets errors in its head use up the room for others, repeats them, and puts
  errors before the lines they followed. A client of `context_prepare` that replays what it
  was given gets another pack each turn; cleaning may cut a long pack before its marker is
  looked for, and the soul block, which has no marker, may be cut like any text.

### Curation and wiki

* A process that ends between SADD and RPUSH, or between BLPOP and SREM, leaves a subject
  in the pending set without a job, and every later enqueue is refused, as "already queued"
  (`memory/working.py:626`): the flag has no TTL.
* A failed curation is pushed back without asking the pending set, so a subject can be
  queued and curated twice; with two curators (`distill/curator_worker.py:99`) an older
  article may then be stored as the latest version. The wiki form of the console saves over
  a curation in the same way; the versions are kept.

### Files

* Two concurrent deletions of versions leave none. With versions 1 and 2: both
  transactions count two, one deletes 1, the other deletes 2, both commit, and the file has
  no version left although "a file must always have at least one version"
  (`memory/shared_files.py:306-307`). A deletion beside an
  update writes a maximum it read before the update committed, and every later update then
  computes a taken number and fails.
* An update of an archived file publishes it again in the bucket: `update` looks for the file
  without a status condition, and `archive` leaves visibility alone.
* Concurrent requests leave in the bucket what was put last: a put after the wipe of an
  unpublication stays; of two updates the older content may be the later put; two first
  publications stamp two tokens, the later one wins, and the objects under the first stay. The
  next republication of the file puts the current ones right.
* After an upload that updates a file, the file is read once more outside of any try: the
  version is stored although the uploader gets a 500 (`MirrorRaises`).

### Items and recall

* Of two equal memories stored at once both stay (`ingestion/pipeline.py:157`): check and
  insert are two transactions. A memory whose links failed gets them from no retry, which is
  a duplicate by then (`pipeline.py:208`).
* Two edits at once: the text of the first is in no snapshot (`skipped`).
* An index does not hear of what other processes, retention and purges write, nor of a
  write-through during its load (`missed`), until it is loaded again; `search` then finds an
  item by an old embedding or not at all, but never serves a deleted one.
* Both kinds of hits are lost when either the vector or the keyword statement raises.
  `_normalize_fts_scores` assumes best-first lists, but procedural and skill search order by
  name (`memory/retrieval.py:305-306`). The repository boost is applied after the cut at k, so
  what it would lift may be gone. Recency and importance outweigh any fused score. A working
  record without a score counts a half. Citations of `think` are not compared with its sources.
* `related` of the Postgres graph is one hop whatever depth it is given.

### Documents

* A save that meets another gets a refusal, not a retry. A playbook's name is unique across
  organisations in the schema (`001_init.sql:23`) where versions are counted per organisation
  (`memory/procedural.py:257-263`), so the second organisation's first save is refused.
  Saving a playbook through the console drops the version pins of its skills.
* A soul that is full keeps nothing new, though the caller is told `soul_updated`; and the
  absorption that overfills it cuts, with the room for the marker, up to 14 characters of what
  fitted before (`memory/soul.py:38`), the end of an older note. Of two
  observations absorbed at once the later write stays.
* An initiative aligned with an objective of another plan is in no plan's tree
  (`memory/strategic.py:197-203`).

### Work

* Two edit forms rendered before either is posted can put two items under each other, and
  the page shows neither, though `_nest_subtasks` is there so that views "never silently drop"
  a row (`server/console.py:174-175`). `work_update` takes any parent. The page prints one level of subtasks only (`work.html:121-125`),
  where `_nest_subtasks` nests all (`server/console.py:173-175`); the project board lists
  top-level items only.
* `work_close` "writes episodic timeline event" (`README.md:195`): the second time an item of the
  same title, assignee and initiative is closed the same way (reopened and closed again, saved as
  done again, or a namesake), `ingest` finds the first event, answers "duplicate" and stores nothing
  (`memory/facade.py:2233`, `ingestion/pipeline.py:156-159`); a failure of it is logged only.
* "The console models one project per task" (`server/console.py:1249`): two saves of one item, each
  of which lists its links before the other has added its own, leave it in both projects; so does a
  removal that fails, of which the page says nothing (`1267`).
* `work_create` as done never sets `closed_at`; reopening keeps it. A form silently unlinks an archived project or a
  closed parent. `add_to_project` resets the section of a link (`memory/work.py:555-557`).
  Dependencies are informational. `project_update` to archived leaves `archived_at` empty.

### Ontology and actions

* `validate_link` with an unresolved subject does not look at the kind of the object
  (`memory/ontology.py:238-252`). `requires_approval` is consulted by no code, and proposed
  entities are active at once; backfill and proposals overwrite a kind.
* A link is validated by reads and written later (`memory/ontology.py:220-236`): a link type or an
  entity's kind set in between leaves an edge that the registry, by then, forbids.
* An action whose memory was stored and whose links then failed is logged "failed". One that is
  cut off, or whose log fails, after its effect leaves no entry (`memory/facade.py:1311`), where
  `action_apply` is to "write an audit log entry" (`server/tools.py:1960`).

### Connectors

* "The `integrations-sync` worker polls connected accounts [...] and imports new messages"
  (`README.md:245-247`). It acts as an agent of its organisation, and a sync needs
  `connector:manage` (`connectors/service.py:376`), which the seeds give to owners and admins
  but not to agents (`007_seed_roles.sql:39-44`, `58`; `016_work.sql:105`): with these roles every
  cycle is refused and nothing is imported unless a person asks for it. `WorkerMay` is TRUE in the
  run, where the role of agents was extended, and a condition of `EverythingImported`.
* A lost answer to a refresh, or an end between it and the store, leaves a connector
  "connected" with a token the provider no longer takes (`severed`).
* A hard secret on a channel with pages raises out of the import (`connectors/service.py:413`)
  before the cursor is written (`:426`), in every cycle: the cursor stays, and what is posted
  behind the secret is never imported, on this connector. Deletions at the source are never mirrored;
  a memory the user deleted is imported again, and so, at every listing, is a message that
  redaction changed: `connectors/adapters.py:459-461` relies on the duplicate check, which compares
  the text as it came with the text as it was stored. The `since` cursor of the GitHub adapter skips what is older than its first page (`adapters.py:49-74`).
* `integration_read` says it ingests what it reads; its Slack branch does not
  (`server/tools.py:2085-2087`, `2115-2118`). An OAuth connection lands in the organisation of
  the cookie at callback time.

### Guards and people

* **A handler that raises keeps its idempotency key** (run `handler_raises`, property
  `FailuresFreeKeys`): "on handler failure (status >= 400) the key is deleted so clients may
  retry" (`server/idempotency.py:3-4`), but the release is reached only when `call_next` returns
  (`server/api/middleware.py:175-177`); an exception, which becomes a status outside of the
  middleware, passes it. Retries are answered "already processed" for the TTL, whether the
  handler raised before or after its work.
* A first request cut off, or an EXPIRE that fails, after the INCR leaves a bucket without a TTL
  (`server/rate_limit.py:113-115`), which later requests do not set: once over its limit the bucket
  stays closed, where a failing Redis is to "allow the request" (`rate_limit.py:4-6`).
* Two grants at once each delete the bindings they saw and insert their own, and a member ends
  with two roles where `set_user_role` promises "exactly one effective role"
  (`identity/roles.py:67-74`); a People page shows one (`admin/service.py:44`). A grant that is
  cut short between its two transactions (`:119-127`) leaves the two places different. Adding a
  member again with another role updates the membership and binds the role beside the one
  there was (`admin/service.py:94-97`).
* Two overlapping first sign-ins make two organisations. A login code is single-use only without
  overlap.

## 7. What is not modelled

**Simplifications in the modelled parts.**

* *Everywhere*: the clock (a TTL may end whenever it exists), the HMAC, encryption and hashing, the
  wording of answers, pages and logs. What an LLM writes is opaque: only what it was
  given matters. Organisations: two in `VersionedDocs`, three in `Members`, elsewhere one,
  since every key and row carries its organisation and no operation touches two.
* `ChatGateway`: lines instead of characters (a long content is whole or a stub; lengths and the
  note line are left out), contents handled in a fixed order, one conversation per agent; enrichment is the pack's
  presence; Redis errors are the "client crash" fault.
* `SharedFiles`: the listing inside a bucket wipe is one step with its deletes; the slug is
  stamped with the token; creation of a file, which nothing races before its row is there, is left
  out (its request is in `RequestGuards`).
* `MemoryItems`: every active item matches the keyword query; an embedding is named by its
  version; patterns of the detectors are opaque. `Retrieval`: time and author filters, snippets,
  `explain`, rendering, the text of the model.
* `VersionedDocs`: the sources of wiki pages; texts are named by the request that saved them.
* `WorkBoard`: `LoadForm` reads options and item as one step, `ProjectInsert` is one with its
  COMMIT; ranks, comments, followers, dependencies, status posts (nothing else reads them).
* `Ontology`: the store of a memory is one step after its duplicate check; names are slugs;
  reads of the registry that only grow are one.
* `ConnectorSync`: GitHub and Linear, whose cursors differ; what `integration_read` imports is a
  text of its own and not tracked.
* `RequestGuards`: one counter bucket; publication after an upload is in `SharedFiles`.
* `Members`: expiry of cookies and tokens, the permission tables.

**Components without a module.**

* *No caller*: `queue/streams.py` and `queue/quotas.py` are constructed by tests only;
  `VectorStore.set_status`, activation and rejection of statements, `preview_entity` have no
  caller either.
* *Pure I/O and rendering*: the LLM client, installers and command line, routing, public pages,
  mail, migrations, seeds beyond the ontology's, metrics, health, benchmarks. No state a
  property depends on.
* *External state*: the legacy semantic backend keeps its state in a library.
* *Single statements*: the audit log, free-form agent state, listing and resolving exceptions,
  scratch values: one SET, GET or INSERT each.
* *Pure predicates on one request*: the CSRF token, the route table, bearer parsing, roles to
  permissions.

## 8. What is left

The GitHub and Linear cursors, and the login code and the OAuth nonce as one-time tokens of
their own.
