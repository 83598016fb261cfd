---------------------------- MODULE ConnectorSync ----------------------------
(***************************************************************************)
(* Connectors of one organisation (connectors/service.py): how they are    *)
(* connected and disconnected (server/api/integrations.py), the OAuth      *)
(* bundle with its refresh at the provider, and the import of a source a   *)
(* page at a time, by the integrations worker (integrations_worker.py) and *)
(* by calls of the API and of the tools at the same time.  Nothing takes a *)
(* lock: a step is one transaction, or one request to the provider.        *)
(*                                                                         *)
(* A source is its documents 1, 2, 3... in the order they were posted.     *)
(* What an adapter does with its cursor (connectors/adapters.py) and the   *)
(* provider with a refresh token makes three sorts of connectors: some     *)
(* follow the cursor from the newest page to the oldest and start again,   *)
(* with a pasted token that is never refreshed; the OAuth ones list the    *)
(* newest documents every time, with a refresh token that each use         *)
(* replaces, or with one that stays.                                       *)
(***************************************************************************)
EXTENDS Naturals, FiniteSets, FiniteSetsExt

CONSTANTS
  Connectors,
  Adapter(_),   \* of the adapters that are told apart here, a connector's
  Text(_, _),   \* of a document: "plain", "masked" (PII is redacted) or "secret"
  Worker,       \* the thread of the integrations worker
  WorkerMay,    \* the agents of the organisation hold connector:manage
  Calls,        \* calls of the API and the tools, each used once
  PageSize,     \* documents of a page
  Existing,     \* the connectors that are connected from the start
  MaxDocs,      \* bound: documents of a source
  Had(_),       \* how many of them a connector's source has at the start
  Ever(_),      \* bound: how many it ever has
  MaxRotations, \* bound: how often a refresh token is replaced
  Mishaps,      \* bound: failed requests, lost answers and crashes
  None

ASSUME AdaptersAreKnown ==
  \A k \in Connectors :
    Adapter(k) \in {"slack channel", "notion", "gdrive", "slack", "discord", "gmail"}
ASSUME TextsAreKnown ==
  \A k \in Connectors, n \in 1..MaxDocs : Text(k, n) \in {"plain", "masked", "secret"}
ASSUME SizesAreNumbers ==
  PageSize \in Nat \ {0} /\ MaxDocs \in Nat /\ MaxRotations \in Nat /\ Mishaps \in Nat
ASSUME MayIsBoolean == WorkerMay \in BOOLEAN
ASSUME EverIsBounded == \A k \in Connectors : Had(k) \in Nat /\ Ever(k) \in Had(k)..MaxDocs
ASSUME ExistingAreConnectors == Existing \subseteq Connectors
ASSUME WorkerIsNoCall == Worker \notin Calls /\ None \notin Connectors

VARIABLES
  status,    \* "asked" (a state nonce is in Redis) and "exchange" (it was
             \* popped) before there is a row of connectors, then its status:
             \* "disconnected", "connected" or "deleted"; else "none"
  stored,    \* connector_tokens: the refresh token, by how often it was replaced
  expired,   \* connectors whose stored access token has expired
  cursor,    \* connector_sync_state: where the next page ends, 0 for none
  mirror,    \* source_documents
  imported,  \* the documents memory items were made of
  posted,    \* the source: how many documents it has
  current,   \* the provider: the refresh token it accepts
  revoked,   \* the provider: connectors whose tokens it accepts no more
  severed,   \* history: connectors whose new refresh token was lost on its way
  thread,    \* the worker and the calls
  due,       \* the connectors the worker's cycle still has before it
  mishaps

vars == <<status, stored, expired, cursor, mirror, imported, posted, current,
          revoked, severed, thread, due, mishaps>>
tokens == <<stored, expired, current, revoked, severed>>
imports == <<cursor, mirror, imported>>

----------------------------------------------------------------------------
Threads == Calls \cup {Worker}
Docs == 1..MaxDocs
Places == {"idle", "read", "bundle", "refresh", "persist", "fetch", "mirror", "find",
           "add", "write", "revoke", "delete", "done"}

(* "use": a search, a read or a send of the tools, which need no more than *)
(* the token; what integration_read imports is a text of its own.          *)
Ops == {"sync", "use", "disconnect"}

(* on: the connector; gen: the refresh token in hand; at: the cursor read, *)
(* then the one to write; page: the documents still to import; late: how   *)
(* many were imported after the connector was deleted.                     *)
Thread == [pc: Places, on: Connectors \cup {None}, op: Ops,
           gen: 0..MaxRotations, at: 0..MaxDocs, page: SUBSET Docs, late: 0..MaxDocs]

Resting(place) == [pc |-> place, on |-> None, op |-> "use", gen |-> 0, at |-> 0,
                   page |-> {}, late |-> 0]

Init ==
  /\ status = [k \in Connectors |-> IF k \in Existing THEN "connected" ELSE "none"]
  /\ stored = [k \in Connectors |-> 0] /\ current = [k \in Connectors |-> 0]
  /\ expired = {} /\ revoked = {} /\ severed = {}
  /\ cursor = [k \in Connectors |-> 0]
  /\ mirror = [k \in Connectors |-> {}]
  /\ imported = [k \in Connectors |-> {}]
  /\ posted = [k \in Connectors |-> Had(k)]
  /\ thread = [t \in Threads |-> Resting("idle")]
  /\ due = {} /\ mishaps = 0

----------------------------------------------------------------------------
(* The sorts of connectors.                                                *)
Paged(k) == Adapter(k) \in {"slack channel", "notion", "gdrive"}
OAuth(k) == Adapter(k) \in {"slack", "discord", "gmail"}
Rotating(k) == Adapter(k) \in {"slack", "discord"}
Polled(k) == Adapter(k) \in {"slack channel", "slack", "discord", "gmail"}

(* A connector's life.  oauth_start leaves a nonce in Redis that lapses;   *)
(* the callback takes it (GETDEL), and without it, a session and an answer *)
(* of the provider to the code there is no connector.                      *)
Become(k, next) ==
  /\ status' = [status EXCEPT ![k] = next]
  /\ UNCHANGED <<tokens, imports, posted, thread, due, mishaps>>

Ask(k) == OAuth(k) /\ status[k] = "none" /\ Become(k, "asked")

Lapse(k) == status[k] = "asked" /\ Become(k, "none")

Callback(k) == status[k] = "asked" /\ Become(k, "exchange")

NotExchanged(k) == status[k] = "exchange" /\ Become(k, "none")

(* Connecting is two transactions, the row and then the token, after the   *)
(* exchange or from a post of the API with a pasted token.                 *)
Create(k) ==
  /\ status[k] = IF OAuth(k) THEN "exchange" ELSE "none"
  /\ Become(k, "disconnected")

StoreToken(k) == status[k] = "disconnected" /\ Become(k, "connected")

(* Deleting the row takes its token, its cursor and its mirror along (ON   *)
(* DELETE CASCADE).                                                        *)
Cascade(k) ==
  /\ status' = [status EXCEPT ![k] = "deleted"]
  /\ stored' = [stored EXCEPT ![k] = 0]
  /\ expired' = expired \ {k}
  /\ cursor' = [cursor EXCEPT ![k] = 0]
  /\ mirror' = [mirror EXCEPT ![k] = {}]
  /\ UNCHANGED <<current, revoked, severed, imported, posted, due, mishaps>>

(* The console's disconnect.                                               *)
Delete(k) ==
  /\ status[k] \in {"disconnected", "connected"}
  /\ Cascade(k)
  /\ UNCHANGED thread

(* The source grows, and time passes over a stored access token.           *)
Post(k) ==
  /\ status[k] # "deleted" /\ posted[k] < Ever(k)
  /\ posted' = [posted EXCEPT ![k] = @ + 1]
  /\ UNCHANGED <<status, tokens, imports, thread, due, mishaps>>

Expire(k) ==
  /\ OAuth(k) /\ status[k] = "connected" /\ k \notin expired
  /\ current[k] < MaxRotations
  /\ expired' = expired \cup {k}
  /\ UNCHANGED <<status, stored, current, revoked, severed, imports, posted, thread, due, mishaps>>

----------------------------------------------------------------------------
(* Steps of a thread on its connector.                                     *)

At(t, place) == thread[t].pc = place
On(t) == thread[t].on
Exists(t) == status[On(t)] # "deleted"

(* An exception ends the cycle and the loop.                               *)
BugExceptionEnds(t) == Resting("done")

Ended(t) == Resting(IF t = Worker THEN "idle" ELSE "done")

(* An exception ends a call; the worker logs it and takes the next one.    *)
Raise(t) == thread' = [thread EXCEPT ![t] = Ended(t)]
Goto(t, place) == thread' = [thread EXCEPT ![t].pc = place]

First(op) == CASE op = "sync" -> "read" [] op = "use" -> "bundle" [] op = "disconnect" -> "revoke"

Start(t, k, op) ==
  thread' = [thread EXCEPT ![t] =
    [Resting(First(op)) EXCEPT !.on = k, !.op = op]]

(* A cycle of the worker: the connected ones of its kinds, each once.      *)
Cycle ==
  /\ At(Worker, "idle") /\ due = {}
  /\ due' = {k \in Connectors : status[k] = "connected" /\ Polled(k)}
  /\ UNCHANGED <<status, tokens, imports, posted, thread, mishaps>>

NextDue(k) ==
  /\ At(Worker, "idle") /\ k \in due
  /\ due' = due \ {k}
  /\ Start(Worker, k, "sync")
  /\ UNCHANGED <<status, tokens, imports, posted, mishaps>>

Arrive(t, k, op) ==
  /\ At(t, "idle") /\ t \in Calls /\ status[k] \in {"disconnected", "connected", "deleted"}
  /\ Start(t, k, op)
  /\ UNCHANGED <<status, tokens, imports, posted, due, mishaps>>

(* sync asks for connector:manage; its callers on the API are taken to     *)
(* have it.  The worker acts as an agent of the organisation, and the      *)
(* seeded roles do not give it to agents: an administrator may.            *)
Authorized(t) == t = Worker => WorkerMay

ReadCursor(t) ==
  /\ At(t, "read")
  /\ IF ~Authorized(t) \/ ~Exists(t) THEN Raise(t)
     ELSE thread' = [thread EXCEPT ![t].at = cursor[On(t)], ![t].pc = "bundle"]
  /\ UNCHANGED <<status, tokens, imports, posted, due, mishaps>>

(* What has its token: a search or a send is as good as done.              *)
HasToken(t) == IF thread[t].op = "use" THEN Ended(t)
               ELSE [thread[t] EXCEPT !.pc = "fetch", !.gen = 0]

(* refresh_if_needed.  No row, or no token in it: the caller raises, or    *)
(* asks the source without a token and is refused.                         *)
ReadBundle(t) ==
  LET k == On(t) IN
  /\ At(t, "bundle")
  /\ \/ status[k] # "connected" /\ Raise(t)
     \/ /\ status[k] = "connected" /\ k \notin expired
        /\ thread' = [thread EXCEPT ![t] = HasToken(t)]
     \/ /\ k \in expired
        /\ thread' = [thread EXCEPT ![t].pc = "refresh", ![t].gen = stored[k]]
  /\ UNCHANGED <<status, tokens, imports, posted, due, mishaps>>

(* The provider's part of a refresh: a rotating token counts once.         *)
Accepts(k, g) == k \notin revoked /\ (Rotating(k) => g = current[k])
Rotated(k, g) == IF Rotating(k) THEN g + 1 ELSE g

Refresh(t) ==
  LET k == On(t)  g == thread[t].gen IN
  /\ At(t, "refresh")
  /\ IF Accepts(k, g)
     THEN /\ current' = [current EXCEPT ![k] = Rotated(k, g)]
          /\ thread' = [thread EXCEPT ![t].pc = "persist", ![t].gen = Rotated(k, g)]
     ELSE Raise(t) /\ UNCHANGED current
  /\ UNCHANGED <<status, stored, expired, revoked, severed, imports, posted, due, mishaps>>

(* The refresh token of the old bundle is stored with the new access token.*)
BugOldRefreshToken(t) ==
  LET k == On(t) IN
  /\ At(t, "persist")
  /\ IF Exists(t)
     THEN /\ expired' = expired \ {k}
          /\ status' = [status EXCEPT ![k] = "connected"]
          /\ thread' = [thread EXCEPT ![t] = HasToken(t)]
     ELSE Raise(t) /\ UNCHANGED <<status, expired>>
  /\ UNCHANGED <<stored, current, revoked, severed, imports, posted, due, mishaps>>

(* _persist_token_bundle: an upsert that a deleted connector's foreign key *)
(* refuses.                                                                *)
Persist(t) ==
  LET k == On(t) IN
  /\ At(t, "persist")
  /\ IF Exists(t)
     THEN /\ stored' = [stored EXCEPT ![k] = thread[t].gen]
          /\ expired' = expired \ {k}
          /\ status' = [status EXCEPT ![k] = "connected"]
          /\ thread' = [thread EXCEPT ![t] = HasToken(t)]
     ELSE Raise(t) /\ UNCHANGED <<status, stored, expired>>
  /\ UNCHANGED <<current, revoked, severed, imports, posted, due, mishaps>>

(* One page, newest first, and the cursor of the next one.                 *)
Newest(k, c) == IF Paged(k) /\ c # 0 THEN c ELSE posted[k]
Page(top) == {n \in 1..top : n + PageSize > top}
Older(k, top) == IF Paged(k) /\ top > PageSize THEN top - PageSize ELSE 0

NextPlace(page) == IF page = {} THEN "write" ELSE "mirror"

(* The cursor is written as soon as the page is there.                     *)
BugCursorFirst(t) ==
  LET k == On(t)  top == Newest(k, thread[t].at) IN
  /\ At(t, "fetch")
  /\ thread' = [thread EXCEPT ![t].page = Page(top), ![t].at = Older(k, top),
                              ![t].pc = NextPlace(Page(top))]
  /\ cursor' = IF Exists(t) THEN [cursor EXCEPT ![k] = Older(k, top)] ELSE cursor
  /\ UNCHANGED <<status, tokens, mirror, imported, posted, due, mishaps>>

Fetch(t) ==
  LET k == On(t)  top == Newest(k, thread[t].at) IN
  /\ At(t, "fetch")
  /\ thread' = [thread EXCEPT ![t].page = Page(top), ![t].at = Older(k, top),
                              ![t].pc = NextPlace(Page(top))]
  /\ UNCHANGED <<status, tokens, imports, posted, due, mishaps>>

(* A source that goes by the revoked token refuses; Discord is read with   *)
(* the token of the bot.                                                   *)
FetchRefused(t) ==
  /\ At(t, "fetch") /\ On(t) \in revoked
  /\ Raise(t)
  /\ UNCHANGED <<status, tokens, imports, posted, due, mishaps>>

Doc(t) == Max(thread[t].page)
Rest(t) == thread[t].page \ {Doc(t)}

(* The upsert of a source document asks for no connector.                  *)
BugNoForeignKey(t) ==
  /\ At(t, "mirror")
  /\ mirror' = IF Exists(t) THEN [mirror EXCEPT ![On(t)] = @ \cup {Doc(t)}] ELSE mirror
  /\ Goto(t, "find")
  /\ UNCHANGED <<status, tokens, cursor, imported, posted, due, mishaps>>

Mirror(t) ==
  /\ At(t, "mirror")
  /\ IF Exists(t)
     THEN /\ mirror' = [mirror EXCEPT ![On(t)] = @ \cup {Doc(t)}]
          /\ Goto(t, "find")
     ELSE Raise(t) /\ UNCHANGED mirror
  /\ UNCHANGED <<status, tokens, cursor, imported, posted, due, mishaps>>

(* ingest, up to its INSERT: the hash looked up is that of the text as it  *)
(* came, which a redacted item does not have, and a hard secret ends the   *)
(* sync.                                                                   *)
Known(t) == Doc(t) \in imported[On(t)] /\ Text(On(t), Doc(t)) = "plain"

Find(t) ==
  /\ At(t, "find")
  /\ \/ Known(t) /\ thread' = [thread EXCEPT ![t].page = Rest(t), ![t].pc = NextPlace(Rest(t))]
     \/ ~Known(t) /\ Text(On(t), Doc(t)) = "secret" /\ Raise(t)
     \/ ~Known(t) /\ Text(On(t), Doc(t)) # "secret" /\ Goto(t, "add")
  /\ UNCHANGED <<status, tokens, imports, posted, due, mishaps>>

Add(t) ==
  LET k == On(t) IN
  /\ At(t, "add")
  /\ imported' = [imported EXCEPT ![k] = @ \cup {Doc(t)}]
  /\ thread' = [thread EXCEPT ![t].page = Rest(t), ![t].pc = NextPlace(Rest(t)),
                              ![t].late = IF Exists(t) THEN @ ELSE @ + 1]
  /\ UNCHANGED <<status, tokens, cursor, mirror, posted, due, mishaps>>

WriteCursor(t) ==
  /\ At(t, "write")
  /\ cursor' = IF Exists(t) THEN [cursor EXCEPT ![On(t)] = thread[t].at] ELSE cursor
  /\ Raise(t)
  /\ UNCHANGED <<status, tokens, mirror, imported, posted, due, mishaps>>

(* disconnect_integration: the provider is asked to revoke the token, best *)
(* effort, and then the row is deleted.                                    *)
Revoke(t) ==
  LET k == On(t) IN
  /\ At(t, "revoke")
  /\ \/ UNCHANGED revoked
     \/ status[k] = "connected" /\ revoked' = revoked \cup {k}
  /\ Goto(t, "delete")
  /\ UNCHANGED <<status, stored, expired, current, severed, imports, posted, due, mishaps>>

DeleteRevoked(t) ==
  /\ At(t, "delete")
  /\ Cascade(On(t))
  /\ Raise(t)

(* A request or a statement fails, the answer of the provider to a refresh *)
(* is lost, or the process of the thread ends: whatever is in hand is gone.*)
(* The worker either goes on with its cycle or comes back to a new one.    *)
Rotates(t) == At(t, "refresh") /\ Accepts(On(t), thread[t].gen) /\ Rotating(On(t))

Fail(t, answered) ==
  LET k == On(t) IN
  /\ ~At(t, "idle") /\ ~At(t, "done")
  /\ mishaps < Mishaps /\ mishaps' = mishaps + 1
  /\ answered => Rotates(t)
  /\ current' = IF answered THEN [current EXCEPT ![k] = @ + 1] ELSE current
  /\ severed' = IF answered \/ (At(t, "persist") /\ Rotating(k))
                THEN severed \cup {k} ELSE severed
  /\ Raise(t)
  /\ due' \in (IF t = Worker THEN {due, {}} ELSE {due})
  /\ UNCHANGED <<status, stored, expired, revoked, imports, posted>>

----------------------------------------------------------------------------
Change(k) ==
  \/ Ask(k) \/ Lapse(k) \/ Callback(k) \/ NotExchanged(k) \/ Create(k) \/ StoreToken(k)
  \/ Delete(k) \/ Post(k) \/ Expire(k)

Step(t) ==
  \/ ReadCursor(t) \/ ReadBundle(t) \/ Refresh(t) \/ Persist(t) \/ Fetch(t)
  \/ FetchRefused(t) \/ Revoke(t) \/ DeleteRevoked(t)
  \/ Mirror(t) \/ Find(t) \/ Add(t) \/ WriteCursor(t)

WorkerStep == Cycle \/ (\E k \in Connectors : NextDue(k)) \/ Step(Worker)

Next ==
  \/ \E k \in Connectors : Change(k)
  \/ WorkerStep
  \/ \E t \in Calls, k \in Connectors, op \in Ops : Arrive(t, k, op)
  \/ \E t \in Calls : Step(t)
  \/ \E t \in Threads, answered \in BOOLEAN : Fail(t, answered)

Spec == Init /\ [][Next]_vars

(* The worker's loop runs for ever and gets to every connector of a cycle; *)
(* requests and statements answer or raise.  Nothing is assumed of users,  *)
(* of the source, of calls or of time.                                     *)
FairSpec ==
  /\ Spec
  /\ WF_vars(WorkerStep)
  /\ \A t \in Calls : WF_vars(Step(t))

----------------------------------------------------------------------------
(* A cursor that points past the newest page is only there when the page   *)
(* before it was imported: however syncs overlap, fail or are cut off, no  *)
(* document is skipped between two pages (sync writes it last).            *)
NothingSkipped ==
  \A k \in Connectors : cursor[k] # 0 =>
    \A n \in Docs : n > cursor[k] /\ n <= cursor[k] + PageSize =>
      n \in mirror[k] \cap imported[k]

(* The stored refresh token is the one the provider accepts, unless the    *)
(* new one is about to be stored or was lost between the two; the old one  *)
(* never comes back over a newer one (refresh_if_needed: the bundle must   *)
(* be persisted; two callers refresh at once).                             *)
Persisting(k) == \E t \in Threads : At(t, "persist") /\ On(t) = k

TokenKept ==
  \A k \in Connectors : status[k] = "connected" /\ k \notin severed \cup revoked =>
    stored[k] = current[k] \/ Persisting(k)

(* Of a deleted connector a running sync imports at most the document it   *)
(* has in hand (the foreign key of source_documents stops it).             *)
StopsAfterDelete == \A t \in Threads : thread[t].late <= 1

(* Given the permission, every document of a connector that is polled is   *)
(* imported while the connector stays connected, also when another one     *)
(* fails in every cycle (the exception is caught within the loop of        *)
(* _sync_all_due).  What it does not hold for: a hard secret among the     *)
(* documents of a connector with pages, whose cursor stays before it for   *)
(* good, or listed with the document or after it; a document that left the *)
(* window an adapter lists before a cycle came; no refresh token.          *)
Blocked(k, n) ==
  \E m \in 1..posted[k] : Text(k, m) = "secret" /\ (Paged(k) \/ m >= n)
OutOfWindow(k, n) == ~Paged(k) /\ n + PageSize <= posted[k]

EverythingImported ==
  \A k \in Connectors : \A n \in 1..Ever(k) :
    (WorkerMay /\ Polled(k) /\ posted[k] >= n /\ status[k] = "connected")
      ~> \/ n \in imported[k] \/ status[k] # "connected"
         \/ Blocked(k, n) \/ OutOfWindow(k, n) \/ k \in severed \cup revoked
=============================================================================
