------------------------ MODULE ConnectorSyncProofs ------------------------
(***************************************************************************)
(* Theorems about ConnectorSync for every set of connectors of the three   *)
(* sorts, any number of calls beside the worker, any source, page size and *)
(* number of failures.                                                     *)
(***************************************************************************)
EXTENDS ConnectorSync, WellFoundedInduction, TLAPS

Stages == {"none", "asked", "exchange", "disconnected", "connected", "deleted"}
Importing == {"mirror", "find", "add"}
Local == [pc: Places, on: Connectors \cup {None}, op: Ops, gen: Nat,
          at: 0..MaxDocs, page: SUBSET Docs, late: Nat]

(* A thread at work has its connector, and one that imports a document.    *)
Working(t) ==
  /\ ~At(t, "idle") /\ ~At(t, "done") => On(t) \in Connectors
  /\ thread[t].pc \in Importing => thread[t].page # {}
  /\ At(t, "write") => thread[t].page = {}

Rows ==
  /\ status \in [Connectors -> Stages]
  /\ stored \in [Connectors -> Nat] /\ current \in [Connectors -> Nat]
  /\ cursor \in [Connectors -> 0..MaxDocs] /\ posted \in [Connectors -> 0..MaxDocs]
  /\ mirror \in [Connectors -> SUBSET Docs] /\ imported \in [Connectors -> SUBSET Docs]
  /\ expired \subseteq Connectors /\ due \subseteq Connectors

Typed ==
  /\ Rows
  /\ thread \in [Threads -> Local]
  /\ \A t \in Threads : Working(t)

(* What is imported late is the document in hand: the next upsert raises,  *)
(* and after the last document the sync ends.                              *)
Stopping ==
  \A t \in Threads : thread[t].late # 0 =>
    thread[t].late = 1 /\ ~Exists(t) /\ thread[t].pc \in {"mirror", "write"}

(* A refresh that was accepted is the only one of its connector until it   *)
(* is stored: the others hold an older refresh token.                      *)
Refreshing(t, k) == thread[t].pc \in {"refresh", "persist"} /\ On(t) = k

Holds(t, k) ==
  /\ thread[t].gen <= current[k] /\ status[k] \in {"connected", "deleted"}
  /\ At(t, "persist") /\ Rotating(k) => thread[t].gen = current[k] /\ stored[k] < current[k]

Behind(t, u, k) ==
  Rotating(k) /\ At(t, "persist") /\ On(t) = k /\ Refreshing(u, k) /\ u # t
    => At(u, "refresh") /\ thread[u].gen < current[k]

TokenOf(k) ==
  /\ stored[k] <= current[k]
  /\ ~Rotating(k) => current[k] = 0
  /\ status[k] \notin {"connected", "deleted"} => current[k] = 0
  /\ k \in expired => status[k] = "connected"
  /\ status[k] = "connected" /\ k \notin severed => stored[k] = current[k] \/ Persisting(k)

TokensHeld ==
  \A k \in Connectors :
    /\ TokenOf(k)
    /\ \A t \in Threads : Refreshing(t, k) => Holds(t, k)
    /\ \A t, u \in Threads : Behind(t, u, k)

(* Of the page before the cursor that a sync will write, a document is     *)
(* still in hand or was imported; the one in hand is mirrored first.       *)
InHand(t, n) == n \in thread[t].page \/ n \in mirror[On(t)] \cap imported[On(t)]

PageOf(t) ==
  thread[t].pc \in Importing \cup {"write"} /\ Exists(t) =>
    /\ thread[t].at # 0 =>
         \A n \in Docs : n > thread[t].at /\ n <= thread[t].at + PageSize => InHand(t, n)
    /\ thread[t].pc \in {"find", "add"} => Doc(t) \in mirror[On(t)]

PagesHeld == \A t \in Threads : PageOf(t)

----------------------------------------------------------------------------
(* The document in hand is one of the page.                                *)
LEMMA MaxIsThere ==
  ASSUME NEW m \in Nat, NEW S \in SUBSET (0..m), S # {}
  PROVE  Max(S) \in S
<1> DEFINE T == {m - x : x \in S}
           R == OpToRel(<, Nat)
<1>1. T \subseteq Nat /\ T # {}
  <2>1. \A x \in S : m - x \in Nat
    OBVIOUS
  <2>2. PICK x \in S : TRUE
    OBVIOUS
  <2>3. m - x \in T
    OBVIOUS
  <2>4. QED BY <2>1, <2>3
<1>2. PICK y \in T : \A z \in T : ~(<<z, y>> \in R)
  BY <1>1, NatLessThanWellFounded, WFMin
<1>3. PICK x \in S : y = m - x
  BY <1>2
<1>4. ASSUME NEW z \in S
      PROVE  x >= z
  <2>1. m - z \in T /\ m - z \in Nat /\ y \in Nat
    BY <1>1
  <2>2. ~(m - z < y)
    BY <2>1, <1>2 DEF OpToRel
  <2>3. QED BY <2>2, <1>3
<1>5. QED BY <1>3, <1>4 DEF Max

LEMMA DocInPage ==
  ASSUME Typed, NEW t \in Threads, thread[t].pc \in Importing
  PROVE  Doc(t) \in thread[t].page /\ Doc(t) \in Docs
<1>1. thread[t].page \in SUBSET Docs /\ thread[t].page # {}
  BY DEF Typed, Local, Working
<1>2. thread[t].page \in SUBSET (0..MaxDocs)
  BY <1>1, SizesAreNumbers DEF Docs
<1>3. QED BY <1>1, <1>2, MaxIsThere, SizesAreNumbers DEF Doc

----------------------------------------------------------------------------
(* What a step does to its thread, and that it leaves the others alone.    *)
Only(t) ==
  /\ thread' \in [Threads -> Local]
  /\ \A u \in Threads \ {t} : thread'[u] = thread[u]

Is(t, pc, gen, at, page, late) ==
  /\ Only(t)
  /\ thread'[t].pc = pc /\ thread'[t].on = On(t) /\ thread'[t].gen = gen
  /\ thread'[t].at = at /\ thread'[t].page = page /\ thread'[t].late = late

Rests(t) == Only(t) /\ thread'[t].pc \in {"idle", "done"} /\ thread'[t].late = 0

LEMMA RestingTyped ==
  ASSUME NEW p \in Places
  PROVE  /\ Resting(p) \in Local
         /\ Resting(p).pc = p /\ Resting(p).late = 0 /\ Resting(p).gen = 0
         /\ Resting(p).at = 0 /\ Resting(p).page = {}
<1>1. 0 \in 0..MaxDocs /\ "use" \in Ops
  BY SizesAreNumbers DEF Ops
<1>2. QED BY <1>1 DEF Resting, Local

LEMMA RaiseRests ==
  ASSUME Typed, NEW t \in Threads, Raise(t)
  PROVE  Rests(t)
<1>1. PICK p \in {"idle", "done"} : Ended(t) = Resting(p)
  BY DEF Ended
<1>2. p \in Places
  BY DEF Places
<1>3. thread' = [thread EXCEPT ![t] = Resting(p)]
  BY <1>1 DEF Raise
<1>4. thread'[t] = Resting(p) /\ \A u \in Threads \ {t} : thread'[u] = thread[u]
  BY <1>3 DEF Typed
<1>5. thread' \in [Threads -> Local]
  BY <1>2, <1>3, RestingTyped DEF Typed
<1>6. QED BY <1>2, <1>4, <1>5, RestingTyped DEF Rests, Only

(* The fields of a thread.                                                 *)
LEMMA FieldsOf ==
  ASSUME Typed, NEW t \in Threads
  PROVE  /\ thread[t] \in Local
         /\ thread[t].pc \in Places /\ thread[t].gen \in Nat /\ thread[t].at \in 0..MaxDocs
         /\ thread[t].page \in SUBSET Docs /\ thread[t].late \in Nat
         /\ thread[t].op \in Ops /\ On(t) \in Connectors \cup {None}
BY DEF Typed, Local, On

(* A thread's record with some fields changed.                             *)
Has(e, r, pc, gen, at, page, late) ==
  /\ e \in Local /\ e.on = r.on
  /\ e.pc = pc /\ e.gen = gen /\ e.at = at /\ e.page = page /\ e.late = late

LEMMA FieldsSet ==
  ASSUME NEW r \in Local, NEW pc \in Places, NEW gen \in Nat, NEW at \in 0..MaxDocs,
         NEW page \in SUBSET Docs, NEW late \in Nat
  PROVE  /\ Has([r EXCEPT !.pc = pc], r, pc, r.gen, r.at, r.page, r.late)
         /\ Has([r EXCEPT !.pc = pc, !.gen = gen], r, pc, gen, r.at, r.page, r.late)
         /\ Has([r EXCEPT !.at = at, !.pc = pc], r, pc, r.gen, at, r.page, r.late)
         /\ Has([r EXCEPT !.page = page, !.pc = pc], r, pc, r.gen, r.at, page, r.late)
         /\ Has([r EXCEPT !.page = page, !.pc = pc, !.late = late], r, pc, r.gen, r.at, page, late)
         /\ Has([r EXCEPT !.page = page, !.at = at, !.pc = pc], r, pc, r.gen, at, page, r.late)
BY DEF Has, Local

LEMMA SetFields ==
  ASSUME Typed, NEW t \in Threads, NEW e, NEW pc, NEW gen, NEW at, NEW page, NEW late,
         Has(e, thread[t], pc, gen, at, page, late),
         thread' = [thread EXCEPT ![t] = e]
  PROVE  Is(t, pc, gen, at, page, late)
<1>1. thread' \in [Threads -> Local] /\ thread'[t] = e
      /\ \A u \in Threads \ {t} : thread'[u] = thread[u]
  BY DEF Typed, Has
<1>2. QED BY <1>1 DEF Is, Only, Has, On

LEMMA GotoIs ==
  ASSUME Typed, NEW t \in Threads, NEW p \in Places, Goto(t, p)
  PROVE  Is(t, p, thread[t].gen, thread[t].at, thread[t].page, thread[t].late)
<1>1. thread' = [thread EXCEPT ![t] = [thread[t] EXCEPT !.pc = p]]
  BY DEF Goto, Typed
<1>2. Has([thread[t] EXCEPT !.pc = p], thread[t], p, thread[t].gen, thread[t].at,
          thread[t].page, thread[t].late)
  BY FieldsOf, FieldsSet
<1>3. QED BY <1>1, <1>2, SetFields

(* A thread that starts on a connector.                                    *)
Starts(t, k) ==
  /\ Only(t)
  /\ thread'[t].pc \in {"read", "bundle", "revoke"}
  /\ thread'[t].on = k /\ thread'[t].late = 0

LEMMA StartStarts ==
  ASSUME Typed, NEW t \in Threads, NEW k \in Connectors, NEW op \in Ops, Start(t, k, op)
  PROVE  Starts(t, k)
<1> DEFINE e == [Resting(First(op)) EXCEPT !.on = k, !.op = op]
<1>1. First(op) \in {"read", "bundle", "revoke"} /\ First(op) \in Places
  BY DEF First, Ops, Places
<1>2. Resting(First(op)) \in Local
  BY <1>1, RestingTyped
<1>3. e \in Local /\ e.pc = First(op) /\ e.on = k /\ e.late = 0
  BY <1>2 DEF Local, Resting
<1> HIDE DEF e
<1>4. thread' = [thread EXCEPT ![t] = e]
  BY DEF Start, e
<1>5. thread' \in [Threads -> Local] /\ thread'[t] = e
      /\ \A u \in Threads \ {t} : thread'[u] = thread[u]
  BY <1>3, <1>4 DEF Typed
<1>6. QED BY <1>1, <1>3, <1>5 DEF Starts, Only

(* The token is there: a sync goes on to fetch, other calls are done.      *)
Fetches(t) == Rests(t) \/ Is(t, "fetch", 0, thread[t].at, thread[t].page, thread[t].late)

LEMMA TokenFetches ==
  ASSUME Typed, NEW t \in Threads, thread' = [thread EXCEPT ![t] = HasToken(t)]
  PROVE  Fetches(t)
<1>1. CASE thread[t].op = "use"
  BY <1>1, RaiseRests DEF Fetches, HasToken, Raise
<1>2. CASE thread[t].op # "use"
  <2>1. thread' = [thread EXCEPT ![t] = [thread[t] EXCEPT !.pc = "fetch", !.gen = 0]]
    BY <1>2 DEF HasToken
  <2>2. "fetch" \in Places /\ 0 \in Nat
    BY DEF Places
  <2>3. Has([thread[t] EXCEPT !.pc = "fetch", !.gen = 0],
          thread[t], "fetch", 0, thread[t].at, thread[t].page, thread[t].late)
    BY <2>2, FieldsOf, FieldsSet
  <2>4. QED BY <2>1, <2>3, SetFields DEF Fetches
<1>3. QED BY <1>1, <1>2

LEMMA ReadCursorIs ==
  ASSUME Typed, NEW t \in Threads, ReadCursor(t)
  PROVE  \/ Rests(t)
         \/ Is(t, "bundle", thread[t].gen, cursor[On(t)], thread[t].page, thread[t].late)
<1>1. CASE Raise(t)
  BY <1>1, RaiseRests
<1>2. CASE ~Raise(t)
  <2>1. thread' = [thread EXCEPT ![t].at = cursor[On(t)], ![t].pc = "bundle"]
    BY <1>2 DEF ReadCursor
  <2>2. thread' = [thread EXCEPT ![t] = [thread[t] EXCEPT !.at = cursor[On(t)], !.pc = "bundle"]]
    BY <2>1 DEF Typed
  <2>3. "bundle" \in Places /\ cursor[On(t)] \in 0..MaxDocs
    BY DEF Places, Typed, Rows, Working, ReadCursor, At
  <2>4. Has([thread[t] EXCEPT !.at = cursor[On(t)], !.pc = "bundle"],
          thread[t], "bundle", thread[t].gen, cursor[On(t)], thread[t].page, thread[t].late)
    BY <2>3, FieldsOf, FieldsSet
  <2>5. QED BY <2>2, <2>3, <2>4, SetFields
<1>3. QED BY <1>1, <1>2

LEMMA ReadBundleIs ==
  ASSUME Typed, NEW t \in Threads, ReadBundle(t)
  PROVE  \/ Rests(t)
         \/ Fetches(t) /\ On(t) \notin expired /\ status[On(t)] = "connected"
         \/ /\ On(t) \in expired
            /\ Is(t, "refresh", stored[On(t)], thread[t].at, thread[t].page, thread[t].late)
<1>1. CASE Raise(t)
  BY <1>1, RaiseRests
<1>2. CASE thread' = [thread EXCEPT ![t] = HasToken(t)] /\ On(t) \notin expired
           /\ status[On(t)] = "connected"
  BY <1>2, TokenFetches
<1>3. CASE /\ On(t) \in expired
           /\ thread' = [thread EXCEPT ![t].pc = "refresh", ![t].gen = stored[On(t)]]
  <2>2. thread' = [thread EXCEPT ![t] = [thread[t] EXCEPT !.pc = "refresh", !.gen = stored[On(t)]]]
    BY <1>3 DEF Typed
  <2>3. "refresh" \in Places /\ stored[On(t)] \in Nat
    BY <1>3 DEF Places, Typed, Rows
  <2>4. Has([thread[t] EXCEPT !.pc = "refresh", !.gen = stored[On(t)]],
          thread[t], "refresh", stored[On(t)], thread[t].at, thread[t].page, thread[t].late)
    BY <2>3, FieldsOf, FieldsSet
  <2>5. QED BY <1>3, <2>2, <2>4, SetFields
<1>4. QED BY <1>1, <1>2, <1>3 DEF ReadBundle

LEMMA RefreshIs ==
  ASSUME Typed, NEW t \in Threads, Refresh(t)
  PROVE  LET k == On(t)  g == Rotated(k, thread[t].gen) IN
         \/ Rests(t) /\ UNCHANGED current
         \/ /\ Accepts(k, thread[t].gen) /\ g \in Nat
            /\ current' = [current EXCEPT ![k] = g]
            /\ Is(t, "persist", g, thread[t].at, thread[t].page, thread[t].late)
<1> DEFINE k == On(t)
           g == Rotated(k, thread[t].gen)
<1>1. CASE ~Accepts(k, thread[t].gen)
  BY <1>1, RaiseRests DEF Refresh
<1>2. CASE Accepts(k, thread[t].gen)
  <2>1. g \in Nat
    BY FieldsOf DEF Rotated
  <2> HIDE DEF g
  <2>2. /\ thread' = [thread EXCEPT ![t].pc = "persist", ![t].gen = g]
        /\ current' = [current EXCEPT ![k] = g]
    BY <1>2 DEF Refresh, g
  <2>3. thread' = [thread EXCEPT ![t] = [thread[t] EXCEPT !.pc = "persist", !.gen = g]]
    BY <2>2 DEF Typed
  <2>4. "persist" \in Places
    BY DEF Places
  <2>5. Has([thread[t] EXCEPT !.pc = "persist", !.gen = g],
          thread[t], "persist", g, thread[t].at, thread[t].page, thread[t].late)
    BY <2>1, <2>4, FieldsOf, FieldsSet
  <2>6. Is(t, "persist", g, thread[t].at, thread[t].page, thread[t].late)
    BY <2>1, <2>3, <2>4, <2>5, SetFields
  <2>7. QED BY <1>2, <2>1, <2>2, <2>6 DEF g
<1>3. QED BY <1>1, <1>2

(* A page is the newest documents up to its top; the next one is older.    *)
LEMMA PageTyped ==
  ASSUME NEW k, NEW top \in 0..MaxDocs
  PROVE  /\ Page(top) \in SUBSET Docs
         /\ Older(k, top) \in 0..MaxDocs
         /\ Older(k, top) # 0 =>
              \A n \in Docs : n > Older(k, top) /\ n <= Older(k, top) + PageSize
                => n \in Page(top)
BY SizesAreNumbers DEF Page, Older, Docs

LEMMA NextPlaceTyped ==
  ASSUME NEW page
  PROVE  /\ NextPlace(page) \in {"write", "mirror"} /\ NextPlace(page) \in Places
         /\ NextPlace(page) = "write" <=> page = {}
BY DEF NextPlace, Places

LEMMA FetchIs ==
  ASSUME Typed, NEW t \in Threads, Fetch(t)
  PROVE  \E top \in 0..MaxDocs :
           Is(t, NextPlace(Page(top)), thread[t].gen, Older(On(t), top), Page(top), thread[t].late)
<1> DEFINE k == On(t)
           top == Newest(k, thread[t].at)
<1>1. top \in 0..MaxDocs
  BY FieldsOf DEF Newest, Typed, Rows, Working, Fetch, At
<1> HIDE DEF top
<1>2. thread' = [thread EXCEPT ![t].page = Page(top), ![t].at = Older(k, top),
                               ![t].pc = NextPlace(Page(top))]
  BY DEF Fetch, top
<1>3. thread' = [thread EXCEPT ![t] = [thread[t] EXCEPT !.page = Page(top), !.at = Older(k, top),
                                                        !.pc = NextPlace(Page(top))]]
  BY <1>2 DEF Typed
<1>4. Has([thread[t] EXCEPT !.page = Page(top), !.at = Older(k, top), !.pc = NextPlace(Page(top))],
        thread[t], NextPlace(Page(top)), thread[t].gen, Older(k, top), Page(top), thread[t].late)
  BY <1>1, PageTyped, NextPlaceTyped, FieldsOf, FieldsSet
<1>5. Is(t, NextPlace(Page(top)), thread[t].gen, Older(k, top), Page(top), thread[t].late)
  BY <1>1, <1>3, <1>4, PageTyped, NextPlaceTyped, SetFields
<1>6. QED BY <1>1, <1>5

LEMMA FindIs ==
  ASSUME Typed, NEW t \in Threads, Find(t)
  PROVE  \/ Rests(t)
         \/ /\ Doc(t) \in imported[On(t)]
            /\ Is(t, NextPlace(Rest(t)), thread[t].gen, thread[t].at, Rest(t), thread[t].late)
         \/ Is(t, "add", thread[t].gen, thread[t].at, thread[t].page, thread[t].late)
<1>1. CASE Known(t) /\ thread' = [thread EXCEPT ![t].page = Rest(t), ![t].pc = NextPlace(Rest(t))]
  <2>1. thread' = [thread EXCEPT ![t] = [thread[t] EXCEPT !.page = Rest(t), !.pc = NextPlace(Rest(t))]]
    BY <1>1 DEF Typed
  <2>2. Rest(t) \in SUBSET Docs
    BY FieldsOf DEF Rest
  <2>3. Has([thread[t] EXCEPT !.page = Rest(t), !.pc = NextPlace(Rest(t))],
          thread[t], NextPlace(Rest(t)), thread[t].gen, thread[t].at, Rest(t), thread[t].late)
    BY <2>2, NextPlaceTyped, FieldsOf, FieldsSet
  <2>4. Doc(t) \in imported[On(t)]
    BY <1>1 DEF Known
  <2>5. QED BY <2>1, <2>2, <2>3, <2>4, NextPlaceTyped, SetFields
<1>2. CASE Raise(t)
  BY <1>2, RaiseRests
<1>3. CASE Goto(t, "add")
  BY <1>3, GotoIs DEF Places
<1>4. QED BY <1>1, <1>2, <1>3 DEF Find

LEMMA AddIs ==
  ASSUME Typed, NEW t \in Threads, Add(t)
  PROVE  Is(t, NextPlace(Rest(t)), thread[t].gen, thread[t].at, Rest(t),
            IF Exists(t) THEN thread[t].late ELSE thread[t].late + 1)
<1> DEFINE n == IF Exists(t) THEN thread[t].late ELSE thread[t].late + 1
<1>1. n \in Nat
  BY FieldsOf
<1>2. thread' = [thread EXCEPT ![t] = [thread[t] EXCEPT !.page = Rest(t), !.pc = NextPlace(Rest(t)),
                                                        !.late = n]]
  BY DEF Add, Typed
<1> HIDE DEF n
<1>3. Rest(t) \in SUBSET Docs
  BY FieldsOf DEF Rest
<1>4. Has([thread[t] EXCEPT !.page = Rest(t), !.pc = NextPlace(Rest(t)), !.late = n],
        thread[t], NextPlace(Rest(t)), thread[t].gen, thread[t].at, Rest(t), n)
  BY <1>1, <1>3, NextPlaceTyped, FieldsOf, FieldsSet
<1>5. Is(t, NextPlace(Rest(t)), thread[t].gen, thread[t].at, Rest(t), n)
  BY <1>1, <1>2, <1>3, <1>4, NextPlaceTyped, SetFields
<1>6. QED BY <1>5 DEF n

(* What a step that is not its thread's alone leaves a thread.             *)
Moves(t) ==
  /\ Only(t)
  /\ \/ Rests(t)
     \/ \E k \in Connectors : Starts(t, k)
     \/ /\ thread'[t].on = On(t) /\ On(t) \in Connectors
        /\ thread'[t].pc \in Importing => thread'[t].page # {}
        /\ thread'[t].pc = "write" => thread'[t].page = {}

LEMMA MovesWork ==
  ASSUME Typed, NEW t \in Threads, Moves(t)
  PROVE  thread' \in [Threads -> Local] /\ \A u \in Threads : Working(u)'
<1>1. thread' \in [Threads -> Local] /\ \A u \in Threads \ {t} : thread'[u] = thread[u]
  BY DEF Moves, Only
<1>2. ASSUME NEW u \in Threads \ {t}
      PROVE  Working(u)'
  <2>1. thread'[u] = thread[u] /\ Working(u)
    BY <1>1, <1>2 DEF Typed
  <2>2. QED BY <2>1 DEF Working, At, On
<1>3. Working(t)'
  BY DEF Moves, Rests, Starts, Working, At, On, Importing
<1>4. QED BY <1>1, <1>2, <1>3

(* Every step of a thread at work moves it so.                             *)
LEMMA StepMoves ==
  ASSUME Typed, NEW t \in Threads, Step(t) \/ \E answered \in BOOLEAN : Fail(t, answered)
  PROVE  Moves(t)
<1>1. ASSUME Rests(t)
      PROVE  Moves(t)
  BY <1>1 DEF Moves, Rests
<1>2. ASSUME NEW pc, NEW gen, NEW at, NEW page, NEW late, Is(t, pc, gen, at, page, late),
             On(t) \in Connectors, pc \in Importing => page # {}, pc = "write" => page = {}
      PROVE  Moves(t)
  BY <1>2 DEF Moves, Is
<1>3. ~At(t, "idle") /\ ~At(t, "done") /\ On(t) \in Connectors
  <2>1. ~At(t, "idle") /\ ~At(t, "done")
    BY DEF Step, ReadCursor, ReadBundle, Refresh, Persist, Fetch, FetchRefused, Revoke,
           DeleteRevoked, Mirror, Find, Add, WriteCursor, Fail, At
  <2>2. QED BY <2>1 DEF Typed, Working
<1>4. CASE ReadCursor(t)
  BY <1>1, <1>2, <1>3, <1>4, ReadCursorIs DEF Importing
<1>5. CASE ReadBundle(t)
  BY <1>1, <1>2, <1>3, <1>5, ReadBundleIs DEF Importing, Fetches
<1>6. CASE Refresh(t)
  BY <1>1, <1>2, <1>3, <1>6, RefreshIs DEF Importing
<1>7. CASE Persist(t)
  BY <1>1, <1>2, <1>3, <1>7, TokenFetches, RaiseRests DEF Importing, Fetches, Persist
<1>8. CASE Fetch(t)
  <2>1. PICK top \in 0..MaxDocs :
          Is(t, NextPlace(Page(top)), thread[t].gen, Older(On(t), top), Page(top), thread[t].late)
    BY <1>8, FetchIs
  <2>2. QED BY <1>2, <1>3, <2>1, NextPlaceTyped DEF Importing
<1>9. CASE Find(t)
  <2>1. CASE Is(t, NextPlace(Rest(t)), thread[t].gen, thread[t].at, Rest(t), thread[t].late)
    BY <1>2, <1>3, <2>1, NextPlaceTyped DEF Importing
  <2>2. CASE Is(t, "add", thread[t].gen, thread[t].at, thread[t].page, thread[t].late)
    <3>1. thread[t].page # {}
      BY <1>9 DEF Find, Typed, Working, Importing, At
    <3>2. QED BY <1>2, <1>3, <2>2, <3>1 DEF Importing
  <2>3. QED BY <1>1, <1>9, <2>1, <2>2, FindIs
<1>10. CASE Add(t)
  BY <1>2, <1>3, <1>10, AddIs, NextPlaceTyped DEF Importing
<1>11. CASE Mirror(t)
  <2>1. CASE Goto(t, "find")
    <3>1. thread[t].page # {}
      BY <1>11 DEF Mirror, Typed, Working, Importing, At
    <3>2. "find" \in Places
      BY DEF Places
    <3>3. Is(t, "find", thread[t].gen, thread[t].at, thread[t].page, thread[t].late)
      BY <2>1, <3>2, GotoIs
    <3>4. QED BY <1>2, <1>3, <3>1, <3>3 DEF Importing
  <2>2. QED BY <1>1, <1>11, <2>1, RaiseRests DEF Mirror
<1>12. CASE Revoke(t)
  <2>1. "delete" \in Places /\ Goto(t, "delete")
    BY <1>12 DEF Places, Revoke
  <2>2. Is(t, "delete", thread[t].gen, thread[t].at, thread[t].page, thread[t].late)
    BY <2>1, GotoIs
  <2>3. QED BY <1>2, <1>3, <2>2 DEF Importing
<1>13. CASE FetchRefused(t) \/ WriteCursor(t) \/ DeleteRevoked(t)
            \/ \E answered \in BOOLEAN : Fail(t, answered)
  BY <1>1, <1>13, RaiseRests DEF FetchRefused, WriteCursor, DeleteRevoked, Fail
<1>14. QED
  BY <1>4, <1>5, <1>6, <1>7, <1>8, <1>9, <1>10, <1>11, <1>12, <1>13 DEF Step

(* What starts a thread on a connector.                                    *)
Starting(t, k, op) == (t = Worker /\ op = "sync" /\ NextDue(k)) \/ (t \in Calls /\ Arrive(t, k, op))

LEMMA StartingStarts ==
  ASSUME Typed, NEW t \in Threads, NEW k \in Connectors, NEW op \in Ops, Starting(t, k, op)
  PROVE  /\ Starts(t, k) /\ Moves(t)
         /\ UNCHANGED <<status, tokens, imports, posted, mishaps>>
         /\ due' \subseteq Connectors
<1>1. Start(t, k, op)
  BY DEF Starting, NextDue, Arrive
<1>2. Starts(t, k)
  BY <1>1, StartStarts
<1>3. QED
  BY <1>2 DEF Starting, NextDue, Arrive, Moves, Starts, Typed, Rows

(* The steps by what they do to the threads.                               *)
LEMMA Kinds ==
  ASSUME Next
  PROVE  \/ \E k \in Connectors : Change(k)
         \/ Cycle
         \/ \E t \in Threads, k \in Connectors, op \in Ops : Starting(t, k, op)
         \/ \E t \in Threads : Step(t)
         \/ \E t \in Threads, answered \in BOOLEAN : Fail(t, answered)
BY DEF Next, WorkerStep, Starting, Threads, Ops

LEMMA ChangeKeepsThreads ==
  ASSUME NEW k \in Connectors, Change(k)
  PROVE  UNCHANGED <<thread, due>>
BY DEF Change, Ask, Lapse, Callback, NotExchanged, Create, StoreToken, Delete, Post, Expire,
       Become, Cascade

LEMMA RowsStay ==
  ASSUME Typed, Next
  PROVE  Rows'
<1>1. ASSUME NEW k \in Connectors, Change(k)
      PROVE  Rows'
  <2>1. CASE Ask(k) \/ Lapse(k) \/ Callback(k) \/ NotExchanged(k) \/ Create(k) \/ StoreToken(k)
    <3>1. PICK s \in Stages : Become(k, s)
      BY <2>1 DEF Ask, Lapse, Callback, NotExchanged, Create, StoreToken, Stages
    <3>2. QED BY <3>1 DEF Typed, Rows, Become, tokens, imports
  <2>2. CASE Delete(k)
    BY <2>2, SizesAreNumbers DEF Delete, Cascade, Typed, Rows, Stages
  <2>3. CASE Post(k)
    <3>1. posted[k] + 1 \in 0..MaxDocs
      BY <2>3, EverIsBounded, SizesAreNumbers DEF Post, Typed, Rows
    <3>2. QED BY <2>3, <3>1 DEF Post, Typed, Rows, tokens, imports
  <2>4. CASE Expire(k)
    BY <2>4 DEF Expire, Typed, Rows, imports
  <2>5. QED BY <1>1, <2>1, <2>2, <2>3, <2>4 DEF Change
<1>2. CASE Cycle
  BY <1>2 DEF Cycle, Typed, Rows, tokens, imports
<1>3. ASSUME NEW t \in Threads, NEW k \in Connectors, NEW op \in Ops, Starting(t, k, op)
      PROVE  Rows'
  BY <1>3, StartingStarts DEF Typed, Rows, tokens, imports
<1>4. ASSUME NEW t \in Threads, Step(t)
      PROVE  Rows'
  <2>1. On(t) \in Connectors
    BY <1>4 DEF Typed, Working, Step, ReadCursor, ReadBundle, Refresh, Persist, Fetch, FetchRefused,
           Revoke, DeleteRevoked, Mirror, Find, Add, WriteCursor, At
  <2>2. CASE ReadCursor(t) \/ ReadBundle(t) \/ Fetch(t) \/ FetchRefused(t) \/ Find(t)
    BY <2>2 DEF ReadCursor, ReadBundle, Fetch, FetchRefused, Find, Typed, Rows, tokens, imports
  <2>3. CASE Refresh(t)
    <3>1. current' \in [Connectors -> Nat]
      BY <2>1, <2>3, RefreshIs DEF Typed, Rows
    <3>2. QED BY <2>3, <3>1 DEF Refresh, Typed, Rows, imports
  <2>4. CASE Persist(t)
    BY <2>1, <2>4, FieldsOf DEF Persist, Typed, Rows, Stages, imports
  <2>5. CASE Mirror(t)
    <3>1. Doc(t) \in Docs
      BY <2>5, DocInPage DEF Mirror, At, Importing
    <3>2. QED BY <2>1, <2>5, <3>1 DEF Mirror, Typed, Rows, tokens
  <2>6. CASE Add(t)
    <3>1. Doc(t) \in Docs
      BY <2>6, DocInPage DEF Add, At, Importing
    <3>2. QED BY <2>1, <2>6, <3>1 DEF Add, Typed, Rows, tokens
  <2>7. CASE WriteCursor(t)
    BY <2>1, <2>7, FieldsOf DEF WriteCursor, Typed, Rows, tokens
  <2>8. CASE Revoke(t)
    BY <2>8 DEF Revoke, Typed, Rows, imports
  <2>9. CASE DeleteRevoked(t)
    BY <2>1, <2>9, SizesAreNumbers DEF DeleteRevoked, Cascade, Typed, Rows, Stages
  <2>10. QED
    BY <1>4, <2>2, <2>3, <2>4, <2>5, <2>6, <2>7, <2>8, <2>9 DEF Step
<1>5. ASSUME NEW t \in Threads, NEW answered \in BOOLEAN, Fail(t, answered)
      PROVE  Rows'
  <2>1. On(t) \in Connectors
    BY <1>5 DEF Typed, Working, Fail
  <2>2. current' \in [Connectors -> Nat]
    BY <1>5, <2>1 DEF Fail, Typed, Rows
  <2>3. due' \subseteq Connectors
    BY <1>5 DEF Fail, Typed, Rows
  <2>4. QED BY <1>5, <2>2, <2>3 DEF Fail, Typed, Rows, imports
<1>6. QED BY <1>1, <1>2, <1>3, <1>4, <1>5, Kinds

LEMMA TypedStays ==
  ASSUME Typed, Next
  PROVE  Typed'
<1>1. Rows'
  BY RowsStay
<1>2. ASSUME UNCHANGED thread
      PROVE  thread' \in [Threads -> Local] /\ \A u \in Threads : Working(u)'
  BY <1>2 DEF Typed, Working, At, On
<1>3. ASSUME NEW k \in Connectors, Change(k)
      PROVE  UNCHANGED thread
  BY <1>3, ChangeKeepsThreads
<1>4. ASSUME NEW t \in Threads, NEW k \in Connectors, NEW op \in Ops, Starting(t, k, op)
      PROVE  Moves(t)
  BY <1>4, StartingStarts
<1>5. ASSUME NEW t \in Threads, Step(t) \/ \E answered \in BOOLEAN : Fail(t, answered)
      PROVE  Moves(t)
  BY <1>5, StepMoves
<1>6. thread' \in [Threads -> Local] /\ \A u \in Threads : Working(u)'
  BY <1>2, <1>3, <1>4, <1>5, Kinds, MovesWork DEF Cycle
<1>7. QED BY <1>1, <1>6 DEF Typed

----------------------------------------------------------------------------
(* Nothing brings a deleted connector back.                                *)
LEMMA DeletedStays ==
  ASSUME Typed, Next, NEW k \in Connectors, status[k] = "deleted"
  PROVE  status'[k] = "deleted"
<1>1. ASSUME NEW j \in Connectors, Change(j)
      PROVE  status'[k] = "deleted"
  BY <1>1 DEF Change, Ask, Lapse, Callback, NotExchanged, Create, StoreToken, Delete, Post, Expire,
              Become, Cascade, Typed, Rows
<1>2. CASE Cycle
  BY <1>2 DEF Cycle
<1>3. ASSUME NEW t \in Threads, NEW j \in Connectors, NEW op \in Ops, Starting(t, j, op)
      PROVE  status'[k] = "deleted"
  BY <1>3, StartingStarts
<1>4. ASSUME NEW t \in Threads, Step(t)
      PROVE  status'[k] = "deleted"
  <2>1. CASE Persist(t)
    BY <2>1 DEF Persist, Exists, Typed, Rows
  <2>2. CASE DeleteRevoked(t)
    BY <2>2 DEF DeleteRevoked, Cascade, Typed, Rows
  <2>3. QED
    BY <1>4, <2>1, <2>2 DEF Step, ReadCursor, ReadBundle, Refresh, Fetch, FetchRefused,
       Revoke, Mirror, Find, Add, WriteCursor
<1>5. ASSUME NEW t \in Threads, NEW answered \in BOOLEAN, Fail(t, answered)
      PROVE  status'[k] = "deleted"
  BY <1>5 DEF Fail
<1>6. QED BY <1>1, <1>2, <1>3, <1>4, <1>5, Kinds

StopsAt(t) ==
  thread[t].late # 0 =>
    thread[t].late = 1 /\ ~Exists(t) /\ thread[t].pc \in {"mirror", "write"}

LEMMA StoppingStays ==
  ASSUME Typed, Stopping, Next
  PROVE  Stopping'
<1>1. ASSUME NEW u \in Threads, thread'[u] = thread[u]
      PROVE  StopsAt(u)'
  <2>1. StopsAt(u)
    BY DEF Stopping, StopsAt
  <2>2. CASE thread[u].late = 0
    BY <1>1, <2>2 DEF StopsAt
  <2>3. CASE thread[u].late # 0
    <3>1. On(u) \in Connectors /\ status[On(u)] = "deleted"
      BY <2>1, <2>3 DEF StopsAt, Exists, Typed, Working, At
    <3>2. status'[On(u)] = "deleted"
      BY <3>1, DeletedStays
    <3>3. QED BY <1>1, <2>1, <2>3, <3>2 DEF StopsAt, Exists, On
  <2>4. QED BY <2>2, <2>3
<1>2. ASSUME NEW t \in Threads, Only(t), StopsAt(t)'
      PROVE  Stopping'
  BY <1>1, <1>2 DEF Only, Stopping, StopsAt
<1>3. ASSUME UNCHANGED thread
      PROVE  Stopping'
  BY <1>1, <1>3 DEF Stopping, StopsAt
<1>4. ASSUME NEW t \in Threads, Rests(t)
      PROVE  Stopping'
  BY <1>2, <1>4 DEF Rests, StopsAt
<1>5. ASSUME NEW t \in Threads, ~At(t, "mirror"), ~At(t, "write"),
             NEW pc, NEW gen, NEW at, NEW page, Is(t, pc, gen, at, page, thread[t].late)
      PROVE  Stopping'
  <2>1. thread'[t].late = 0
    BY <1>5 DEF Is, Stopping, At
  <2>2. QED BY <1>2, <1>5, <2>1 DEF Is, StopsAt
<1>6. ASSUME NEW k \in Connectors, Change(k)
      PROVE  Stopping'
  BY <1>3, <1>6, ChangeKeepsThreads
<1>7. ASSUME NEW t \in Threads, NEW k \in Connectors, NEW op \in Ops, Starting(t, k, op)
      PROVE  Stopping'
  BY <1>2, <1>7, StartingStarts DEF Starts, StopsAt
<1>8. ASSUME NEW t \in Threads, NEW answered \in BOOLEAN, Fail(t, answered)
      PROVE  Stopping'
  BY <1>4, <1>8, RaiseRests DEF Fail
<1>9. ASSUME NEW t \in Threads, Step(t)
      PROVE  Stopping'
  <2>1. CASE ReadCursor(t)
    BY <1>4, <1>5, <2>1, ReadCursorIs DEF ReadCursor, At
  <2>2. CASE ReadBundle(t)
    BY <1>4, <1>5, <2>2, ReadBundleIs DEF ReadBundle, At, Fetches
  <2>3. CASE Refresh(t)
    BY <1>4, <1>5, <2>3, RefreshIs DEF Refresh, At
  <2>4. CASE Persist(t)
    BY <1>4, <1>5, <2>4, TokenFetches, RaiseRests DEF Persist, At, Fetches
  <2>5. CASE Fetch(t)
    BY <1>5, <2>5, FetchIs DEF Fetch, At
  <2>6. CASE Find(t)
    BY <1>4, <1>5, <2>6, FindIs DEF Find, At
  <2>7. CASE Mirror(t)
    <3>1. CASE ~Exists(t)
      BY <1>4, <2>7, <3>1, RaiseRests DEF Mirror
    <3>2. CASE Exists(t)
      <4>1. "find" \in Places /\ Goto(t, "find") /\ thread[t].late = 0
        BY <2>7, <3>2 DEF Mirror, Places, Stopping
      <4>2. Is(t, "find", thread[t].gen, thread[t].at, thread[t].page, thread[t].late)
        BY <4>1, GotoIs
      <4>3. QED BY <1>2, <4>1, <4>2 DEF Is, StopsAt
    <3>3. QED BY <3>1, <3>2
  <2>8. CASE Add(t)
    <3>1. thread[t].late = 0
      BY <2>8 DEF Add, Stopping, At
    <3>2. Is(t, NextPlace(Rest(t)), thread[t].gen, thread[t].at, Rest(t), IF Exists(t) THEN 0 ELSE 1)
      BY <2>8, <3>1, AddIs
    <3>3. UNCHANGED status
      BY <2>8 DEF Add
    <3>4. StopsAt(t)'
      BY <3>2, <3>3, NextPlaceTyped DEF Is, StopsAt, Exists, On
    <3>5. QED BY <1>2, <3>2, <3>4 DEF Is
  <2>9. CASE Revoke(t)
    <3>1. "delete" \in Places /\ Goto(t, "delete")
      BY <2>9 DEF Revoke, Places
    <3>2. Is(t, "delete", thread[t].gen, thread[t].at, thread[t].page, thread[t].late)
      BY <3>1, GotoIs
    <3>3. QED BY <1>5, <2>9, <3>2 DEF Revoke, At
  <2>10. CASE FetchRefused(t) \/ WriteCursor(t) \/ DeleteRevoked(t)
    BY <1>4, <2>10, RaiseRests DEF FetchRefused, WriteCursor, DeleteRevoked
  <2>11. QED
    BY <1>9, <2>1, <2>2, <2>3, <2>4, <2>5, <2>6, <2>7, <2>8, <2>9, <2>10 DEF Step
<1>10. QED BY <1>3, <1>6, <1>7, <1>8, <1>9, Kinds DEF Cycle

----------------------------------------------------------------------------
Tokens(k) ==
  /\ TokenOf(k)
  /\ \A t \in Threads : Refreshing(t, k) => Holds(t, k)
  /\ \A t, u \in Threads : Behind(t, u, k)

(* A step beside the refreshes.                                            *)
LEMMA TokensAside ==
  ASSUME Typed, NEW k \in Connectors, Tokens(k), NEW t \in Threads, Only(t),
         status'[k] = status[k], stored'[k] = stored[k], current'[k] = current[k],
         k \in expired' <=> k \in expired, k \in severed' <=> k \in severed,
         At(t, "persist") => On(t) # k,
         thread'[t].pc \in {"refresh", "persist"} => thread'[t].on # k
  PROVE  Tokens(k)'
<1>1. \A u \in Threads : (At(u, "persist") /\ On(u) = k)' <=> At(u, "persist") /\ On(u) = k
  BY DEF Only, At, On
<1>2. Persisting(k)' <=> Persisting(k)
  BY <1>1 DEF Persisting
<1>3. \A u \in Threads : Refreshing(u, k)' => Refreshing(u, k) /\ u # t /\ thread'[u] = thread[u]
  BY DEF Only, Refreshing, On
<1>4. TokenOf(k)'
  BY <1>2 DEF Tokens, TokenOf, Rotating
<1>5. \A u \in Threads : Refreshing(u, k)' => Holds(u, k)'
  BY <1>3 DEF Tokens, Holds, At, Rotating
<1>6. ASSUME NEW u \in Threads, NEW v \in Threads
      PROVE  Behind(u, v, k)'
  <2>1. Behind(u, v, k)
    BY DEF Tokens
  <2>2. (At(u, "persist") /\ On(u) = k)' => At(u, "persist") /\ On(u) = k
    BY <1>1
  <2>3. QED BY <2>1, <2>2, <1>3 DEF Behind, At, Rotating
<1>7. QED BY <1>4, <1>5, <1>6 DEF Tokens

(* A change of the connector itself.                                       *)
LEMMA TokensChange ==
  ASSUME Typed, NEW j \in Connectors, Change(j), NEW k \in Connectors, Tokens(k)
  PROVE  Tokens(k)'
<1>1. UNCHANGED thread
  BY ChangeKeepsThreads
<1>2. \A u \in Threads : /\ At(u, "persist")' <=> At(u, "persist")
                         /\ On(u)' = On(u)
                         /\ Refreshing(u, k)' <=> Refreshing(u, k)
                         /\ At(u, "refresh")' <=> At(u, "refresh")
                         /\ thread'[u].gen = thread[u].gen
  BY <1>1 DEF At, On, Refreshing
<1>3. Persisting(k)' <=> Persisting(k)
  BY <1>2 DEF Persisting
<1>4. UNCHANGED <<current, severed>>
  BY DEF Change, Ask, Lapse, Callback, NotExchanged, Create, StoreToken, Delete, Post, Expire,
         Become, Cascade, tokens
<1>5. \A u, v \in Threads : Behind(u, v, k)'
  BY <1>2, <1>4 DEF Tokens, Behind, Rotating
<1>6. CASE j # k
  <2>1. status'[k] = status[k] /\ stored'[k] = stored[k] /\ (k \in expired' <=> k \in expired)
    BY <1>6 DEF Change, Ask, Lapse, Callback, NotExchanged, Create, StoreToken, Delete, Post, Expire,
       Become, Cascade, tokens, Typed, Rows
  <2>2. TokenOf(k)'
    BY <1>3, <1>4, <2>1 DEF Tokens, TokenOf, Rotating
  <2>3. \A u \in Threads : Refreshing(u, k)' => Holds(u, k)'
    BY <1>2, <1>4, <2>1 DEF Tokens, Holds, Rotating
  <2>4. QED BY <1>5, <2>2, <2>3 DEF Tokens
<1>7. CASE j = k
  <2>1. CASE Ask(k) \/ Lapse(k) \/ Callback(k) \/ NotExchanged(k) \/ Create(k) \/ StoreToken(k)
    <3>1. /\ status[k] \notin {"connected", "deleted"} /\ UNCHANGED <<stored, expired>>
          /\ status'[k] # "deleted"
      BY <2>1 DEF Ask, Lapse, Callback, NotExchanged, Create, StoreToken, Become, tokens, Typed, Rows
    <3>2. current[k] = 0 /\ stored[k] = 0 /\ k \notin expired
      BY <3>1 DEF Tokens, TokenOf, Typed, Rows
    <3>3. \A u \in Threads : ~Refreshing(u, k)
      BY <3>1 DEF Tokens, Holds
    <3>4. TokenOf(k)'
      BY <1>4, <3>1, <3>2 DEF TokenOf
    <3>5. QED BY <1>2, <1>5, <3>3, <3>4 DEF Tokens
  <2>2. CASE Delete(k)
    <3>1. status'[k] = "deleted" /\ stored'[k] = 0 /\ k \notin expired'
      BY <2>2 DEF Delete, Cascade, Typed, Rows
    <3>2. TokenOf(k)'
      BY <1>4, <3>1 DEF Tokens, TokenOf, Typed, Rows, Rotating
    <3>3. \A u \in Threads : Refreshing(u, k)' => Holds(u, k)'
      BY <1>2, <1>4, <3>1 DEF Tokens, Holds, Rotating, Typed, Rows
    <3>4. QED BY <1>5, <3>2, <3>3 DEF Tokens
  <2>3. CASE Post(k) \/ Expire(k)
    <3>1. /\ UNCHANGED <<status, stored>>
          /\ k \in expired' => status[k] = "connected"
      BY <2>3 DEF Post, Expire, tokens, Tokens, TokenOf
    <3>2. TokenOf(k)'
      BY <1>3, <1>4, <3>1 DEF Tokens, TokenOf, Rotating
    <3>3. \A u \in Threads : Refreshing(u, k)' => Holds(u, k)'
      BY <1>2, <1>4, <3>1 DEF Tokens, Holds, Rotating
    <3>4. QED BY <1>5, <3>2, <3>3 DEF Tokens
  <2>4. QED BY <1>7, <2>1, <2>2, <2>3 DEF Change
<1>8. QED BY <1>6, <1>7

(* What the steps of a thread leave of the connectors it is not on.        *)
LEMMA OthersKept ==
  ASSUME Typed, NEW t \in Threads, Step(t) \/ \E answered \in BOOLEAN : Fail(t, answered),
         NEW k \in Connectors, On(t) # k
  PROVE  /\ status'[k] = status[k] /\ stored'[k] = stored[k] /\ current'[k] = current[k]
         /\ k \in expired' <=> k \in expired
         /\ k \in severed' <=> k \in severed
<1>1. CASE ReadCursor(t) \/ ReadBundle(t) \/ Fetch(t) \/ FetchRefused(t) \/ Find(t) \/ Mirror(t)
           \/ Add(t) \/ WriteCursor(t) \/ Revoke(t)
  BY <1>1 DEF ReadCursor, ReadBundle, Fetch, FetchRefused, Find, Mirror, Add, WriteCursor, Revoke,
              tokens
<1>2. CASE Refresh(t)
  BY <1>2 DEF Refresh, Typed, Rows
<1>3. CASE Persist(t)
  BY <1>3 DEF Persist, Typed, Rows
<1>4. CASE DeleteRevoked(t)
  BY <1>4 DEF DeleteRevoked, Cascade, Typed, Rows
<1>5. ASSUME NEW answered \in BOOLEAN, Fail(t, answered)
      PROVE  /\ status'[k] = status[k] /\ stored'[k] = stored[k] /\ current'[k] = current[k]
             /\ k \in expired' <=> k \in expired
             /\ k \in severed' <=> k \in severed
  BY <1>5 DEF Fail, Typed, Rows
<1>6. QED BY <1>1, <1>2, <1>3, <1>4, <1>5 DEF Step

(* A refresh that starts has the stored token; one that is accepted is the *)
(* newest of all, and no other of its connector is on its way.             *)
LEMMA TokensRead ==
  ASSUME Typed, NEW k \in Connectors, Tokens(k), NEW t \in Threads, On(t) = k, k \in expired,
         At(t, "bundle"), UNCHANGED <<status, tokens>>,
         Is(t, "refresh", stored[k], thread[t].at, thread[t].page, thread[t].late)
  PROVE  Tokens(k)'
<1>1. UNCHANGED <<status, stored, current, expired, severed>>
  BY DEF tokens
<1>2. \A u \in Threads \ {t} : thread'[u] = thread[u]
  BY DEF Is, Only
<1>3. \A u \in Threads : (At(u, "persist") /\ On(u) = k)' <=> At(u, "persist") /\ On(u) = k
  BY <1>2 DEF Is, At, On
<1>4. TokenOf(k)'
  BY <1>1, <1>3 DEF Tokens, TokenOf, Persisting, Rotating
<1>5. ASSUME NEW u \in Threads, Refreshing(u, k)'
      PROVE  Holds(u, k)'
  <2>1. CASE u = t
    BY <1>1, <2>1 DEF Is, Holds, At, Tokens, TokenOf
  <2>2. CASE u # t
    BY <1>1, <1>2, <1>5, <2>2 DEF Tokens, Holds, Refreshing, At, On, Rotating
  <2>3. QED BY <2>1, <2>2
<1>6. ASSUME NEW u \in Threads, NEW v \in Threads
      PROVE  Behind(u, v, k)'
  <2>1. CASE v # t
    <3>1. Behind(u, v, k) /\ thread'[v] = thread[v]
      BY <1>2, <2>1 DEF Tokens
    <3>2. QED BY <1>1, <1>3, <2>1, <3>1 DEF Behind, Refreshing, At, On, Rotating
  <2>2. CASE v = t
    <3>1. SUFFICES ASSUME (Rotating(k) /\ At(u, "persist") /\ On(u) = k)'
                   PROVE  (At(v, "refresh") /\ thread[v].gen < current[k])'
      BY DEF Behind
    <3>2. Rotating(k) /\ At(u, "persist") /\ On(u) = k
      BY <1>3, <3>1 DEF Rotating
    <3>3. stored[k] < current[k]
      BY <3>2 DEF Tokens, Holds, Refreshing, At
    <3>4. QED BY <1>1, <2>2, <3>3 DEF Is, At
  <2>3. QED BY <2>1, <2>2
<1>7. QED BY <1>4, <1>5, <1>6 DEF Tokens

LEMMA TokensAccepted ==
  ASSUME Typed, NEW k \in Connectors, Tokens(k), NEW t \in Threads, On(t) = k, At(t, "refresh"),
         Accepts(k, thread[t].gen),
         UNCHANGED <<status, stored, expired, severed>>,
         current' = [current EXCEPT ![k] = Rotated(k, thread[t].gen)],
         NEW at, NEW page, NEW late,
         Is(t, "persist", Rotated(k, thread[t].gen), at, page, late)
  PROVE  Tokens(k)'
<1>1. \A u \in Threads \ {t} : thread'[u] = thread[u]
  BY DEF Is, Only
<1>2. At(t, "persist")' /\ On(t)' = k /\ thread'[t].gen = Rotated(k, thread[t].gen)
  BY DEF Is, At, On
<1>3. Refreshing(t, k) /\ Holds(t, k)
  BY DEF Refreshing, At, Tokens
<1>4. current'[k] = Rotated(k, thread[t].gen)
  BY DEF Typed, Rows
<1>5. stored[k] <= current[k] /\ current[k] \in Nat /\ stored[k] \in Nat /\ thread[t].gen \in Nat
  BY FieldsOf DEF Tokens, TokenOf, Typed, Rows
<1>6. CASE ~Rotating(k)
  <2>1. current[k] = 0 /\ stored[k] = 0 /\ thread[t].gen = 0 /\ current'[k] = 0
    BY <1>3, <1>4, <1>5, <1>6 DEF Tokens, TokenOf, Holds, Rotated
  <2>2. TokenOf(k)'
    BY <1>6, <2>1 DEF TokenOf, Tokens, Rotating
  <2>3. ASSUME NEW u \in Threads, Refreshing(u, k)'
        PROVE  Holds(u, k)'
    <3>1. thread'[u].gen <= 0
      <4>1. CASE u = t
        BY <1>2, <1>6, <2>1, <4>1 DEF Rotated
      <4>2. CASE u # t
        BY <1>1, <2>1, <2>3, <4>2 DEF Tokens, Holds, Refreshing, On
      <4>3. QED BY <4>1, <4>2
    <3>2. status[k] \in {"connected", "deleted"}
      BY <1>3 DEF Holds
    <3>3. QED BY <1>6, <2>1, <3>1, <3>2 DEF Holds, Rotating
  <2>4. \A u, v \in Threads : Behind(u, v, k)'
    BY <1>6 DEF Behind, Rotating
  <2>5. QED BY <2>2, <2>3, <2>4 DEF Tokens
<1>7. CASE Rotating(k)
  <2>1. thread[t].gen = current[k] /\ current'[k] = current[k] + 1
    BY <1>4, <1>7 DEF Accepts, Rotated
  <2>2. \A u \in Threads : ~(At(u, "persist") /\ On(u) = k)
    <3>1. SUFFICES ASSUME NEW u \in Threads, At(u, "persist"), On(u) = k
                   PROVE  FALSE
      OBVIOUS
    <3>2. u # t
      BY <3>1 DEF At
    <3>3. Behind(u, t, k)
      BY DEF Tokens
    <3>4. thread[t].gen < current[k]
      BY <1>3, <1>7, <3>1, <3>2, <3>3 DEF Behind
    <3>5. QED BY <1>5, <2>1, <3>4
  <2>3. TokenOf(k)'
    <3>1. Persisting(k)'
      BY <1>2 DEF Persisting
    <3>2. status'[k] \in {"connected", "deleted"}
      BY <1>3 DEF Holds
    <3>3. k \in expired' => status'[k] = "connected"
      BY DEF Tokens, TokenOf
    <3>4. QED BY <1>5, <1>7, <2>1, <3>1, <3>2, <3>3 DEF TokenOf, Rotating
  <2>4. ASSUME NEW u \in Threads, u # t, Refreshing(u, k)'
        PROVE  At(u, "refresh")' /\ thread'[u].gen < current'[k]
    <3>1. Refreshing(u, k) /\ thread'[u] = thread[u]
      BY <1>1, <2>4 DEF Refreshing, On
    <3>2. Holds(u, k) /\ At(u, "refresh")
      BY <2>2, <3>1 DEF Tokens, Refreshing, At
    <3>3. thread[u].gen \in Nat
      BY FieldsOf
    <3>4. QED BY <1>5, <2>1, <3>1, <3>2, <3>3 DEF Holds, At
  <2>5. ASSUME NEW u \in Threads, Refreshing(u, k)'
        PROVE  Holds(u, k)'
    <3>1. status'[k] \in {"connected", "deleted"}
      BY <1>3 DEF Holds
    <3>2. CASE u = t
      BY <1>2, <1>4, <1>5, <2>1, <3>1, <3>2 DEF Holds
    <3>3. CASE u # t
      <4>1. thread'[u].gen \in Nat
        BY <1>1, <3>3, FieldsOf
      <4>2. QED BY <1>5, <2>1, <2>4, <2>5, <3>1, <3>3, <4>1 DEF Holds, At
    <3>4. QED BY <3>2, <3>3
  <2>6. ASSUME NEW u \in Threads, NEW v \in Threads
        PROVE  Behind(u, v, k)'
    <3>1. CASE u = t
      BY <2>4, <3>1 DEF Behind
    <3>2. CASE u # t
      BY <1>1, <2>2, <3>2 DEF Behind, At, On
    <3>3. QED BY <3>1, <3>2
  <2>7. QED BY <2>3, <2>5, <2>6 DEF Tokens
<1>8. QED BY <1>6, <1>7

(* A thread on the connector is done with refreshing it.                   *)
LEMMA TokensLeft ==
  ASSUME Typed, NEW k \in Connectors, Tokens(k), NEW t \in Threads, Only(t), On(t) = k,
         thread'[t].pc \notin {"refresh", "persist"}, UNCHANGED current,
         status'[k] \in {"connected", "deleted"} \/ UNCHANGED status,
         TokenOf(k)', stored'[k] \in Nat,
         Rotating(k) => stored'[k] <= stored[k] \/ At(t, "persist")
  PROVE  Tokens(k)'
<1>1. ASSUME NEW u \in Threads, Refreshing(u, k)'
      PROVE  Refreshing(u, k) /\ u # t /\ thread'[u] = thread[u]
  BY <1>1 DEF Only, Refreshing, On
<1>2. ASSUME NEW u \in Threads, Refreshing(u, k)'
      PROVE  Holds(u, k)'
  <2>1. Refreshing(u, k) /\ u # t /\ thread'[u] = thread[u] /\ Holds(u, k)
    BY <1>1, <1>2 DEF Tokens
  <2>2. CASE ~(At(u, "persist") /\ Rotating(k))
    BY <2>1, <2>2 DEF Holds, At, Rotating
  <2>3. CASE At(u, "persist") /\ Rotating(k)
    <3>1. ~At(t, "persist")
      <4>1. Behind(t, u, k)
        BY DEF Tokens
      <4>2. QED BY <2>1, <2>3, <4>1 DEF Behind, At
    <3>2. stored'[k] < current[k]
      <4>1. stored[k] < current[k] /\ stored'[k] <= stored[k]
        BY <2>1, <2>3, <3>1 DEF Holds
      <4>2. QED BY <4>1 DEF Typed, Rows
    <3>3. QED BY <2>1, <3>2 DEF Holds, At
  <2>4. QED BY <2>2, <2>3
<1>3. ASSUME NEW u \in Threads, NEW v \in Threads
      PROVE  Behind(u, v, k)'
  <2>1. Behind(u, v, k)
    BY DEF Tokens
  <2>2. (At(u, "persist") /\ On(u) = k)' => At(u, "persist") /\ On(u) = k
    BY <1>1 DEF Refreshing, At
  <2>3. QED BY <1>1, <2>1, <2>2 DEF Behind, At, Rotating
<1>4. QED BY <1>2, <1>3 DEF Tokens

LEMMA TokensOwnStep ==
  ASSUME Typed, NEW k \in Connectors, Tokens(k), NEW t \in Threads, On(t) = k, Step(t)
  PROVE  Tokens(k)'
<1>1. ASSUME UNCHANGED <<status, stored, current, expired, severed>>, ~At(t, "persist"),
             Only(t), thread'[t].pc \notin {"refresh", "persist"}
      PROVE  Tokens(k)'
  BY <1>1, TokensAside
<1>2. ASSUME UNCHANGED <<status, stored, current, expired, severed>>, ~At(t, "persist"),
             NEW pc, NEW gen, NEW at, NEW page, NEW late, Is(t, pc, gen, at, page, late),
             pc \notin {"refresh", "persist"}
      PROVE  Tokens(k)'
  BY <1>1, <1>2 DEF Is
<1>3. ASSUME UNCHANGED <<status, stored, current, expired, severed>>, ~At(t, "persist"), Rests(t)
      PROVE  Tokens(k)'
  BY <1>1, <1>3 DEF Rests
<1>4. ASSUME UNCHANGED <<status, tokens>>
      PROVE  UNCHANGED <<status, stored, current, expired, severed>>
  BY <1>4 DEF tokens
<1>5. CASE ReadCursor(t)
  <2>1. UNCHANGED <<status, tokens>> /\ ~At(t, "persist")
    BY <1>5 DEF ReadCursor, At
  <2>2. QED BY <1>2, <1>3, <1>4, <1>5, <2>1, ReadCursorIs
<1>6. CASE ReadBundle(t)
  <2>1. UNCHANGED <<status, tokens>> /\ At(t, "bundle") /\ ~At(t, "persist")
    BY <1>6 DEF ReadBundle, At
  <2>2. CASE Rests(t) \/ Fetches(t)
    BY <1>2, <1>3, <1>4, <2>1, <2>2 DEF Fetches
  <2>3. QED BY <1>6, <2>1, <2>2, ReadBundleIs, TokensRead
<1>7. CASE Refresh(t)
  <2>1. UNCHANGED <<status, stored, expired, severed>> /\ At(t, "refresh") /\ ~At(t, "persist")
    BY <1>7 DEF Refresh, At
  <2>2. QED BY <1>3, <1>7, <2>1, RefreshIs, TokensAccepted
<1>8. CASE Persist(t)
  <2>1. /\ Refreshing(t, k) /\ Holds(t, k) /\ UNCHANGED <<current, severed>>
        /\ At(t, "persist")
    BY <1>8 DEF Persist, Refreshing, At, Tokens
  <2>2. CASE ~Exists(t)
    <3>1. Rests(t) /\ UNCHANGED <<status, stored, expired>>
      BY <1>8, <2>2, RaiseRests DEF Persist
    <3>2. status[k] = "deleted"
      BY <2>2 DEF Exists
    <3>3. TokenOf(k)'
      BY <2>1, <3>1, <3>2 DEF Tokens, TokenOf, Rotating
    <3>4. stored'[k] \in Nat
      BY <3>1 DEF Typed, Rows
    <3>5. QED BY <2>1, <3>1, <3>3, <3>4, TokensLeft DEF Rests
  <2>3. CASE Exists(t)
    <3>1. /\ stored'[k] = thread[t].gen /\ k \notin expired' /\ status'[k] = "connected"
          /\ thread' = [thread EXCEPT ![t] = HasToken(t)]
      BY <1>8, <2>3 DEF Persist, Typed, Rows
    <3>2. Only(t) /\ thread'[t].pc \notin {"refresh", "persist"}
      BY <3>1, TokenFetches DEF Fetches, Rests, Is
    <3>3. stored'[k] = current[k] /\ stored'[k] \in Nat
      <4>1. thread[t].gen \in Nat /\ current[k] \in Nat
        BY FieldsOf DEF Typed, Rows
      <4>2. QED BY <2>1, <3>1, <4>1 DEF Holds, Tokens, TokenOf
    <3>4. TokenOf(k)'
      BY <2>1, <3>1, <3>3 DEF Tokens, TokenOf, Rotating, Typed, Rows
    <3>5. QED BY <2>1, <3>1, <3>2, <3>3, <3>4, TokensLeft
  <2>4. QED BY <2>2, <2>3
<1>9. CASE Fetch(t)
  <2>1. UNCHANGED <<status, tokens>> /\ ~At(t, "persist")
    BY <1>9 DEF Fetch, At
  <2>2. PICK top \in 0..MaxDocs :
          Is(t, NextPlace(Page(top)), thread[t].gen, Older(On(t), top), Page(top), thread[t].late)
    BY <1>9, FetchIs
  <2>3. NextPlace(Page(top)) \notin {"refresh", "persist"}
    BY NextPlaceTyped
  <2>4. QED BY <1>2, <1>4, <2>1, <2>2, <2>3
<1>10. CASE Find(t)
  <2>1. UNCHANGED <<status, tokens>> /\ ~At(t, "persist")
    BY <1>10 DEF Find, At
  <2>2. NextPlace(Rest(t)) \notin {"refresh", "persist"}
    BY NextPlaceTyped
  <2>3. QED BY <1>2, <1>3, <1>4, <1>10, <2>1, <2>2, FindIs
<1>11. CASE Add(t)
  <2>1. UNCHANGED <<status, tokens>> /\ ~At(t, "persist")
    BY <1>11 DEF Add, At
  <2>2. NextPlace(Rest(t)) \notin {"refresh", "persist"}
    BY NextPlaceTyped
  <2>3. QED BY <1>2, <1>4, <1>11, <2>1, <2>2, AddIs
<1>12. CASE Mirror(t)
  <2>1. UNCHANGED <<status, tokens>> /\ ~At(t, "persist")
    BY <1>12 DEF Mirror, At
  <2>2. CASE Goto(t, "find")
    <3>1. Is(t, "find", thread[t].gen, thread[t].at, thread[t].page, thread[t].late)
      BY <2>2, GotoIs DEF Places
    <3>2. QED BY <1>2, <1>4, <2>1, <3>1
  <2>3. QED BY <1>3, <1>4, <1>12, <2>1, <2>2, RaiseRests DEF Mirror
<1>13. CASE Revoke(t)
  <2>1. UNCHANGED <<status, stored, current, expired, severed>> /\ ~At(t, "persist")
    BY <1>13 DEF Revoke, At
  <2>2. Is(t, "delete", thread[t].gen, thread[t].at, thread[t].page, thread[t].late)
    BY <1>13, GotoIs DEF Revoke, Places
  <2>3. QED BY <1>2, <2>1, <2>2
<1>14. CASE FetchRefused(t) \/ WriteCursor(t)
  <2>1. UNCHANGED <<status, tokens>> /\ ~At(t, "persist") /\ Rests(t)
    BY <1>14, RaiseRests DEF FetchRefused, WriteCursor, At
  <2>2. QED BY <1>3, <1>4, <2>1
<1>15. CASE DeleteRevoked(t)
  <2>1. /\ status'[k] = "deleted" /\ stored'[k] = 0 /\ k \notin expired'
        /\ UNCHANGED <<current, severed>> /\ Rests(t)
    BY <1>15, RaiseRests DEF DeleteRevoked, Cascade, Typed, Rows
  <2>2. TokenOf(k)'
    BY <2>1 DEF Tokens, TokenOf, Rotating, Typed, Rows
  <2>3. stored'[k] \in Nat /\ stored'[k] <= stored[k]
    BY <2>1 DEF Typed, Rows
  <2>4. QED BY <2>1, <2>2, <2>3, TokensLeft DEF Rests
<1>16. QED
  BY <1>5, <1>6, <1>7, <1>8, <1>9, <1>10, <1>11, <1>12, <1>13, <1>14, <1>15 DEF Step

LEMMA TokensOwnFail ==
  ASSUME Typed, NEW k \in Connectors, Tokens(k), NEW t \in Threads, On(t) = k,
         NEW answered \in BOOLEAN, Fail(t, answered)
  PROVE  Tokens(k)'
<1>1. Rests(t) /\ UNCHANGED <<status, stored, expired>>
  BY RaiseRests DEF Fail
<1>2. \A u \in Threads \ {t} : thread'[u] = thread[u]
  BY <1>1 DEF Rests, Only
<1>3. CASE answered
  <2>1. Rotating(k) /\ At(t, "refresh") /\ thread[t].gen = current[k]
    BY <1>3 DEF Fail, Rotates, Accepts
  <2>2. current'[k] = current[k] + 1 /\ k \in severed'
    BY <1>3 DEF Fail, Typed, Rows
  <2>3. stored[k] <= current[k] /\ current[k] \in Nat /\ stored[k] \in Nat
        /\ status[k] \in {"connected", "deleted"}
    BY <2>1 DEF Tokens, TokenOf, Typed, Rows, Refreshing, At, Holds
  <2>4. TokenOf(k)'
    BY <1>1, <2>1, <2>2, <2>3 DEF Tokens, TokenOf, Rotating
  <2>5. ASSUME NEW u \in Threads, Refreshing(u, k)'
        PROVE  /\ u # t /\ thread'[u] = thread[u] /\ Refreshing(u, k) /\ At(u, "refresh")
               /\ thread[u].gen \in Nat
    <3>1. u # t
      BY <1>1, <2>5 DEF Rests, Refreshing
    <3>2. thread'[u] = thread[u] /\ Refreshing(u, k)
      BY <1>2, <2>5, <3>1 DEF Refreshing, On
    <3>3. ~At(u, "persist")
      <4>1. SUFFICES ASSUME At(u, "persist")
                     PROVE  FALSE
        OBVIOUS
      <4>2. Behind(u, t, k) /\ On(u) = k
        BY <3>2 DEF Tokens, Refreshing
      <4>3. thread[t].gen < current[k]
        BY <2>1, <3>1, <4>1, <4>2 DEF Behind, Refreshing, At
      <4>4. QED BY <2>1, <2>3, <4>3
    <3>4. QED BY <3>1, <3>2, <3>3, FieldsOf DEF Refreshing, At
  <2>6. ASSUME NEW u \in Threads, Refreshing(u, k)'
        PROVE  Holds(u, k)'
    <3>1. Holds(u, k) /\ At(u, "refresh") /\ thread'[u] = thread[u] /\ thread[u].gen \in Nat
      BY <2>5, <2>6 DEF Tokens
    <3>2. QED BY <1>1, <2>2, <2>3, <3>1 DEF Holds, At
  <2>7. \A u, v \in Threads : Behind(u, v, k)'
    <3>1. ASSUME NEW u \in Threads
          PROVE  ~(At(u, "persist") /\ On(u) = k)'
      BY <2>5 DEF Refreshing, At
    <3>2. QED BY <3>1 DEF Behind
  <2>8. QED BY <2>4, <2>6, <2>7 DEF Tokens
<1>4. CASE ~answered /\ ~At(t, "persist")
  <2>1. UNCHANGED <<current, severed>>
    BY <1>4 DEF Fail
  <2>2. QED BY <1>1, <1>4, <2>1, TokensAside DEF Rests
<1>5. CASE ~answered /\ At(t, "persist")
  <2>1. UNCHANGED current /\ (Rotating(k) => k \in severed') /\ severed \subseteq severed'
    BY <1>5 DEF Fail
  <2>2. status[k] \in {"connected", "deleted"}
    BY <1>5 DEF Tokens, Refreshing, Holds, At
  <2>3. TokenOf(k)'
    <3>1. CASE Rotating(k)
      BY <1>1, <2>1, <2>2, <3>1 DEF Tokens, TokenOf, Rotating
    <3>2. CASE ~Rotating(k)
      <4>1. stored[k] = 0 /\ current[k] = 0
        BY <3>2 DEF Tokens, TokenOf, Typed, Rows
      <4>2. QED BY <1>1, <2>1, <3>2, <4>1 DEF Tokens, TokenOf, Rotating
    <3>3. QED BY <3>1, <3>2
  <2>4. stored'[k] \in Nat /\ stored'[k] <= stored[k]
    BY <1>1 DEF Typed, Rows
  <2>5. QED BY <1>1, <2>1, <2>2, <2>3, <2>4, TokensLeft DEF Rests
<1>6. QED BY <1>3, <1>4, <1>5

LEMMA TokensStay ==
  ASSUME Typed, NEW k \in Connectors, Tokens(k), Next
  PROVE  Tokens(k)'
<1>1. ASSUME NEW j \in Connectors, Change(j)
      PROVE  Tokens(k)'
  BY <1>1, TokensChange
<1>2. CASE Cycle
  BY <1>2 DEF Cycle, tokens, Tokens, TokenOf, Holds, Behind, Refreshing, Persisting, At, On, Rotating
<1>3. ASSUME NEW t \in Threads, NEW j \in Connectors, NEW op \in Ops, Starting(t, j, op)
      PROVE  Tokens(k)'
  <2>1. Starts(t, j) /\ UNCHANGED <<status, tokens>> /\ ~At(t, "persist")
    BY <1>3, StartingStarts DEF Starting, NextDue, Arrive, At
  <2>2. UNCHANGED <<status, stored, current, expired, severed>>
    BY <2>1 DEF tokens
  <2>3. Only(t) /\ thread'[t].pc \notin {"refresh", "persist"}
    BY <2>1 DEF Starts
  <2>4. QED BY <2>1, <2>2, <2>3, TokensAside
<1>4. ASSUME NEW t \in Threads, Step(t) \/ \E answered \in BOOLEAN : Fail(t, answered)
      PROVE  Tokens(k)'
  <2>1. CASE On(t) = k
    BY <1>4, <2>1, TokensOwnStep, TokensOwnFail
  <2>2. CASE On(t) # k
    <3>1. /\ Only(t)
          /\ thread'[t].pc \in {"refresh", "persist"} => thread'[t].on # k
      BY <1>4, <2>2, StepMoves DEF Moves, Rests, Starts
    <3>2. /\ status'[k] = status[k] /\ stored'[k] = stored[k] /\ current'[k] = current[k]
          /\ k \in expired' <=> k \in expired
          /\ k \in severed' <=> k \in severed
      BY <1>4, <2>2, OthersKept
    <3>3. QED BY <2>2, <3>1, <3>2, TokensAside
  <2>3. QED BY <2>1, <2>2
<1>5. QED BY <1>1, <1>2, <1>3, <1>4, Kinds

----------------------------------------------------------------------------
(* What was imported stays, and while the connector does so does its       *)
(* mirror; where the row is not deleted or written, the cursor stays too.  *)
Grows(k) ==
  /\ imported[k] \subseteq imported'[k]
  /\ status'[k] # "deleted" => mirror[k] \subseteq mirror'[k]

LEMMA ImportsGrow ==
  ASSUME Typed, Next, NEW k \in Connectors
  PROVE  Grows(k)
<1>1. ASSUME NEW j \in Connectors, Change(j)
      PROVE  Grows(k)
  BY <1>1 DEF Change, Ask, Lapse, Callback, NotExchanged, Create, StoreToken, Delete, Post, Expire,
              Become, Cascade, Typed, Rows, Grows, imports
<1>2. CASE Cycle
  BY <1>2 DEF Cycle, Grows, imports
<1>3. ASSUME NEW t \in Threads, NEW j \in Connectors, NEW op \in Ops, Starting(t, j, op)
      PROVE  Grows(k)
  BY <1>3, StartingStarts DEF Grows, imports
<1>4. ASSUME NEW t \in Threads, Step(t)
      PROVE  Grows(k)
  <2>1. CASE Mirror(t)
    BY <2>1 DEF Mirror, Grows, Typed, Rows
  <2>2. CASE Add(t)
    BY <2>2 DEF Add, Grows, Typed, Rows
  <2>3. CASE DeleteRevoked(t)
    BY <2>3 DEF DeleteRevoked, Cascade, Typed, Rows, Grows
  <2>4. QED
    BY <1>4, <2>1, <2>2, <2>3 DEF Step, ReadCursor, ReadBundle, Refresh, Persist, Fetch, FetchRefused,
       Revoke, Find, WriteCursor, Grows, imports
<1>5. ASSUME NEW t \in Threads, NEW answered \in BOOLEAN, Fail(t, answered)
      PROVE  Grows(k)
  BY <1>5 DEF Fail, Grows, imports
<1>6. QED BY <1>1, <1>2, <1>3, <1>4, <1>5, Kinds

(* A thread whose record stays keeps its page.                             *)
LEMMA PageKept ==
  ASSUME Typed, Next, NEW u \in Threads, thread'[u] = thread[u], PageOf(u)
  PROVE  PageOf(u)'
<1>1. SUFFICES ASSUME thread[u].pc \in Importing \cup {"write"}, Exists(u)'
               PROVE  PageOf(u)'
  BY DEF PageOf
<1>2. On(u) \in Connectors /\ On(u)' = On(u) /\ Doc(u)' = Doc(u)
  BY <1>1 DEF Typed, Working, Importing, At, On, Doc
<1>3. Exists(u)
  BY <1>1, <1>2, DeletedStays DEF Exists
<1>4. Grows(On(u)) /\ status'[On(u)] # "deleted"
  BY <1>1, <1>2, ImportsGrow DEF Exists
<1>5. mirror[On(u)] \subseteq mirror'[On(u)] /\ imported[On(u)] \subseteq imported'[On(u)]
  BY <1>4 DEF Grows
<1>6. QED BY <1>1, <1>2, <1>3, <1>5 DEF PageOf, InHand

(* A document goes from the page into the mirror and the imported ones.    *)
LEMMA PageOwnStep ==
  ASSUME Typed, PagesHeld, NEW t \in Threads, Step(t)
  PROVE  PageOf(t)'
<1>1. ASSUME Rests(t)
      PROVE  PageOf(t)'
  BY <1>1 DEF Rests, PageOf, Importing
<1>2. ASSUME NEW pc, NEW gen, NEW at, NEW page, NEW late, Is(t, pc, gen, at, page, late),
             pc \notin Importing \cup {"write"}
      PROVE  PageOf(t)'
  BY <1>2 DEF Is, PageOf
<1>3. PageOf(t)
  BY DEF PagesHeld
<1>4. CASE ReadCursor(t)
  BY <1>1, <1>2, <1>4, ReadCursorIs DEF Importing
<1>5. CASE ReadBundle(t)
  BY <1>1, <1>2, <1>5, ReadBundleIs DEF Importing, Fetches
<1>6. CASE Refresh(t)
  BY <1>1, <1>2, <1>6, RefreshIs DEF Importing
<1>7. CASE Persist(t)
  BY <1>1, <1>2, <1>7, TokenFetches, RaiseRests DEF Importing, Fetches, Persist
<1>8. CASE Fetch(t)
  <2>1. PICK top \in 0..MaxDocs :
          Is(t, NextPlace(Page(top)), thread[t].gen, Older(On(t), top), Page(top), thread[t].late)
    BY <1>8, FetchIs
  <2>2. thread'[t].pc \in {"mirror", "write"} /\ thread'[t].at = Older(On(t), top)
        /\ thread'[t].page = Page(top)
    BY <2>1, NextPlaceTyped DEF Is
  <2>3. Older(On(t), top) # 0 => \A n \in Docs :
          n > Older(On(t), top) /\ n <= Older(On(t), top) + PageSize => n \in Page(top)
    BY PageTyped
  <2>4. QED BY <2>2, <2>3 DEF PageOf, InHand
<1>9. CASE Mirror(t)
  <2>1. CASE ~Exists(t)
    BY <1>1, <1>9, <2>1, RaiseRests DEF Mirror
  <2>2. CASE Exists(t)
    <3>1. Goto(t, "find") /\ UNCHANGED <<status, imported>> /\ At(t, "mirror")
          /\ mirror' = [mirror EXCEPT ![On(t)] = @ \cup {Doc(t)}]
      BY <1>9, <2>2 DEF Mirror
    <3>2. Is(t, "find", thread[t].gen, thread[t].at, thread[t].page, thread[t].late)
      BY <3>1, GotoIs DEF Places
    <3>3. Doc(t)' = Doc(t) /\ On(t)' = On(t) /\ On(t) \in Connectors
      BY <3>1, <3>2 DEF Is, Doc, On, Typed, Working, At
    <3>4. Doc(t)' \in mirror'[On(t)'] /\ mirror[On(t)] \subseteq mirror'[On(t)]
      BY <3>1, <3>3 DEF Typed, Rows
    <3>5. ASSUME thread[t].at # 0, NEW n \in Docs, n > thread[t].at, n <= thread[t].at + PageSize
          PROVE  InHand(t, n)'
      <4>1. InHand(t, n)
        BY <1>3, <2>2, <3>1, <3>5 DEF PageOf, At, Importing
      <4>2. QED BY <3>1, <3>2, <3>3, <3>4, <4>1 DEF InHand, Is
    <3>6. thread'[t].at = thread[t].at
      BY <3>2 DEF Is
    <3>7. QED BY <3>4, <3>5, <3>6 DEF PageOf
  <2>3. QED BY <2>1, <2>2
<1>10. CASE Find(t)
  <2>1. At(t, "find") /\ UNCHANGED <<status, mirror, imported>>
    BY <1>10 DEF Find, imports
  <2>2. CASE /\ Doc(t) \in imported[On(t)]
             /\ Is(t, NextPlace(Rest(t)), thread[t].gen, thread[t].at, Rest(t), thread[t].late)
    <3>1. /\ thread'[t].pc \in {"mirror", "write"} /\ thread'[t].at = thread[t].at
          /\ thread'[t].page = Rest(t) /\ On(t)' = On(t)
      BY <2>2, NextPlaceTyped DEF Is, On
    <3>2. ASSUME Exists(t), thread[t].at # 0, NEW n \in Docs, n > thread[t].at,
                 n <= thread[t].at + PageSize
          PROVE  InHand(t, n)'
      <4>1. InHand(t, n) /\ Doc(t) \in mirror[On(t)]
        BY <1>3, <2>1, <3>2 DEF PageOf, At, Importing
      <4>2. QED BY <2>1, <2>2, <3>1, <4>1 DEF InHand, Rest
    <3>3. Exists(t)' <=> Exists(t)
      BY <2>1, <3>1 DEF Exists
    <3>4. QED BY <3>1, <3>2, <3>3 DEF PageOf
  <2>3. CASE Is(t, "add", thread[t].gen, thread[t].at, thread[t].page, thread[t].late)
    <3>1. /\ thread'[t].at = thread[t].at /\ thread'[t].page = thread[t].page
          /\ Doc(t)' = Doc(t) /\ On(t)' = On(t)
      BY <2>3 DEF Is, On, Doc
    <3>2. QED BY <1>3, <2>1, <3>1 DEF PageOf, InHand, Exists, At, Importing
  <2>4. QED BY <1>1, <1>10, <2>2, <2>3, FindIs
<1>11. CASE Add(t)
  <2>1. At(t, "add") /\ UNCHANGED <<status, mirror>> /\ On(t) \in Connectors
        /\ imported' = [imported EXCEPT ![On(t)] = @ \cup {Doc(t)}]
    BY <1>11 DEF Add, Typed, Working, At
  <2>2. /\ thread'[t].pc \in {"mirror", "write"} /\ thread'[t].at = thread[t].at
        /\ thread'[t].page = Rest(t) /\ On(t)' = On(t)
    BY <1>11, AddIs, NextPlaceTyped DEF Is, On
  <2>3. imported'[On(t)] = imported[On(t)] \cup {Doc(t)}
    BY <2>1 DEF Typed, Rows
  <2>4. ASSUME Exists(t), thread[t].at # 0, NEW n \in Docs, n > thread[t].at,
               n <= thread[t].at + PageSize
        PROVE  InHand(t, n)'
    <3>1. InHand(t, n) /\ Doc(t) \in mirror[On(t)]
      BY <1>3, <2>1, <2>4 DEF PageOf, At, Importing
    <3>2. QED BY <2>1, <2>2, <2>3, <3>1 DEF InHand, Rest
  <2>5. Exists(t)' <=> Exists(t)
    BY <2>1, <2>2 DEF Exists
  <2>6. QED BY <2>2, <2>4, <2>5 DEF PageOf
<1>12. CASE Revoke(t)
  <2>1. Is(t, "delete", thread[t].gen, thread[t].at, thread[t].page, thread[t].late)
    BY <1>12, GotoIs DEF Revoke, Places
  <2>2. QED BY <1>2, <2>1 DEF Importing
<1>13. CASE FetchRefused(t) \/ WriteCursor(t) \/ DeleteRevoked(t)
  BY <1>1, <1>13, RaiseRests DEF FetchRefused, WriteCursor, DeleteRevoked
<1>14. QED
  BY <1>4, <1>5, <1>6, <1>7, <1>8, <1>9, <1>10, <1>11, <1>12, <1>13 DEF Step

LEMMA PagesStay ==
  ASSUME Typed, PagesHeld, Next
  PROVE  PagesHeld'
<1>1. ASSUME NEW u \in Threads, thread'[u] = thread[u]
      PROVE  PageOf(u)'
  BY <1>1, PageKept DEF PagesHeld
<1>2. ASSUME NEW t \in Threads, Only(t), PageOf(t)'
      PROVE  PagesHeld'
  BY <1>1, <1>2 DEF Only, PagesHeld
<1>3. CASE UNCHANGED thread
  BY <1>1, <1>3 DEF PagesHeld
<1>4. ASSUME NEW k \in Connectors, Change(k)
      PROVE  PagesHeld'
  BY <1>3, <1>4, ChangeKeepsThreads
<1>5. ASSUME NEW t \in Threads, NEW k \in Connectors, NEW op \in Ops, Starting(t, k, op)
      PROVE  PagesHeld'
  BY <1>2, <1>5, StartingStarts DEF Starts, PageOf, Importing
<1>6. ASSUME NEW t \in Threads, NEW answered \in BOOLEAN, Fail(t, answered)
      PROVE  PagesHeld'
  BY <1>2, <1>6, RaiseRests DEF Fail, Rests, PageOf, Importing
<1>7. ASSUME NEW t \in Threads, Step(t)
      PROVE  PagesHeld'
  BY <1>2, <1>7, StepMoves, PageOwnStep DEF Moves
<1>8. QED BY <1>3, <1>4, <1>5, <1>6, <1>7, Kinds DEF Cycle

NotSkipped(k) ==
  cursor[k] # 0 =>
    \A n \in Docs : n > cursor[k] /\ n <= cursor[k] + PageSize => n \in mirror[k] \cap imported[k]

LEMMA NotSkippedStays ==
  ASSUME Typed, PagesHeld, Next, NEW k \in Connectors, NotSkipped(k)
  PROVE  NotSkipped(k)'
<1>1. ASSUME cursor'[k] = cursor[k], mirror[k] \subseteq mirror'[k]
      PROVE  NotSkipped(k)'
  BY <1>1, ImportsGrow DEF NotSkipped, Grows
<1>2. ASSUME cursor'[k] = 0
      PROVE  NotSkipped(k)'
  BY <1>2 DEF NotSkipped
<1>3. ASSUME NEW j \in Connectors, Change(j)
      PROVE  NotSkipped(k)'
  <2>1. CASE Delete(j)
    BY <1>1, <1>2, <2>1 DEF Delete, Cascade, Typed, Rows
  <2>2. CASE ~Delete(j)
    <3>1. UNCHANGED imports
      BY <1>3, <2>2 DEF Change, Ask, Lapse, Callback, NotExchanged, Create, StoreToken, Post, Expire, Become
    <3>2. QED BY <1>1, <3>1 DEF imports
  <2>3. QED BY <2>1, <2>2
<1>4. CASE Cycle
  BY <1>1, <1>4 DEF Cycle, imports
<1>5. ASSUME NEW t \in Threads, NEW j \in Connectors, NEW op \in Ops, Starting(t, j, op)
      PROVE  NotSkipped(k)'
  BY <1>1, <1>5, StartingStarts DEF imports
<1>6. ASSUME NEW t \in Threads, Step(t)
      PROVE  NotSkipped(k)'
  <2>1. CASE WriteCursor(t)
    <3>1. UNCHANGED <<mirror, imported>> /\ At(t, "write") /\ thread[t].page = {}
      BY <2>1 DEF WriteCursor, Typed, Working
    <3>2. CASE Exists(t) /\ On(t) = k
      <4>1. cursor'[k] = thread[t].at
        BY <2>1, <3>2 DEF WriteCursor, Typed, Rows
      <4>2. thread[t].at # 0 =>
              \A n \in Docs : n > thread[t].at /\ n <= thread[t].at + PageSize => InHand(t, n)
        BY <3>1, <3>2 DEF PagesHeld, PageOf, At
      <4>3. QED BY <3>1, <3>2, <4>1, <4>2 DEF InHand, NotSkipped
    <3>3. CASE ~(Exists(t) /\ On(t) = k)
      BY <1>1, <2>1, <3>1, <3>3 DEF WriteCursor, Typed, Rows
    <3>4. QED BY <3>2, <3>3
  <2>2. CASE DeleteRevoked(t)
    BY <1>1, <1>2, <2>2 DEF DeleteRevoked, Cascade, Typed, Rows
  <2>3. CASE Mirror(t)
    BY <1>1, <2>3 DEF Mirror, Typed, Rows
  <2>4. QED
    BY <1>1, <1>6, <2>1, <2>2, <2>3 DEF Step, ReadCursor, ReadBundle, Refresh, Persist, Fetch,
       FetchRefused, Revoke, Find, Add, imports
<1>7. ASSUME NEW t \in Threads, NEW answered \in BOOLEAN, Fail(t, answered)
      PROVE  NotSkipped(k)'
  BY <1>1, <1>7 DEF Fail, imports
<1>8. QED BY <1>3, <1>4, <1>5, <1>6, <1>7, Kinds

----------------------------------------------------------------------------
(* The inductive invariant.                                                *)
SyncInv == Typed /\ Stopping /\ TokensHeld /\ NothingSkipped /\ PagesHeld

LEMMA SyncInit ==
  Init => SyncInv
<1> SUFFICES ASSUME Init
             PROVE  SyncInv
  OBVIOUS
<1>1. \A t \in Threads : thread[t] = Resting("idle")
  BY DEF Init
<1>2. "idle" \in Places
  BY DEF Places
<1>3. \A t \in Threads : /\ thread[t] \in Local /\ thread[t].late = 0
                         /\ thread[t].pc = "idle"
  BY <1>1, <1>2, RestingTyped
<1>4. Rows
  BY SizesAreNumbers, EverIsBounded, ExistingAreConnectors DEF Init, Rows, Stages
<1>5. Typed
  BY <1>3, <1>4 DEF Typed, Init, Working, At, Importing
<1>6. Stopping /\ PagesHeld
  BY <1>3 DEF Stopping, PagesHeld, PageOf, Importing
<1>7. TokensHeld
  BY <1>3 DEF TokensHeld, TokenOf, Holds, Behind, Refreshing, At, Init
<1>8. NothingSkipped
  BY DEF Init, NothingSkipped
<1>9. QED BY <1>5, <1>6, <1>7, <1>8 DEF SyncInv

LEMMA SyncStep ==
  SyncInv /\ [Next]_vars => SyncInv'
<1>1. ASSUME SyncInv, Next
      PROVE  SyncInv'
  <2>1. Typed' /\ Stopping' /\ PagesHeld'
    BY <1>1, TypedStays, StoppingStays, PagesStay DEF SyncInv
  <2>2. TokensHeld'
    BY <1>1, TokensStay DEF SyncInv, TokensHeld, Tokens
  <2>3. NothingSkipped'
    BY <1>1, NotSkippedStays DEF SyncInv, NothingSkipped, NotSkipped
  <2>4. QED BY <2>1, <2>2, <2>3 DEF SyncInv
<1>2. ASSUME SyncInv, UNCHANGED vars
      PROVE  SyncInv'
  BY <1>2 DEF SyncInv, Typed, Rows, Working, Stopping, TokensHeld, TokenOf, Holds, Behind, Refreshing,
     Persisting, NothingSkipped, PagesHeld, PageOf, InHand, Doc, Exists, At, On, vars
<1>3. QED BY <1>1, <1>2

(* The rows and the threads stay as they are described: a thread at work   *)
(* has a connector, and one that imports a document of a page.             *)
THEOREM SyncTyped == Spec => []Typed
<1>1. SyncInv => Typed
  BY DEF SyncInv
<1>2. QED BY <1>1, SyncInit, SyncStep, PTL DEF Spec

(* _page_ and sync: however many syncs of a connector overlap, fail or are *)
(* cut off, and whatever is posted in between, a cursor stands past no     *)
(* document that was not imported.                                         *)
THEOREM PagesInOrder == Spec => []NothingSkipped
<1>1. SyncInv => NothingSkipped
  BY DEF SyncInv
<1>2. QED BY <1>1, SyncInit, SyncStep, PTL DEF Spec

(* refresh_if_needed: however many callers refresh a bundle at once, the   *)
(* newest refresh token is the one that ends up stored, unless it was lost *)
(* before it was.                                                          *)
THEOREM RefreshTokenKept == Spec => []TokenKept
<1>1. SyncInv => TokenKept
  BY DEF SyncInv, TokensHeld, TokenOf, TokenKept
<1>2. QED BY <1>1, SyncInit, SyncStep, PTL DEF Spec

(* upsert_document: after a connector is deleted, each of its running      *)
(* syncs imports the one document it had in hand and no other.             *)
THEOREM DeleteStopsSyncs == Spec => []StopsAfterDelete
<1>1. SyncInv => StopsAfterDelete
  BY DEF SyncInv, Stopping, StopsAfterDelete, Typed, Local
<1>2. QED BY <1>1, SyncInit, SyncStep, PTL DEF Spec
=============================================================================
