------------------------- MODULE SharedFilesProofs -------------------------
(***************************************************************************)
(* Theorems of SharedFiles: type correctness for every set of operations,  *)
(* and, where versions are never deleted, that the version history is      *)
(* complete and no update is lost; of SharedFilesSerial: one request at a  *)
(* time, the bucket shows what the database holds.  At the end, theorems   *)
(* of Ontology, a component with no state in common with the others: what  *)
(* its links conform to and what its action log tells.                     *)
(***************************************************************************)
EXTENDS SharedFilesSerial, Ontology, FiniteSetTheorems, WellFoundedInduction, TLAPS

LEMMA FreshTyped == Fresh \in Local /\ Fresh.pc = "new"
  BY DEF Fresh, Local, Content, Ended

LEMMA InitTyped == Init => FileTypeOK
<1> SUFFICES ASSUME Init PROVE FileTypeOK
  OBVIOUS
<1>1. Fresh \in Local /\ Fresh.pc = "new"
  BY FreshTyped
<1>2. file \in File
  BY DEF Init, Created, File
<1>3. DOMAIN versions \subseteq Nat /\ \A v \in DOMAIN versions : versions[v] \in Content
  BY DEF Init, FirstVersion, Content
<1>4. /\ index \in [Tokens -> Content \cup {"absent"}]
      /\ snaps \in [Tokens -> SUBSET (Nat \X Content)]
  BY DEF Init
<1>5. \A r \in Requests : req[r] = Fresh
  BY DEF Init
<1>6. req \in [Requests -> Local]
  BY <1>1 DEF Init
<1>7. Fresh.pc \notin Mirroring
  BY <1>1 DEF Mirroring
<1>8. QED BY <1>2, <1>3, <1>4, <1>5, <1>6, <1>7 DEF FileTypeOK

(* A step replaces the locals of one request and keeps the rows typed.     *)
LEMMA StepTyped ==
  ASSUME FileTypeOK, NEW r \in Requests, NEW l \in Local, Become(r, l),
         l.pc \in Mirroring => l.token # None,
         file' \in File,
         DOMAIN versions' \subseteq Nat,
         \A v \in DOMAIN versions' : versions'[v] \in Content,
         index' \in [Tokens -> Content \cup {"absent"}],
         snaps' \in [Tokens -> SUBSET (Nat \X Content)]
  PROVE  FileTypeOK'
<1>1. /\ req' \in [Requests -> Local]
      /\ \A q \in Requests : req'[q].pc \in Mirroring => req'[q].token # None
  BY DEF FileTypeOK, Become
<1>2. QED BY <1>1 DEF FileTypeOK

(* The same when nothing but the locals changes.                           *)
LEMMA LocalStepTyped ==
  ASSUME FileTypeOK, NEW r \in Requests, NEW l \in Local, Become(r, l),
         l.pc \in Mirroring => l.token # None, UNCHANGED <<database, bucket>>
  PROVE  FileTypeOK'
<1>1. UNCHANGED <<file, versions, index, snaps>>
  BY DEF database, bucket
<1>2. QED BY <1>1, StepTyped DEF FileTypeOK

(* What the types say of the parts a step reads.                           *)
LEMMA Typed ==
  ASSUME FileTypeOK, NEW r \in Requests
  PROVE  /\ req[r] \in Local
         /\ req[r].n \in Nat /\ req[r].seen \in Nat
         /\ req[r].token \in Tokens \cup {None} /\ req[r].html \in Content
         /\ req[r].pc \in Mirroring => req[r].token \in Tokens
         /\ file \in File /\ file.current \in Nat
         /\ file.token \in Tokens \cup {None}
         /\ Numbers \subseteq Nat /\ \A v \in Numbers : versions[v] \in Content
         /\ r \in Content /\ r \in Tokens
BY DEF FileTypeOK, Local, File, Numbers, Content, Tokens

(* The rows of shared_file_versions stay typed.                            *)
LEMMA VersionsTyped ==
  ASSUME FileTypeOK, NEW n \in Nat, NEW c \in Content,
         versions' = With(n, c) \/ versions' = Without(n)
  PROVE  /\ DOMAIN versions' \subseteq Nat
         /\ \A v \in DOMAIN versions' : versions'[v] \in Content
  BY DEF FileTypeOK, With, Without, Numbers

(* The steps that only move a request on.                                  *)
LEMMA GotoTyped ==
  ASSUME FileTypeOK, NEW r \in Requests, UNCHANGED <<database, bucket>>,
         NEW pc \in InTransaction \cup Ended, Goto(r, pc)
  PROVE  FileTypeOK'
<1> DEFINE l == [req[r] EXCEPT !.pc = pc]
<1>1. l \in Local /\ l.pc = pc
  BY Typed DEF Local
<1>2. Become(r, l)
  BY DEF Goto
<1>3. l.pc \notin Mirroring
  BY <1>1 DEF InTransaction, Ended, Mirroring
<1> HIDE DEF l
<1>4. QED BY <1>1, <1>2, <1>3, LocalStepTyped DEF Become

(* A request that starts in a transaction, or ends at once.                *)
LEMMA StartTyped ==
  ASSUME FileTypeOK, NEW r \in Requests, UNCHANGED <<database, bucket>>,
         NEW pc \in InTransaction \cup Ended, NEW op \in Operations,
         NEW n \in Nat, NEW seen \in Nat, NEW token \in Tokens \cup {None},
         \/ Become(r, [Fresh EXCEPT !.pc = pc, !.op = op, !.n = n])
         \/ Become(r, [Fresh EXCEPT !.pc = pc, !.op = op, !.n = n, !.seen = seen])
         \/ Become(r, [Fresh EXCEPT !.pc = pc, !.op = op, !.seen = seen])
         \/ Become(r, [Fresh EXCEPT !.pc = pc, !.op = op, !.token = token])
  PROVE  FileTypeOK'
<1>1. PICK l \in Local : l.pc = pc /\ Become(r, l)
  <2>1. /\ [Fresh EXCEPT !.pc = pc, !.op = op, !.n = n, !.seen = seen] \in Local
        /\ [Fresh EXCEPT !.pc = pc, !.op = op, !.n = n, !.seen = seen].pc = pc
    BY FreshTyped DEF Local
  <2>2. /\ [Fresh EXCEPT !.pc = pc, !.op = op, !.seen = seen] \in Local
        /\ [Fresh EXCEPT !.pc = pc, !.op = op, !.seen = seen].pc = pc
    BY FreshTyped DEF Local
  <2>3. /\ [Fresh EXCEPT !.pc = pc, !.op = op, !.token = token] \in Local
        /\ [Fresh EXCEPT !.pc = pc, !.op = op, !.token = token].pc = pc
    BY FreshTyped DEF Local
  <2>4. /\ [Fresh EXCEPT !.pc = pc, !.op = op, !.n = n] \in Local
        /\ [Fresh EXCEPT !.pc = pc, !.op = op, !.n = n].pc = pc
    BY FreshTyped DEF Local
  <2>5. QED BY <2>1, <2>2, <2>3, <2>4 DEF Become
<1>2. l.pc \notin Mirroring
  BY <1>1 DEF InTransaction, Ended, Mirroring
<1>3. QED BY <1>1, <1>2, LocalStepTyped DEF Become

(* The update operation keeps the types.                                   *)
LEMMA UpdateTyped ==
  ASSUME FileTypeOK, NEW r \in Requests,
         UpdateRead(r) \/ UpdateInsert(r) \/ UpdateCommit(r)
  PROVE  FileTypeOK'
<1>2. CASE UpdateRead(r)
  <2>1. /\ "update" \in Operations /\ UNCHANGED <<database, bucket>>
        /\ Become(r, [Fresh EXCEPT !.pc = "insert", !.op = "update",
                                   !.n = file.current + 1])
    BY <1>2 DEF UpdateRead, Start
  <2>2. file.current + 1 \in Nat
    BY Typed
  <2>3. QED BY <2>1, <2>2, StartTyped DEF Become, InTransaction
<1>3. CASE UpdateInsert(r)
  <2>1. QED
    BY <1>3, GotoTyped DEF UpdateInsert, InTransaction, Ended
<1>4. CASE UpdateCommit(r)
  <2> DEFINE pc == IF file.visibility = "published" /\ file.token # None
                   THEN "put snapshot" ELSE "done"
             l == [req[r] EXCEPT !.pc = pc, !.token = file.token, !.html = r]
  <2>1. /\ pc \in Mirroring \cup Ended
        /\ pc \in Mirroring => file.token # None
    BY DEF Mirroring, Ended
  <2>2. l \in Local /\ l.pc = pc /\ l.token = file.token
    BY Typed, <2>1 DEF Local
  <2>3. Become(r, l)
    BY <1>4 DEF UpdateCommit
  <2>4. file' \in File
    BY Typed, <1>4 DEF UpdateCommit, File
  <2>5. /\ DOMAIN versions' \subseteq Nat
        /\ \A v \in DOMAIN versions' : versions'[v] \in Content
    BY Typed, <1>4, VersionsTyped DEF UpdateCommit
  <2>6. /\ index' \in [Tokens -> Content \cup {"absent"}]
        /\ snaps' \in [Tokens -> SUBSET (Nat \X Content)]
    BY <1>4 DEF UpdateCommit, bucket, FileTypeOK
  <2> HIDE DEF l, pc
  <2>7. QED
    BY <2>1, <2>2, <2>3, <2>4, <2>5, <2>6, StepTyped DEF Become
<1>5. QED BY <1>2, <1>3, <1>4

(* delete_version keeps the types.                                         *)
LEMMA DeleteTyped ==
  ASSUME FileTypeOK, NEW r \in Requests,
         \/ \E v \in Numbers : DeleteRead(r, v)
         \/ DeleteCount(r) \/ DeleteRow(r) \/ DeleteMax(r) \/ DeleteCommit(r)
  PROVE  FileTypeOK'
<1>1. ASSUME NEW v \in Numbers, DeleteRead(r, v)
      PROVE  FileTypeOK'
  <2>1. v \in Nat /\ "delete" \in Operations
    BY <1>1, Typed DEF DeleteRead, Start
  <2> DEFINE pc == IF Active THEN "count" ELSE "done"
  <2>2. pc \in InTransaction \cup Ended
    BY DEF InTransaction, Ended
  <2>3. /\ Become(r, [Fresh EXCEPT !.pc = pc, !.op = "delete", !.n = v,
                                   !.seen = file.current])
        /\ UNCHANGED <<database, bucket>>
    BY <1>1 DEF DeleteRead
  <2> HIDE DEF pc
  <2>4. QED BY <2>1, <2>2, <2>3, Typed, StartTyped DEF Become
<1>2. CASE DeleteCount(r)
  BY <1>2, GotoTyped DEF DeleteCount, InTransaction, Ended
<1>3. CASE DeleteRow(r)
  <2>1. CASE UNCHANGED versions
    <3>1. UNCHANGED <<database, bucket>>
      BY <1>3, <2>1 DEF DeleteRow, database
    <3>2. Goto(r, "done") \/ Goto(r, "max")
      BY <1>3 DEF DeleteRow
    <3>3. QED BY <3>1, <3>2, GotoTyped DEF InTransaction, Ended
  <2>2. CASE versions' = Without(req[r].n) /\ Goto(r, "done")
    <3> DEFINE l == [req[r] EXCEPT !.pc = "done"]
    <3>1. l \in Local /\ l.pc \notin Mirroring
      BY Typed DEF Local, Ended, Mirroring
    <3>2. Become(r, l)
      BY <2>2 DEF Goto
    <3>3. /\ DOMAIN versions' \subseteq Nat
          /\ \A v \in DOMAIN versions' : versions'[v] \in Content
      BY Typed, <2>2 DEF Without
    <3>4. UNCHANGED <<file, index, snaps>>
      BY <1>3 DEF DeleteRow, bucket
    <3> HIDE DEF l
    <3>5. QED BY <3>1, <3>2, <3>3, <3>4, StepTyped DEF FileTypeOK, Become
  <2>3. QED BY <1>3, <2>1, <2>2 DEF DeleteRow
<1>4. CASE DeleteMax(r)
  <2>1. PICK m \in (Numbers \ {req[r].n}) \cup {1} :
          Become(r, [req[r] EXCEPT !.pc = "lower", !.seen = m])
    BY <1>4 DEF DeleteMax
  <2> DEFINE l == [req[r] EXCEPT !.pc = "lower", !.seen = m]
  <2>2. m \in Nat
    BY Typed
  <2>3. l \in Local /\ l.pc \notin Mirroring
    BY Typed, <2>2 DEF Local, InTransaction, Mirroring
  <2>4. Become(r, l) /\ UNCHANGED <<database, bucket>>
    BY <1>4, <2>1 DEF DeleteMax
  <2> HIDE DEF l
  <2>5. QED BY <2>3, <2>4, LocalStepTyped DEF Become
<1>5. CASE DeleteCommit(r)
  <2> DEFINE pc == IF file.visibility = "published" /\ file.token # None
                   THEN "get" ELSE "done"
             l == [req[r] EXCEPT !.pc = pc, !.token = file.token]
  <2>1. /\ pc \in Mirroring \cup Ended
        /\ pc \in Mirroring => file.token # None
    BY DEF Mirroring, Ended
  <2>2. l \in Local /\ l.pc = pc /\ l.token = file.token
    BY Typed, <2>1 DEF Local
  <2>3. Become(r, l)
    BY <1>5 DEF DeleteCommit
  <2>4. file' \in File
    BY Typed, <1>5 DEF DeleteCommit, File
  <2>5. /\ DOMAIN versions' \subseteq Nat
        /\ \A v \in DOMAIN versions' : versions'[v] \in Content
    BY Typed, <1>5 DEF DeleteCommit, Without
  <2>6. UNCHANGED <<index, snaps>>
    BY <1>5 DEF DeleteCommit, bucket
  <2> HIDE DEF l, pc
  <2>7. QED
    BY <2>1, <2>2, <2>3, <2>4, <2>5, <2>6, StepTyped DEF Become, FileTypeOK
<1>6. QED BY <1>1, <1>2, <1>3, <1>4, <1>5

(* publish keeps the types.                                                *)
LEMMA PublishTyped ==
  ASSUME FileTypeOK, NEW r \in Requests,
         PublishRead(r) \/ PublishCommit(r) \/ MirrorGet(r)
  PROVE  FileTypeOK'
<1>1. CASE PublishRead(r)
  <2> DEFINE pc == IF Active THEN "publish" ELSE "done"
             seen == IF file.token = None THEN 1 ELSE 0
  <2>1. /\ "publish" \in Operations /\ UNCHANGED <<database, bucket>>
        /\ Become(r, [Fresh EXCEPT !.pc = pc, !.op = "publish", !.seen = seen])
    BY <1>1 DEF PublishRead, Start
  <2>2. pc \in InTransaction \cup Ended /\ seen \in Nat
    BY DEF InTransaction, Ended
  <2> HIDE DEF pc, seen
  <2>3. QED BY <2>1, <2>2, StartTyped DEF Become
<1>2. CASE PublishCommit(r)
  <2> DEFINE token == IF req[r].seen = 1 THEN r ELSE file.token
             pc == IF token # None THEN "get" ELSE "done"
             l == [req[r] EXCEPT !.pc = pc, !.token = token, !.n = file.current]
  <2>1. token \in Tokens \cup {None}
    BY Typed
  <2>2. /\ pc \in Mirroring \cup Ended
        /\ pc \in Mirroring => token # None
    BY DEF Mirroring, Ended
  <2>3. l \in Local /\ l.pc = pc /\ l.token = token
    BY <2>1, <2>2, Typed DEF Local
  <2>4. Become(r, l) /\ UNCHANGED <<versions, index, snaps>>
    BY <1>2 DEF PublishCommit, bucket
  <2>5. file' \in File
    BY <1>2, <2>1, Typed DEF PublishCommit, File
  <2> HIDE DEF l, token, pc
  <2>6. QED BY <2>2, <2>3, <2>4, <2>5, StepTyped DEF Become, FileTypeOK
<1>3. CASE MirrorGet(r)
  <2> DEFINE again == req[r].op = "delete"
             token == IF again THEN file.token ELSE req[r].token
             pc == IF Active /\ token # None THEN "put snapshot" ELSE "done"
             n == IF again THEN file.current ELSE req[r].n
             html == IF file.current \in Numbers THEN versions[file.current]
                                                 ELSE "blank"
             l == [req[r] EXCEPT !.pc = pc, !.n = n, !.token = token, !.html = html]
  <2>1. token \in Tokens \cup {None} /\ n \in Nat
    BY Typed
  <2>2. html \in Content
    BY Typed DEF Content
  <2>3. /\ pc \in Mirroring \cup Ended
        /\ pc \in Mirroring => token # None
    BY DEF Mirroring, Ended
  <2>4. Become(r, l) /\ UNCHANGED <<database, bucket>>
    BY <1>3 DEF MirrorGet
  <2> HIDE DEF token, pc, n, html
  <2>5. l \in Local /\ l.pc = pc /\ l.token = token
    BY <2>1, <2>2, <2>3, Typed DEF Local
  <2> HIDE DEF l
  <2>6. QED BY <2>3, <2>4, <2>5, LocalStepTyped DEF Become
<1>4. QED BY <1>1, <1>2, <1>3

(* The bucket stays typed.                                                 *)
LEMMA MirrorTyped ==
  ASSUME FileTypeOK, NEW r \in Requests,
         PutSnapshot(r) \/ PutIndex(r) \/ Wipe(r) \/ BucketFails(r)
  PROVE  FileTypeOK'
<1> DEFINE l == [req[r] EXCEPT !.pc = "done"]
           m == [req[r] EXCEPT !.pc = "put index"]
<1>1. l \in Local /\ l.pc \notin Mirroring
  BY Typed DEF Local, Ended, Mirroring
<1>2. m \in Local /\ m.token = req[r].token
  BY Typed DEF Local, Mirroring
<1>3. CASE PutSnapshot(r)
  <2>1. req[r].token \in Tokens
    BY <1>3, Typed DEF PutSnapshot, Mirroring
  <2>2. snaps' \in [Tokens -> SUBSET (Nat \X Content)]
    <3> DEFINE entry == <<req[r].n, req[r].html>>
               rest == {s \in snaps[req[r].token] : s[1] # req[r].n}
    <3>1. entry \in Nat \X Content
      BY Typed
    <3>2. rest \in SUBSET (Nat \X Content)
      BY <2>1 DEF FileTypeOK
    <3>3. snaps' = [snaps EXCEPT ![req[r].token] = rest \cup {entry}]
      BY <1>3 DEF PutSnapshot
    <3> HIDE DEF entry, rest
    <3>4. rest \cup {entry} \in SUBSET (Nat \X Content)
      BY <3>1, <3>2
    <3>5. QED BY <3>3, <3>4 DEF FileTypeOK
  <2>3. Become(r, m) /\ UNCHANGED <<file, versions, index>>
    BY <1>3 DEF PutSnapshot, Goto, database
  <2> HIDE DEF m
  <2>4. QED
    BY <1>2, <2>1, <2>2, <2>3, StepTyped, RequestsAssumption
    DEF Become, FileTypeOK, Tokens
<1>4. CASE PutIndex(r) \/ Wipe(r)
  <2>1. req[r].token \in Tokens
    BY <1>4, Typed DEF PutIndex, Wipe, Mirroring
  <2>2. /\ snaps' \in [Tokens -> SUBSET (Nat \X Content)]
        /\ index' \in [Tokens -> Content \cup {"absent"}]
    BY <1>4, Typed DEF PutIndex, Wipe, FileTypeOK
  <2>3. Become(r, l) /\ UNCHANGED <<file, versions>>
    BY <1>4 DEF PutIndex, Wipe, Goto, database
  <2> HIDE DEF l
  <2>4. QED BY <1>1, <2>2, <2>3, StepTyped DEF Become, FileTypeOK
<1>5. CASE BucketFails(r)
  BY <1>5, GotoTyped DEF BucketFails, Ended
<1>6. QED BY <1>3, <1>4, <1>5

(* unpublish, archive and aborted requests keep the types.                 *)
LEMMA RestTyped ==
  ASSUME FileTypeOK, NEW r \in Requests,
         Unpublish(r) \/ ArchiveRead(r) \/ ArchiveCommit(r) \/ Abort(r)
  PROVE  FileTypeOK'
<1>1. CASE Unpublish(r)
  <2> DEFINE pc == IF file.token # None THEN "wipe" ELSE "done"
             l == [Fresh EXCEPT !.pc = pc, !.op = "unpublish", !.token = file.token]
  <2>1. /\ pc \in Mirroring \cup Ended
        /\ pc \in Mirroring => file.token # None
    BY DEF Mirroring, Ended
  <2>2. "unpublish" \in Operations
    BY <1>1 DEF Unpublish, Start
  <2>3. l \in Local /\ l.pc = pc /\ l.token = file.token
    BY <2>1, <2>2, FreshTyped, Typed DEF Local
  <2>4. Become(r, l) /\ UNCHANGED <<versions, index, snaps>>
    BY <1>1 DEF Unpublish, bucket
  <2>5. file' \in File
    BY <1>1, Typed DEF Unpublish, File
  <2> HIDE DEF l, pc
  <2>6. QED BY <2>1, <2>3, <2>4, <2>5, StepTyped DEF Become, FileTypeOK
<1>2. CASE ArchiveRead(r)
  <2> DEFINE token == IF Active THEN file.token ELSE None
  <2>1. token \in Tokens \cup {None} /\ "archive" \in Operations
    BY <1>2, Typed DEF ArchiveRead, Start
  <2>2. /\ Become(r, [Fresh EXCEPT !.pc = "archive", !.op = "archive",
                                   !.token = token])
        /\ UNCHANGED <<database, bucket>>
    BY <1>2 DEF ArchiveRead
  <2> HIDE DEF token
  <2>3. QED BY <2>1, <2>2, StartTyped DEF Become, InTransaction
<1>3. CASE ArchiveCommit(r)
  <2> DEFINE pc == IF Active /\ req[r].token # None THEN "wipe" ELSE "done"
             l == [req[r] EXCEPT !.pc = pc]
  <2>1. /\ pc \in Mirroring \cup Ended
        /\ pc \in Mirroring => req[r].token # None
    BY DEF Mirroring, Ended
  <2>2. l \in Local /\ l.pc = pc /\ l.token = req[r].token
    BY <2>1, Typed DEF Local
  <2>3. Become(r, l) /\ UNCHANGED <<versions, index, snaps>>
    BY <1>3 DEF ArchiveCommit, Goto, bucket
  <2>4. file' \in File
    BY <1>3, Typed DEF ArchiveCommit, File
  <2> HIDE DEF l, pc
  <2>5. QED BY <2>1, <2>2, <2>3, <2>4, StepTyped DEF Become, FileTypeOK
<1>4. CASE Abort(r)
  BY <1>4, GotoTyped DEF Abort, Ended
<1>5. QED BY <1>1, <1>2, <1>3, <1>4

(* Every reachable state is well typed, whatever operations run at once.   *)
THEOREM TypeCorrect == Spec => []FileTypeOK
<1>1. FileTypeOK /\ [Next]_vars => FileTypeOK'
  <2>1. ASSUME FileTypeOK, NEW r \in Requests, Step(r) PROVE FileTypeOK'
    BY <2>1, UpdateTyped, DeleteTyped, PublishTyped, MirrorTyped, RestTyped
       DEF Step, Updating, Deleting, Publishing, Archiving, Mirror
  <2>2. ASSUME FileTypeOK, UNCHANGED vars PROVE FileTypeOK'
    BY <2>2 DEF FileTypeOK, vars
  <2>3. QED BY <2>1, <2>2 DEF Next
<1>2. QED BY <1>1, InitTyped, PTL DEF Spec

----------------------------------------------------------------------------
(* The version history without deletions.                                  *)

(* Gapless alone is not inductive: it needs to know that the one  *)
(* update that has inserted a row inserted the next number.                *)
History == FileTypeOK /\ Gapless /\ UpdatesKept /\ UpdatesInHand

(* Locals that claim nothing about the history but what is already in it.  *)
Harmless(r, l) ==
  /\ l.pc \notin {"insert", "bump"}
  /\ l.pc \in {"get", "publish", "archive"} => l.op # "update"
  /\ l.pc \in {"count", "delete", "max", "lower"} => l.op = "delete"
  /\ l.op = "update" /\ l.pc \in Mirroring \cup {"done"} =>
       l.n \in Numbers /\ versions[l.n] = r

LEMMA HarmlessStep ==
  ASSUME History, FileTypeOK', NEW r \in Requests, NEW l \in Local, Become(r, l),
         Harmless(r, l), UNCHANGED versions, file'.current = file.current
  PROVE  History'
<1>1. /\ req'[r] = l
      /\ \A q \in Requests : q # r => req'[q] = req[q]
  BY DEF Become, History, FileTypeOK
<1>2. Gapless'
  BY DEF History, Gapless, Numbers
<1>3. UpdatesKept'
  BY <1>1 DEF History, UpdatesKept, Returned, Harmless, Numbers
<1>4. UpdatesInHand'
  BY <1>1 DEF History, UpdatesInHand, Harmless
<1>5. QED BY <1>2, <1>3, <1>4 DEF History

(* Requests that move on without touching the history.                     *)
LEMMA HarmlessGoto ==
  ASSUME History, FileTypeOK', NEW r \in Requests, UNCHANGED versions,
         file'.current = file.current,
         NEW pc \in {"failed", "done", "put index", "wipe"}, Goto(r, pc),
         req[r].op # "update" \/ pc = "failed" \/ req[r].pc \in Mirroring
  PROVE  History'
<1> DEFINE l == [req[r] EXCEPT !.pc = pc]
<1>1. /\ l \in Local /\ l.pc = pc /\ l.op = req[r].op /\ l.n = req[r].n
  BY Typed DEF History, Local, Mirroring, Ended
<1>2. Become(r, l)
  BY DEF Goto
<1>3. Harmless(r, l)
  BY <1>1 DEF Harmless, History, UpdatesKept, Returned, Mirroring
<1> HIDE DEF l
<1>4. QED BY <1>1, <1>2, <1>3, HarmlessStep DEF Become

(* An update keeps the history complete.                                   *)
LEMMA UpdateHistory ==
  ASSUME History, FileTypeOK', NEW r \in Requests,
         UpdateRead(r) \/ UpdateInsert(r) \/ UpdateCommit(r)
  PROVE  History'
<1>1. /\ \A q \in Requests : req[q].n \in Nat
      /\ req \in [Requests -> Local] /\ file.current \in Nat
  BY Typed DEF History, FileTypeOK
<1>2. CASE UpdateRead(r)
  <2>1. /\ req'[r].pc = "insert" /\ req'[r].op = "update"
        /\ req'[r].n = file.current + 1
        /\ \A q \in Requests : q # r => req'[q] = req[q]
        /\ UNCHANGED <<file, versions>>
    BY <1>1, <1>2, FreshTyped DEF UpdateRead, Become, Fresh, database
  <2>2. Gapless' /\ UpdatesKept'
    BY <2>1 DEF History, Gapless, UpdatesKept, Returned, Numbers, Mirroring
  <2>3. UpdatesInHand'
    BY <1>1, <2>1 DEF History, UpdatesInHand
  <2>4. QED BY <2>2, <2>3 DEF History
<1>3. CASE UpdateInsert(r)
  <2>1. CASE req[r].n \in Numbers
    <3>1. Goto(r, "failed") /\ UNCHANGED <<file, versions>>
      BY <1>3, <2>1 DEF UpdateInsert, database
    <3>2. QED BY <3>1, HarmlessGoto
  <2>2. CASE req[r].n \notin Numbers
    <3>1. /\ req'[r].pc = "bump" /\ req'[r].op = req[r].op
          /\ req'[r].n = req[r].n
          /\ \A q \in Requests : q # r => req'[q] = req[q]
          /\ UNCHANGED <<file, versions>>
      BY <1>1, <1>3, <2>2 DEF UpdateInsert, Goto, Become, database, Local
    <3>2. req[r].n = file.current + 1 /\ req[r].op = "update"
      BY <1>1, <1>3, <2>2
      DEF UpdateInsert, History, UpdatesInHand, Gapless
    <3>3. \A q \in Requests : req[q].pc # "bump"
      BY <1>3, <3>2 DEF UpdateInsert, Inserted, History, UpdatesInHand
    <3>4. Gapless' /\ UpdatesKept'
      BY <3>1 DEF History, Gapless, UpdatesKept, Returned, Numbers, Mirroring
    <3>5. UpdatesInHand'
      BY <3>1, <3>2, <3>3 DEF History, UpdatesInHand
    <3>6. QED BY <3>4, <3>5 DEF History
  <2>3. QED BY <2>1, <2>2
<1>4. CASE UpdateCommit(r)
  <2> DEFINE n == req[r].n
  <2>1. /\ n = file.current + 1 /\ req[r].op = "update" /\ req[r].pc = "bump"
        /\ n \notin Numbers /\ Numbers = 1 .. file.current
    BY <1>1, <1>4 DEF UpdateCommit, History, UpdatesInHand, Gapless
  <2>2. /\ Numbers' = Numbers \cup {n} /\ versions'[n] = r
        /\ \A v \in Numbers : versions'[v] = versions[v]
    BY <1>4, <2>1 DEF UpdateCommit, With, Numbers
  <2>3. file'.current = file.current + 1
    BY <1>4, <2>1, Typed DEF UpdateCommit, File, History
  <2>4. /\ req'[r].pc \in {"put snapshot", "done"} /\ req'[r].op = "update"
        /\ req'[r].n = n
        /\ \A q \in Requests : q # r => req'[q] = req[q]
    BY <1>1, <1>4, <2>1 DEF UpdateCommit, Become, Local
  <2>5. Gapless'
    BY <1>1, <2>1, <2>2, <2>3 DEF Gapless
  <2>6. UpdatesKept'
    BY <2>2, <2>4 DEF History, UpdatesKept, Returned
  <2>7. \A q \in Requests : req'[q].pc # "bump"
    BY <1>4, <2>1, <2>4 DEF History, UpdatesInHand
  <2>8. UpdatesInHand'
    <3>1. \A q \in Requests : req'[q].pc = "insert" =>
            req'[q].op = "update" /\ req'[q].n \in 1 .. file'.current + 1
      <4>1. \A q \in Requests : req[q].pc = "insert" =>
              req[q].op = "update" /\ req[q].n \in 1 .. file.current + 1
        BY DEF History, UpdatesInHand
      <4>2. \A m \in 1 .. file.current + 1 : m \in 1 .. file'.current + 1
        BY <1>1, <2>3
      <4>3. QED BY <2>4, <4>1, <4>2
    <3>2. \A q \in Requests :
            /\ req'[q].pc \in {"get", "publish", "archive"} => req'[q].op # "update"
            /\ req'[q].pc \in {"count", "delete", "max", "lower"}
                 => req'[q].op = "delete"
      BY <2>4 DEF History, UpdatesInHand
    <3>3. QED BY <2>7, <3>1, <3>2 DEF UpdatesInHand
  <2>9. QED BY <2>5, <2>6, <2>8 DEF History
<1>5. QED BY <1>2, <1>3, <1>4

(* Every other operation leaves the history as it is.                      *)
LEMMA OtherHistory ==
  ASSUME History, FileTypeOK', NEW r \in Requests,
         \/ PublishRead(r) \/ PublishCommit(r) \/ MirrorGet(r) \/ PutSnapshot(r)
         \/ PutIndex(r) \/ Wipe(r) \/ BucketFails(r) \/ Unpublish(r)
         \/ ArchiveRead(r) \/ ArchiveCommit(r) \/ Abort(r)
  PROVE  History'
<1>1. /\ req[r] \in Local /\ file \in File /\ FileTypeOK
      /\ req'[r] \in Local /\ req \in [Requests -> Local]
  BY DEF History, FileTypeOK
<1>2. CASE PublishRead(r)
  <2> DEFINE l == [Fresh EXCEPT
               !.pc = IF Active THEN "publish" ELSE "done", !.op = "publish",
               !.seen = IF file.token = None THEN 1 ELSE 0]
  <2>1. UNCHANGED versions /\ file'.current = file.current /\ Become(r, l)
    BY <1>1, <1>2 DEF PublishRead, database, File
  <2>2. l.op = "publish" /\ l.pc \in {"publish", "done"}
    BY <1>1, <1>2 DEF Fresh
  <2> HIDE DEF l
  <2>3. Harmless(r, l)
    BY <2>2 DEF Harmless
  <2>4. l \in Local
    BY <1>1, <2>1 DEF Become
  <2>5. QED BY <2>1, <2>3, <2>4, HarmlessStep
<1>3. CASE PublishCommit(r)
  <2> DEFINE l == [req[r] EXCEPT
               !.pc = IF (IF req[r].seen = 1 THEN r ELSE file.token) # None
                      THEN "get" ELSE "done",
               !.token = IF req[r].seen = 1 THEN r ELSE file.token,
               !.n = file.current]
  <2>1. UNCHANGED versions /\ file'.current = file.current /\ Become(r, l)
    BY <1>1, <1>3 DEF PublishCommit, database, File
  <2>2. l.op # "update" /\ l.op = req[r].op /\ l.pc \in {"get", "done"}
    BY <1>1, <1>3
    DEF PublishCommit, History, UpdatesInHand, Local
  <2> HIDE DEF l
  <2>3. Harmless(r, l)
    BY <2>2 DEF Harmless
  <2>4. l \in Local
    BY <1>1, <2>1 DEF Become
  <2>5. QED BY <2>1, <2>3, <2>4, HarmlessStep
<1>4. CASE MirrorGet(r)
  <2> DEFINE l == [req[r] EXCEPT
           !.pc = IF Active /\ (IF req[r].op = "delete" THEN file.token
                                ELSE req[r].token) # None
                  THEN "put snapshot" ELSE "done",
           !.n = IF req[r].op = "delete" THEN file.current ELSE @,
           !.token = IF req[r].op = "delete" THEN file.token ELSE req[r].token,
           !.html = IF file.current \in Numbers THEN versions[file.current]
                                                ELSE "blank"]
  <2>1. UNCHANGED versions /\ file'.current = file.current /\ Become(r, l)
    BY <1>1, <1>4 DEF MirrorGet, database, File
  <2>2. l.op # "update" /\ l.op = req[r].op /\ l.pc \in {"put snapshot", "done"}
    BY <1>1, <1>4
    DEF MirrorGet, History, UpdatesInHand, Local
  <2> HIDE DEF l
  <2>3. Harmless(r, l)
    BY <2>2 DEF Harmless
  <2>4. l \in Local
    BY <1>1, <2>1 DEF Become
  <2>5. QED BY <2>1, <2>3, <2>4, HarmlessStep
<1>5. CASE Unpublish(r)
  <2> DEFINE l == [Fresh EXCEPT
               !.pc = IF file.token # None THEN "wipe" ELSE "done",
               !.op = "unpublish", !.token = file.token]
  <2>1. UNCHANGED versions /\ file'.current = file.current /\ Become(r, l)
    BY <1>1, <1>5 DEF Unpublish, database, File
  <2>2. l.op = "unpublish" /\ l.pc \in {"wipe", "done"}
    BY <1>1, <1>5 DEF Fresh
  <2> HIDE DEF l
  <2>3. Harmless(r, l)
    BY <2>2 DEF Harmless
  <2>4. l \in Local
    BY <1>1, <2>1 DEF Become
  <2>5. QED BY <2>1, <2>3, <2>4, HarmlessStep
<1>6. CASE ArchiveRead(r)
  <2> DEFINE l == [Fresh EXCEPT !.pc = "archive", !.op = "archive",
               !.token = IF Active THEN file.token ELSE None]
  <2>1. UNCHANGED versions /\ file'.current = file.current /\ Become(r, l)
    BY <1>1, <1>6 DEF ArchiveRead, database, File
  <2>2. l.op = "archive" /\ l.pc = "archive"
    BY <1>1, <1>6 DEF Fresh
  <2> HIDE DEF l
  <2>3. Harmless(r, l)
    BY <2>2 DEF Harmless
  <2>4. l \in Local
    BY <1>1, <2>1 DEF Become
  <2>5. QED BY <2>1, <2>3, <2>4, HarmlessStep
<1>7. CASE PutSnapshot(r) \/ PutIndex(r) \/ Wipe(r) \/ BucketFails(r)
  <2>1. UNCHANGED versions /\ file'.current = file.current
    BY <1>7 DEF PutSnapshot, PutIndex, Wipe, BucketFails, database
  <2>2. req[r].pc \in Mirroring /\ (Goto(r, "done") \/ Goto(r, "put index"))
    BY <1>7 DEF PutSnapshot, PutIndex, Wipe, BucketFails, Mirroring
  <2>3. QED BY <2>1, <2>2, HarmlessGoto
<1>8. CASE ArchiveCommit(r)
  <2>1. UNCHANGED versions /\ file'.current = file.current
    BY <1>1, <1>8 DEF ArchiveCommit, File
  <2>2. req[r].op # "update" /\ (Goto(r, "wipe") \/ Goto(r, "done"))
    BY <1>8 DEF ArchiveCommit, History, UpdatesInHand
  <2>3. QED BY <2>1, <2>2, HarmlessGoto
<1>9. CASE Abort(r)
  <2>1. UNCHANGED versions /\ file'.current = file.current /\ Goto(r, "failed")
    BY <1>9 DEF Abort, database
  <2>2. QED BY <2>1, HarmlessGoto
<1>10. QED BY <1>2, <1>3, <1>4, <1>5, <1>6, <1>7, <1>8, <1>9

(* A request stays what it is from its start.                              *)
Started == \A r \in Requests : req[r].pc = "new" => req[r].op = "none"

LEMMA OpStays ==
  ASSUME FileTypeOK, NEW r \in Requests, Step(r)
  PROVE  /\ \A q \in Requests : q # r => req'[q] = req[q]
         /\ req'[r].pc # "new"
         /\ req[r].pc = "new" \/ req'[r].op = req[r].op
<1>1. req \in [Requests -> Local] /\ req[r] \in Local
  BY DEF FileTypeOK
<1>2. ASSUME NEW pc, Goto(r, pc)
      PROVE  /\ req'[r].pc = pc /\ req'[r].op = req[r].op
             /\ \A q \in Requests : q # r => req'[q] = req[q]
  BY <1>1, <1>2 DEF Goto, Become, Local
<1>3. CASE \/ UpdateRead(r) \/ PublishRead(r) \/ Unpublish(r) \/ ArchiveRead(r)
           \/ \E v \in Numbers : DeleteRead(r, v)
  <2>1. req[r].pc = "new"
    BY <1>3 DEF UpdateRead, PublishRead, Unpublish, ArchiveRead, DeleteRead, Start
  <2>2. req'[r].pc # "new"
    <3>1. CASE UpdateRead(r)
      BY <1>1, <3>1 DEF UpdateRead, Become, Fresh
    <3>2. CASE PublishRead(r)
      BY <1>1, <3>2 DEF PublishRead, Become, Fresh
    <3>3. CASE Unpublish(r)
      BY <1>1, <3>3 DEF Unpublish, Become, Fresh
    <3>4. CASE ArchiveRead(r)
      BY <1>1, <3>4 DEF ArchiveRead, Become, Fresh
    <3>5. CASE \E v \in Numbers : DeleteRead(r, v)
      BY <1>1, <3>5 DEF DeleteRead, Become, Fresh
    <3>6. QED BY <1>3, <3>1, <3>2, <3>3, <3>4, <3>5
  <2>3. \A q \in Requests : q # r => req'[q] = req[q]
    BY <1>1, <1>3 DEF UpdateRead, PublishRead, Unpublish, ArchiveRead, DeleteRead,
                      Become
  <2>4. QED BY <2>1, <2>2, <2>3
<1>4. CASE \/ UpdateInsert(r) \/ DeleteCount(r) \/ DeleteRow(r) \/ PutSnapshot(r)
           \/ PutIndex(r) \/ Wipe(r) \/ BucketFails(r) \/ ArchiveCommit(r) \/ Abort(r)
  <2>1. \/ Goto(r, "failed") \/ Goto(r, "bump") \/ Goto(r, "delete") \/ Goto(r, "max")
        \/ Goto(r, "put index") \/ Goto(r, "wipe") \/ Goto(r, "done")
    <3>1. CASE UpdateInsert(r) \/ PutSnapshot(r) \/ PutIndex(r) \/ Wipe(r)
               \/ BucketFails(r) \/ Abort(r) \/ DeleteRow(r)
      BY <3>1 DEF UpdateInsert, PutSnapshot, PutIndex, Wipe, BucketFails, Abort, DeleteRow
    <3>2. CASE DeleteCount(r)
      BY <3>2 DEF DeleteCount
    <3>3. CASE ArchiveCommit(r)
      BY <3>3 DEF ArchiveCommit
    <3>4. QED BY <1>4, <3>1, <3>2, <3>3
  <2>2. PICK pc \in {"failed", "bump", "delete", "max", "put index", "wipe", "done"} :
          Goto(r, pc)
    BY <2>1
  <2>3. pc # "new"
    OBVIOUS
  <2>4. QED BY <1>2, <2>2, <2>3
<1>5. CASE \/ UpdateCommit(r) \/ DeleteMax(r) \/ DeleteCommit(r) \/ PublishCommit(r)
           \/ MirrorGet(r)
  <2>1. req'[r].pc # "new" /\ req'[r].op = req[r].op
    <3>1. CASE UpdateCommit(r)
      BY <1>1, <3>1 DEF UpdateCommit, Become, Local
    <3>2. CASE DeleteMax(r)
      BY <1>1, <3>2 DEF DeleteMax, Become, Local
    <3>3. CASE DeleteCommit(r)
      BY <1>1, <3>3 DEF DeleteCommit, Become, Local
    <3>4. CASE PublishCommit(r)
      BY <1>1, <3>4 DEF PublishCommit, Become, Local
    <3>5. CASE MirrorGet(r)
      BY <1>1, <3>5 DEF MirrorGet, Become, Local
    <3>6. QED BY <1>5, <3>1, <3>2, <3>3, <3>4, <3>5
  <2>2. \A q \in Requests : q # r => req'[q] = req[q]
    BY <1>1, <1>5 DEF UpdateCommit, DeleteMax, DeleteCommit, PublishCommit, MirrorGet,
                      Become
  <2>3. QED BY <2>1, <2>2
<1>6. QED
  BY <1>3, <1>4, <1>5 DEF Step, Updating, Deleting, Publishing, Archiving, Mirror

(* Until a deletion is asked for no request is in the middle of one.       *)
LEMMA NoDeletion ==
  ASSUME History, Undeleted, Undeleted', NEW r \in Requests
  PROVE  /\ \A v \in Numbers : ~ DeleteRead(r, v)
         /\ ~ DeleteCount(r) /\ ~ DeleteRow(r) /\ ~ DeleteMax(r) /\ ~ DeleteCommit(r)
<1>1. req \in [Requests -> Local]
  BY DEF History, FileTypeOK
<1>2. req[r].pc \notin {"count", "delete", "max", "lower"}
  BY DEF History, UpdatesInHand, Undeleted
<1>3. ASSUME NEW v \in Numbers, DeleteRead(r, v) PROVE FALSE
  <2>1. req'[r].op = "delete"
    BY <1>1, <1>3 DEF DeleteRead, Become, Fresh
  <2>2. QED BY <2>1 DEF Undeleted
<1>4. QED
  BY <1>2, <1>3 DEF DeleteCount, DeleteRow, DeleteMax, DeleteCommit

(* Until a deletion is asked for, the version numbers of a file are        *)
(* exactly 1 to current_version, whatever updates run at once, fail on the *)
(* UNIQUE key, or are cut off between two statements; and an update that   *)
(* returned a version number is the one that wrote that version.           *)
THEOREM HistoryComplete == Spec => []VersionsNumbered
<1> DEFINE IInv == Started /\ (Undeleted => History)
<1>1. Init => IInv
  <2> SUFFICES ASSUME Init PROVE Started /\ History
    OBVIOUS
  <2>1. FileTypeOK
    BY InitTyped
  <2>2. Gapless
    BY DEF Init, Created, FirstVersion, Gapless, Numbers
  <2>3. Started /\ \A r \in Requests : req[r].pc = "new"
    BY FreshTyped DEF Init, Started, Fresh
  <2>4. UpdatesKept /\ UpdatesInHand
    BY <2>3 DEF UpdatesKept, Returned, UpdatesInHand, Mirroring
  <2>5. QED BY <2>1, <2>2, <2>3, <2>4 DEF History
<1>2. FileTypeOK /\ FileTypeOK' /\ IInv /\ [Next]_vars => IInv'
  <2>1. ASSUME FileTypeOK, FileTypeOK', IInv, NEW r \in Requests, Step(r) PROVE IInv'
    <3>1. Started'
      BY <2>1, OpStays DEF Started
    <3>2. Undeleted' => Undeleted
      BY <2>1, OpStays DEF Started, Undeleted
    <3>3. ASSUME Undeleted' PROVE History'
      BY <2>1, <3>2, <3>3, UpdateHistory, OtherHistory, NoDeletion
         DEF Step, Updating, Deleting, Publishing, Archiving, Mirror
    <3>4. QED BY <3>1, <3>3
  <2>2. ASSUME IInv, FileTypeOK', UNCHANGED vars PROVE IInv'
    BY <2>2 DEF History, vars, Gapless, UpdatesKept, Returned, Numbers,
                UpdatesInHand, Started, Undeleted
  <2>3. QED BY <2>1, <2>2 DEF Next
<1>3. IInv => VersionsNumbered
  BY DEF History, VersionsNumbered
<1>4. QED BY <1>1, <1>2, <1>3, TypeCorrect, PTL DEF Spec

----------------------------------------------------------------------------
(* Requests one at a time.                                                 *)

Shown == file.visibility = "published" /\ file.token # None

(* Only the token of the file has anything in the bucket.                  *)
OthersEmpty ==
  \A t \in Tokens : t # file.token => index[t] = "absent" /\ snaps[t] = {}

(* A snapshot of a version that is still there, or of all but n, is true.  *)
SnapsTrue(n) ==
  file.token # None =>
    \A s \in snaps[file.token] : s[1] \in Numbers /\ s[1] # n => versions[s[1]] = s[2]

MirrorTrue ==
  /\ OthersEmpty /\ \A n : SnapsTrue(n)
  /\ Shown => index[file.token] = versions[file.current]
  /\ ~Shown => \A t \in Tokens : index[t] = "absent" /\ snaps[t] = {}

(* What a request that is alone knows of the rows and of the mirror: until *)
(* it commits the mirror is true, and then it is the one to make it so.    *)
TakesPlace(r) ==
  /\ req[r].pc # "archive"
  /\ req[r].pc \in InTransaction => MirrorTrue
  /\ req[r].pc \in {"insert", "bump"} => req[r].n = file.current + 1
  /\ req[r].pc \in {"count", "delete", "max"} =>
       req[r].seen = file.current /\ req[r].n \in Numbers
  /\ req[r].pc \in {"delete", "max"} => \E v \in Numbers : v # req[r].n
  /\ req[r].pc \in {"max", "lower"} => req[r].n = file.current
  /\ req[r].pc = "lower" =>
       /\ req[r].seen \in Numbers /\ req[r].seen # req[r].n
       /\ \A v \in Numbers : v # req[r].n => v <= req[r].seen
  /\ req[r].pc \in {"count", "delete", "max", "lower"} => req[r].op = "delete"
  /\ req[r].pc = "publish" => (req[r].seen = 1 <=> file.token = None)
  /\ req[r].pc \in Mirroring => file.token # None /\ OthersEmpty
  /\ req[r].pc \in {"get", "put snapshot", "put index"} => file.visibility = "published"
  /\ req[r].pc = "wipe" => file.visibility = "private"
  /\ req[r].pc = "get" => \/ req[r].op = "delete"
                          \/ req[r].token = file.token /\ req[r].n = file.current
  /\ req[r].pc \in {"put snapshot", "put index"} =>
       req[r].n = file.current /\ req[r].html = versions[file.current]
  /\ req[r].pc \in {"put snapshot", "put index", "wipe"} => req[r].token = file.token
  /\ req[r].pc \in {"get", "put index"} => \A n : SnapsTrue(n)
  /\ req[r].pc = "put snapshot" => SnapsTrue(file.current)

RowsTrue ==
  /\ Active /\ CurrentIsNewest /\ IsFiniteSet(Numbers)
  /\ file.visibility = "published" => file.token # None

Serial ==
  /\ RowsTrue
  /\ \A q, r \in UnderWay : q = r
  /\ \A r \in UnderWay : TakesPlace(r)
  /\ UnderWay = {} => MirrorTrue

(* The locals of a request after a step, and the others left alone.        *)
Has(e, pc, op, n, seen, token, html) ==
  /\ e.pc = pc /\ e.op = op /\ e.n = n
  /\ e.seen = seen /\ e.token = token /\ e.html = html

LEMMA LocalsSet ==
  ASSUME NEW h \in Local, NEW pc, NEW op, NEW n, NEW seen, NEW token, NEW html
  PROVE  /\ Has([h EXCEPT !.pc = pc], pc, h.op, h.n, h.seen, h.token, h.html)
         /\ Has([h EXCEPT !.pc = pc, !.op = op, !.n = n], pc, op, n, h.seen, h.token, h.html)
         /\ Has([h EXCEPT !.pc = pc, !.token = token, !.html = html],
                pc, h.op, h.n, h.seen, token, html)
         /\ Has([h EXCEPT !.pc = pc, !.op = op, !.n = n, !.seen = seen],
                pc, op, n, seen, h.token, h.html)
         /\ Has([h EXCEPT !.pc = pc, !.seen = seen], pc, h.op, h.n, seen, h.token, h.html)
         /\ Has([h EXCEPT !.pc = pc, !.token = token], pc, h.op, h.n, h.seen, token, h.html)
         /\ Has([h EXCEPT !.pc = pc, !.op = op, !.seen = seen],
                pc, op, h.n, seen, h.token, h.html)
         /\ Has([h EXCEPT !.pc = pc, !.token = token, !.n = n],
                pc, h.op, n, h.seen, token, h.html)
         /\ Has([h EXCEPT !.pc = pc, !.n = n, !.token = token, !.html = html],
                pc, h.op, n, h.seen, token, html)
         /\ Has([h EXCEPT !.pc = pc, !.op = op, !.token = token],
                pc, op, h.n, h.seen, token, h.html)
BY DEF Has, Local

Moves(r, pc, op, n, seen, token, html) ==
  /\ Has(req'[r], pc, op, n, seen, token, html)
  /\ \A q \in Requests \ {r} : req'[q] = req[q]

LEMMA BecomeMoves ==
  ASSUME FileTypeOK, NEW r \in Requests, NEW e, Become(r, e),
         NEW pc, NEW op, NEW n, NEW seen, NEW token, NEW html,
         Has(e, pc, op, n, seen, token, html)
  PROVE  Moves(r, pc, op, n, seen, token, html)
<1>1. req'[r] = e /\ \A q \in Requests \ {r} : req'[q] = req[q]
  BY DEF FileTypeOK, Become
<1>2. QED BY <1>1 DEF Moves

LEMMA GotoMoves ==
  ASSUME FileTypeOK, NEW r \in Requests, NEW pc, Goto(r, pc)
  PROVE  /\ req'[r].pc = pc /\ req'[r].op = req[r].op /\ req'[r].n = req[r].n
         /\ req'[r].seen = req[r].seen /\ req'[r].token = req[r].token
         /\ req'[r].html = req[r].html
         /\ \A q \in Requests \ {r} : req'[q] = req[q]
<1>1. Has([req[r] EXCEPT !.pc = pc], pc, req[r].op, req[r].n, req[r].seen,
          req[r].token, req[r].html)
  BY Typed, LocalsSet
<1>2. Become(r, [req[r] EXCEPT !.pc = pc])
  BY DEF Goto
<1>3. Moves(r, pc, req[r].op, req[r].n, req[r].seen, req[r].token, req[r].html)
  BY <1>1, <1>2, BecomeMoves
<1>4. QED BY <1>3 DEF Moves, Has

(* A request that is under way is the only one.                            *)
LEMMA StepAlone ==
  ASSUME Serial, NEW r \in UnderWay,
         \A q \in Requests \ {r} : req'[q] = req[q],
         RowsTrue', r \in UnderWay' => TakesPlace(r)', r \notin UnderWay' => MirrorTrue'
  PROVE  Serial'
<1>1. UnderWay' \subseteq {r}
  BY DEF UnderWay, Serial
<1>2. QED BY <1>1 DEF Serial

(* One that starts and goes on finds the mirror true.                      *)
LEMMA StartAlone ==
  ASSUME Serial, NEW r \in Requests, req[r].pc = "new", req'[r].pc \notin Ended,
         \A q \in Requests \ {r} : req'[q] = req[q],
         \A p, q \in UnderWay' : p = q
  PROVE  /\ MirrorTrue
         /\ RowsTrue' /\ TakesPlace(r)' => Serial'
<1>1. r \in UnderWay' /\ UnderWay' = {r}
  BY DEF UnderWay
<1>2. UnderWay = {}
  BY <1>1 DEF UnderWay, Ended
<1>3. QED BY <1>1, <1>2 DEF Serial

LEMMA RowsKept ==
  ASSUME RowsTrue, UNCHANGED <<versions, bucket>>, file' = file
  PROVE  RowsTrue' /\ (MirrorTrue => MirrorTrue') /\ (OthersEmpty => OthersEmpty')
         /\ \A n : SnapsTrue(n) => SnapsTrue(n)'
<1>1. file' = file /\ versions' = versions /\ index' = index /\ snaps' = snaps
  BY DEF bucket
<1>2. RowsTrue'
  BY <1>1 DEF RowsTrue, Active, CurrentIsNewest, Numbers
<1>3. \A n : SnapsTrue(n) => SnapsTrue(n)'
  BY <1>1 DEF SnapsTrue, Numbers
<1>4. OthersEmpty => OthersEmpty'
  BY <1>1 DEF OthersEmpty
<1>5. MirrorTrue => MirrorTrue'
  BY <1>1, <1>3, <1>4 DEF MirrorTrue, Shown
<1>6. QED BY <1>2, <1>3, <1>4, <1>5

(* A step that leaves the rows, the mirror and whoever is under way alone. *)
LEMMA SerialKept ==
  ASSUME Serial, UNCHANGED <<versions, bucket>>, file' = file, UnderWay' = UnderWay,
         \A q \in UnderWay : req'[q] = req[q]
  PROVE  Serial'
<1>1. RowsTrue' /\ (MirrorTrue => MirrorTrue') /\ (OthersEmpty => OthersEmpty')
      /\ \A n : SnapsTrue(n) => SnapsTrue(n)'
  BY RowsKept DEF Serial
<1>2. versions' = versions /\ Numbers' = Numbers
  BY DEF Numbers
<1>3. ASSUME NEW q \in UnderWay
      PROVE  TakesPlace(q)'
  <2>1. req'[q] = req[q] /\ TakesPlace(q)
    BY DEF Serial
  <2>2. SnapsTrue(file.current) => SnapsTrue(file.current)'
    BY <1>1
  <2>3. (\A n : SnapsTrue(n)) => \A n : SnapsTrue(n)'
    BY <1>1
  <2>4. (req'[q].pc = "put snapshot" => SnapsTrue(file.current)')
        /\ (req'[q].pc \in {"get", "put index"} => \A n : SnapsTrue(n)')
    BY <2>1, <2>2, <2>3 DEF TakesPlace
  <2>5. /\ req'[q].pc \in InTransaction => MirrorTrue'
        /\ req'[q].pc \in Mirroring => file'.token # None /\ OthersEmpty'
    BY <1>1, <2>1 DEF TakesPlace
  <2>6. req'[q].pc \in {"put snapshot", "put index"} =>
          req'[q].n = file'.current /\ req'[q].html = versions'[file'.current]
    BY <1>2, <2>1 DEF TakesPlace
  <2>7. /\ req'[q].pc \in {"count", "delete", "max"} =>
            req'[q].seen = file'.current /\ req'[q].n \in Numbers'
        /\ req'[q].pc \in {"delete", "max"} => \E v \in Numbers' : v # req'[q].n
        /\ req'[q].pc = "lower" =>
             /\ req'[q].seen \in Numbers' /\ req'[q].seen # req'[q].n
             /\ \A v \in Numbers' : v # req'[q].n => v <= req'[q].seen
    BY <1>2, <2>1 DEF TakesPlace
  <2>8. QED BY <2>1, <2>4, <2>5, <2>6, <2>7 DEF TakesPlace
<1>4. QED BY <1>1, <1>3 DEF Serial

(* An update: the number it takes is free, and the mirror is true but for  *)
(* the new version when it has committed.                                  *)
LEMMA UpdateSerial ==
  ASSUME FileTypeOK, Serial, NEW r \in Requests, Updating(r), \A p, q \in UnderWay' : p = q
  PROVE  Serial'
<1>1. RowsTrue /\ file \in File
  BY Typed DEF Serial
<1>2. CASE UpdateRead(r)
  <2>1. Moves(r, "insert", "update", file.current + 1, Fresh.seen, Fresh.token, Fresh.html)
    BY <1>2, BecomeMoves, LocalsSet, FreshTyped DEF UpdateRead
  <2>2. req[r].pc = "new" /\ UNCHANGED <<file, versions, bucket>>
    BY <1>2 DEF UpdateRead, Start, database
  <2>3. /\ req'[r].pc = "insert" /\ req'[r].n = file.current + 1
        /\ \A q \in Requests \ {r} : req'[q] = req[q]
    BY <2>1 DEF Moves, Has
  <2>4. MirrorTrue /\ (RowsTrue' /\ TakesPlace(r)' => Serial')
    BY <2>2, <2>3, StartAlone DEF Ended
  <2>5. TakesPlace(r)'
    BY <1>1, <2>2, <2>3, <2>4, RowsKept DEF TakesPlace, Mirroring
  <2>6. QED BY <1>1, <2>2, <2>4, <2>5, RowsKept
<1>3. ASSUME req[r].pc \in InTransaction \cup Mirroring
      PROVE  r \in UnderWay /\ TakesPlace(r)
  BY <1>3 DEF UnderWay, Serial, InTransaction, Mirroring, Ended
<1>4. CASE UpdateInsert(r)
  <2>1. req[r].pc = "insert" /\ UNCHANGED <<file, versions, bucket>>
    BY <1>4 DEF UpdateInsert, database
  <2>2. r \in UnderWay /\ TakesPlace(r)
    BY <1>3, <2>1 DEF InTransaction
  <2>3. MirrorTrue /\ req[r].n = file.current + 1
    BY <2>1, <2>2 DEF TakesPlace, InTransaction
  <2>4. /\ req'[r].pc \in {"failed", "bump"} /\ req'[r].n = file.current + 1
        /\ \A q \in Requests \ {r} : req'[q] = req[q]
    BY <1>4, <2>3, GotoMoves DEF UpdateInsert
  <2>5. RowsTrue' /\ MirrorTrue'
    BY <1>1, <2>1, <2>3, RowsKept
  <2>6. TakesPlace(r)'
    BY <2>1, <2>4, <2>5 DEF TakesPlace, Mirroring
  <2>7. QED BY <2>2, <2>4, <2>5, <2>6, StepAlone
<1>5. CASE UpdateCommit(r)
  <2>1. /\ req[r].pc = "bump" /\ index' = index /\ snaps' = snaps
        /\ versions' = With(req[r].n, r)
        /\ file' = [file EXCEPT !.current = req[r].n]
    BY <1>5 DEF UpdateCommit, bucket
  <2>2. r \in UnderWay /\ TakesPlace(r)
    BY <1>3, <2>1 DEF InTransaction
  <2>3. PICK n \in Nat : req[r].n = n /\ n = file.current + 1 /\ MirrorTrue
    BY <1>1, <2>1, <2>2, Typed DEF TakesPlace, InTransaction
  <2>4. /\ file'.current = n /\ file'.visibility = file.visibility
        /\ file'.status = file.status /\ file'.token = file.token
    BY <1>1, <2>1, <2>3 DEF File
  <2>5. /\ Numbers' = Numbers \cup {n} /\ versions'[n] = r
        /\ \A v \in Numbers : v # n => versions'[v] = versions[v]
    BY <2>1, <2>3 DEF With, Numbers
  <2>6. Moves(r, IF Shown THEN "put snapshot" ELSE "done", req[r].op, n, req[r].seen, file.token, r)
    <3> DEFINE pc == IF Shown THEN "put snapshot" ELSE "done"
    <3>1. Become(r, [req[r] EXCEPT !.pc = pc, !.token = file.token, !.html = r])
      BY <1>5 DEF UpdateCommit, Shown
    <3> HIDE DEF pc
    <3>2. Has([req[r] EXCEPT !.pc = pc, !.token = file.token, !.html = r],
              pc, req[r].op, req[r].n, req[r].seen, file.token, r)
      BY Typed, LocalsSet
    <3>3. Moves(r, pc, req[r].op, req[r].n, req[r].seen, file.token, r)
      BY <3>1, <3>2, BecomeMoves
    <3>4. QED BY <2>3, <3>3 DEF pc
  <2>7. RowsTrue'
    <3>1. IsFiniteSet(Numbers')
      BY <1>1, <2>5, FS_AddElement DEF RowsTrue
    <3>2. \A v \in Numbers : v \in Nat /\ file.current \in Nat /\ v <= file.current
      BY <1>1, Typed DEF RowsTrue, CurrentIsNewest
    <3>3. \A v \in Numbers' : v <= n
      BY <2>3, <2>5, <3>2
    <3>4. QED BY <1>1, <2>4, <2>5, <3>1, <3>3 DEF RowsTrue, Active, CurrentIsNewest
  <2>8. Shown' = Shown /\ OthersEmpty' /\ SnapsTrue(n)'
    BY <2>1, <2>3, <2>4, <2>5 DEF Shown, OthersEmpty, MirrorTrue, SnapsTrue
  <2>9. ~Shown => MirrorTrue'
    <3>1. ASSUME ~Shown PROVE \A t \in Tokens : index'[t] = "absent" /\ snaps'[t] = {}
      BY <2>1, <2>3, <3>1 DEF MirrorTrue
    <3>2. ASSUME ~Shown PROVE \A k : SnapsTrue(k)'
      BY <1>1, <2>4, <3>1, <3>2 DEF SnapsTrue, File
    <3>3. QED BY <2>8, <3>1, <3>2 DEF MirrorTrue
  <2>10. TakesPlace(r)'
    BY <2>4, <2>5, <2>6, <2>8 DEF TakesPlace, Moves, Has, Mirroring, InTransaction, Shown
  <2>11. QED BY <2>2, <2>6, <2>7, <2>9, <2>10, StepAlone
       DEF Moves, Has, UnderWay, Ended
<1>6. QED BY <1>2, <1>4, <1>5 DEF Updating

(* A history with two versions has one to fall back on.                    *)
LEMMA TwoVersions ==
  ASSUME IsFiniteSet(Numbers), Cardinality(Numbers) > 1, NEW n
  PROVE  \E v \in Numbers : v # n
<1>1. SUFFICES ASSUME Numbers \subseteq {n} PROVE FALSE
  OBVIOUS
<1>2. IsFiniteSet({n}) /\ Cardinality({n}) = 1
  BY FS_Singleton
<1>3. Cardinality(Numbers) <= 1
  BY <1>1, <1>2, FS_Subset
<1>4. Cardinality(Numbers) \in Nat
  BY FS_CardinalityType
<1>5. QED BY <1>3, <1>4

(* Taking a version away leaves the snapshots of the others true.          *)
LEMMA FewerSnapsTrue ==
  ASSUME \A n : SnapsTrue(n), file'.token = file.token, UNCHANGED snaps,
         \A v \in Numbers' : v \in Numbers /\ versions'[v] = versions[v]
  PROVE  \A n : SnapsTrue(n)'
<1> SUFFICES ASSUME NEW n, file.token # None, NEW s \in snaps[file.token],
                    s[1] \in Numbers', s[1] # n
             PROVE  versions'[s[1]] = s[2]
  BY DEF SnapsTrue
<1>1. s[1] \in Numbers /\ versions'[s[1]] = versions[s[1]]
  OBVIOUS
<1>2. SnapsTrue(n)
  OBVIOUS
<1>3. QED BY <1>1, <1>2 DEF SnapsTrue

(* A deletion: of a version that is not the current one, or the newest of  *)
(* the others becomes current and the mirror is to be written again.       *)
LEMMA DeleteSerial ==
  ASSUME FileTypeOK, Serial, NEW r \in Requests, Deleting(r), \A p, q \in UnderWay' : p = q
  PROVE  Serial'
<1>1. RowsTrue /\ file \in File /\ Numbers \subseteq Nat /\ req[r].n \in Nat
  BY Typed DEF Serial
<1>2. ASSUME NEW v \in Numbers, DeleteRead(r, v)
      PROVE  Serial'
  <2>1. Moves(r, "count", "delete", v, file.current, Fresh.token, Fresh.html)
    BY <1>1, <1>2, BecomeMoves, LocalsSet, FreshTyped DEF DeleteRead, RowsTrue
  <2>2. req[r].pc = "new" /\ UNCHANGED <<file, versions, bucket>>
    BY <1>2 DEF DeleteRead, Start, database
  <2>3. /\ req'[r].pc = "count" /\ req'[r].op = "delete" /\ req'[r].n = v /\ req'[r].seen = file.current
        /\ \A q \in Requests \ {r} : req'[q] = req[q]
    BY <2>1 DEF Moves, Has
  <2>4. MirrorTrue /\ (RowsTrue' /\ TakesPlace(r)' => Serial')
    BY <2>2, <2>3, StartAlone DEF Ended
  <2>5. RowsTrue' /\ MirrorTrue' /\ Numbers' = Numbers
    BY <1>1, <2>2, <2>4, RowsKept DEF Numbers
  <2>6. TakesPlace(r)'
    BY <2>2, <2>3, <2>5 DEF TakesPlace, Mirroring
  <2>7. QED BY <2>4, <2>5, <2>6
<1>3. ASSUME req[r].pc \in {"count", "delete", "max", "lower"}
      PROVE  /\ r \in UnderWay /\ TakesPlace(r) /\ MirrorTrue
  BY <1>3 DEF UnderWay, Serial, TakesPlace, InTransaction, Ended
<1>4. CASE DeleteCount(r)
  <2>1. req[r].pc = "count" /\ UNCHANGED <<file, versions, bucket>>
    BY <1>4 DEF DeleteCount, database
  <2>2. /\ r \in UnderWay /\ MirrorTrue /\ req[r].op = "delete"
        /\ req[r].seen = file.current /\ req[r].n \in Numbers
    BY <1>3, <2>1 DEF TakesPlace
  <2>3. PICK pc \in {"done", "delete"} :
          Goto(r, pc) /\ (pc = "delete" => ~ (Cardinality(Numbers) <= 1))
    BY <1>4 DEF DeleteCount
  <2>4. /\ req'[r].pc = pc /\ req'[r].op = "delete" /\ req'[r].n = req[r].n /\ req'[r].seen = file.current
        /\ \A q \in Requests \ {r} : req'[q] = req[q]
    BY <2>2, <2>3, GotoMoves
  <2>5. pc = "delete" => \E v \in Numbers : v # req[r].n
    <3>1. Cardinality(Numbers) \in Nat /\ IsFiniteSet(Numbers)
      BY <1>1, FS_CardinalityType DEF RowsTrue
    <3>2. QED BY <2>3, <3>1, TwoVersions
  <2>6. RowsTrue' /\ MirrorTrue' /\ Numbers' = Numbers
    BY <1>1, <2>1, <2>2, RowsKept DEF Numbers
  <2>7. TakesPlace(r)'
    BY <2>1, <2>2, <2>4, <2>5, <2>6 DEF TakesPlace, Mirroring
  <2>8. QED BY <2>2, <2>4, <2>6, <2>7, StepAlone
<1>5. CASE DeleteRow(r)
  <2>1. req[r].pc = "delete" /\ file' = file /\ index' = index /\ snaps' = snaps
    BY <1>5 DEF DeleteRow, bucket
  <2>2. /\ r \in UnderWay /\ MirrorTrue /\ req[r].seen = file.current
        /\ req[r].op = "delete" /\ req[r].n \in Numbers /\ \E v \in Numbers : v # req[r].n
    BY <1>3, <2>1 DEF TakesPlace
  <2>3. CASE req[r].n = req[r].seen
    <3>1. Goto(r, "max") /\ UNCHANGED <<file, versions, bucket>>
      BY <1>5, <2>2, <2>3 DEF DeleteRow
    <3>2. /\ req'[r].pc = "max" /\ req'[r].op = "delete" /\ req'[r].n = req[r].n /\ req'[r].seen = file.current
          /\ \A q \in Requests \ {r} : req'[q] = req[q]
      BY <2>2, <3>1, GotoMoves
    <3>3. RowsTrue' /\ MirrorTrue' /\ Numbers' = Numbers
      BY <1>1, <2>2, <3>1, RowsKept DEF Numbers
    <3>4. TakesPlace(r)'
      BY <2>1, <2>2, <2>3, <3>2, <3>3 DEF TakesPlace, Mirroring
    <3>5. QED BY <2>2, <3>2, <3>3, <3>4, StepAlone
  <2>4. CASE req[r].n # req[r].seen
    <3>1. Goto(r, "done") /\ versions' = Without(req[r].n)
      BY <1>5, <2>2, <2>4 DEF DeleteRow
    <3>2. /\ req'[r].pc = "done" /\ \A q \in Requests \ {r} : req'[q] = req[q]
      BY <3>1, GotoMoves
    <3>3. /\ Numbers' = Numbers \ {req[r].n}
          /\ \A v \in Numbers' : v \in Numbers /\ versions'[v] = versions[v]
      BY <3>1 DEF Without, Numbers
    <3>4. file.current \in Numbers'
      BY <1>1, <2>2, <2>4, <3>3 DEF RowsTrue, CurrentIsNewest
    <3>5. IsFiniteSet(Numbers')
      BY <1>1, <3>3, FS_Subset DEF RowsTrue
    <3>6. RowsTrue'
      BY <1>1, <2>1, <3>3, <3>4, <3>5 DEF RowsTrue, Active, CurrentIsNewest
    <3>7. OthersEmpty' /\ (\A k : SnapsTrue(k)') /\ Shown' = Shown
      BY <2>1, <2>2, <3>3, FewerSnapsTrue DEF MirrorTrue, OthersEmpty, Shown
    <3>8. MirrorTrue'
      BY <2>1, <2>2, <3>3, <3>4, <3>7 DEF MirrorTrue
    <3>9. r \notin UnderWay'
      BY <3>2 DEF UnderWay, Ended
    <3>10. QED BY <2>2, <3>2, <3>6, <3>8, <3>9, StepAlone
  <2>5. QED BY <2>3, <2>4
<1>6. CASE DeleteMax(r)
  <2>1. req[r].pc = "max" /\ UNCHANGED <<file, versions, bucket>>
    BY <1>6 DEF DeleteMax, database
  <2>2. /\ r \in UnderWay /\ MirrorTrue /\ req[r].n = file.current
        /\ req[r].op = "delete" /\ \E v \in Numbers : v # req[r].n
    BY <1>3, <2>1 DEF TakesPlace
  <2>3. PICK m \in Nat : /\ m \in Numbers \ {req[r].n}
                         /\ \A v \in Numbers \ {req[r].n} : v <= m
                         /\ Become(r, [req[r] EXCEPT !.pc = "lower", !.seen = m])
    BY <1>1, <1>6, <2>2 DEF DeleteMax
  <2>4. Moves(r, "lower", req[r].op, req[r].n, m, req[r].token, req[r].html)
    BY <2>3, BecomeMoves, LocalsSet, Typed
  <2>5. /\ req'[r].pc = "lower" /\ req'[r].op = "delete" /\ req'[r].n = file.current /\ req'[r].seen = m
        /\ \A q \in Requests \ {r} : req'[q] = req[q]
    BY <2>2, <2>4 DEF Moves, Has
  <2>6. RowsTrue' /\ MirrorTrue' /\ Numbers' = Numbers
    BY <1>1, <2>1, <2>2, RowsKept DEF Numbers
  <2>7. TakesPlace(r)'
    BY <2>1, <2>2, <2>3, <2>5, <2>6 DEF TakesPlace, Mirroring
  <2>8. QED BY <2>2, <2>5, <2>6, <2>7, StepAlone
<1>7. CASE DeleteCommit(r)
  <2>1. /\ req[r].pc = "lower" /\ index' = index /\ snaps' = snaps
        /\ versions' = Without(req[r].n)
        /\ file' = [file EXCEPT !.current = req[r].seen]
    BY <1>7 DEF DeleteCommit, bucket
  <2>2. PICK m \in Nat :
          /\ r \in UnderWay /\ MirrorTrue /\ req[r].n = file.current
          /\ req[r].seen = m /\ m \in Numbers /\ m # req[r].n
          /\ \A v \in Numbers : v # req[r].n => v <= m
    BY <1>3, <2>1, Typed DEF TakesPlace
  <2>3. /\ file'.current = m /\ file'.visibility = file.visibility
        /\ file'.status = file.status /\ file'.token = file.token
    BY <1>1, <2>1, <2>2 DEF File
  <2>4. /\ Numbers' = Numbers \ {req[r].n}
        /\ \A v \in Numbers' : v \in Numbers /\ versions'[v] = versions[v]
    BY <2>1 DEF Without, Numbers
  <2>5. Become(r, [req[r] EXCEPT !.pc = IF Shown THEN "get" ELSE "done", !.token = file.token])
    BY <1>7 DEF DeleteCommit, Shown
  <2>6. Moves(r, IF Shown THEN "get" ELSE "done", req[r].op, req[r].n, req[r].seen,
              file.token, req[r].html)
    <3>1. PICK pc : pc = IF Shown THEN "get" ELSE "done"
      OBVIOUS
    <3>2. Has([req[r] EXCEPT !.pc = pc, !.token = file.token], pc, req[r].op, req[r].n,
              req[r].seen, file.token, req[r].html)
      BY LocalsSet, Typed
    <3>3. QED BY <2>5, <3>1, <3>2, BecomeMoves
  <2>7. RowsTrue'
    <3>1. IsFiniteSet(Numbers')
      BY <1>1, <2>4, FS_Subset DEF RowsTrue
    <3>2. QED BY <1>1, <2>2, <2>3, <2>4, <3>1 DEF RowsTrue, Active, CurrentIsNewest
  <2>8. OthersEmpty' /\ (\A k : SnapsTrue(k)') /\ Shown' = Shown
    <3>1. Shown' = Shown
      BY <2>3 DEF Shown
    <3>2. OthersEmpty'
      BY <2>1, <2>2, <2>3 DEF MirrorTrue, OthersEmpty
    <3>3. \A k : SnapsTrue(k)'
      BY <2>1, <2>2, <2>3, <2>4, FewerSnapsTrue DEF MirrorTrue
    <3>4. QED BY <3>1, <3>2, <3>3
  <2>9. ~Shown => MirrorTrue'
    BY <2>1, <2>2, <2>8 DEF MirrorTrue
  <2>10. Shown => req'[r].pc = "get" /\ req'[r].op = "delete"
    <3>1. req[r].op = "delete"
      BY <2>1, <2>2 DEF TakesPlace, UnderWay, Serial
    <3>2. QED BY <2>6, <3>1 DEF Moves, Has
  <2>11. ~Shown => req'[r].pc = "done"
    BY <2>6 DEF Moves, Has
  <2>12. TakesPlace(r)'
    BY <2>8, <2>10, <2>11 DEF TakesPlace, Mirroring, InTransaction, Shown
  <2>13. r \notin UnderWay' => ~Shown
    BY <2>2, <2>10 DEF UnderWay, Ended
  <2>14. QED BY <2>2, <2>6, <2>7, <2>9, <2>12, <2>13, StepAlone DEF Moves
<1>8. QED BY <1>2, <1>4, <1>5, <1>6, <1>7 DEF Deleting

(* A publication: the file is shown under its token, which stays the same  *)
(* once it has one, and the mirror is to be written.                       *)
LEMMA PublishSerial ==
  ASSUME FileTypeOK, Serial, NEW r \in Requests, Publishing(r), \A p, q \in UnderWay' : p = q
  PROVE  Serial'
<1>1. RowsTrue /\ file \in File
  BY Typed DEF Serial
<1>2. CASE PublishRead(r)
  <2>1. PICK seen : seen = IF file.token = None THEN 1 ELSE 0
    OBVIOUS
  <2>2. Moves(r, "publish", "publish", Fresh.n, seen, Fresh.token, Fresh.html)
    <3>1. Has([Fresh EXCEPT !.pc = "publish", !.op = "publish", !.seen = seen],
              "publish", "publish", Fresh.n, seen, Fresh.token, Fresh.html)
      BY LocalsSet, FreshTyped
    <3>2. Become(r, [Fresh EXCEPT !.pc = "publish", !.op = "publish", !.seen = seen])
      BY <1>1, <1>2, <2>1 DEF PublishRead, RowsTrue
    <3>3. QED BY <3>1, <3>2, BecomeMoves
  <2>3. req[r].pc = "new" /\ UNCHANGED <<file, versions, bucket>>
    BY <1>2 DEF PublishRead, Start, database
  <2>4. /\ req'[r].pc = "publish" /\ req'[r].seen = seen
        /\ \A q \in Requests \ {r} : req'[q] = req[q]
    BY <2>2 DEF Moves, Has
  <2>5. MirrorTrue /\ (RowsTrue' /\ TakesPlace(r)' => Serial')
    BY <2>3, <2>4, StartAlone DEF Ended
  <2>6. RowsTrue' /\ MirrorTrue'
    BY <1>1, <2>3, <2>5, RowsKept
  <2>7. TakesPlace(r)'
    BY <2>1, <2>3, <2>4, <2>6 DEF TakesPlace, Mirroring
  <2>8. QED BY <2>5, <2>6, <2>7
<1>3. CASE PublishCommit(r)
  <2>1. req[r].pc = "publish"
    BY <1>3 DEF PublishCommit
  <2>2. /\ r \in UnderWay /\ MirrorTrue
        /\ req[r].seen = 1 <=> file.token = None
    BY <2>1 DEF UnderWay, Serial, TakesPlace, InTransaction, Ended
  <2>3. PICK token \in Tokens :
          /\ token = IF file.token = None THEN r ELSE file.token
          /\ file' = [file EXCEPT !.visibility = "published", !.token = token]
          /\ Become(r, [req[r] EXCEPT !.pc = "get", !.token = token, !.n = file.current])
    <3>1. file.token \in Tokens \cup {None} /\ r \in Tokens /\ None \notin Tokens
      BY Typed, RequestsAssumption DEF Tokens
    <3>2. QED BY <1>3, <2>2, <3>1 DEF PublishCommit
  <2>4. UNCHANGED <<versions, index, snaps>> /\ Numbers' = Numbers
    BY <1>3 DEF PublishCommit, bucket, Numbers
  <2>5. Moves(r, "get", req[r].op, file.current, req[r].seen, token, req[r].html)
    BY <2>3, BecomeMoves, LocalsSet, Typed
  <2>6. /\ file'.current = file.current /\ file'.visibility = "published"
        /\ file'.status = file.status /\ file'.token = token /\ token # None
    BY <1>1, <2>3, RequestsAssumption DEF File, Tokens
  <2>7. /\ req'[r].pc = "get" /\ req'[r].n = file.current /\ req'[r].token = token
        /\ \A q \in Requests \ {r} : req'[q] = req[q]
    BY <2>5 DEF Moves, Has
  <2>8. RowsTrue'
    BY <1>1, <2>4, <2>6 DEF RowsTrue, Active, CurrentIsNewest
  <2>9. ASSUME file.token # None
        PROVE  OthersEmpty' /\ \A k : SnapsTrue(k)'
    <3>1. token = file.token
      BY <2>3, <2>9
    <3>2. file'.token = file.token /\ index' = index /\ snaps' = snaps
          /\ versions' = versions
      BY <2>4, <2>6, <3>1
    <3>3. OthersEmpty'
      BY <2>2, <3>2 DEF MirrorTrue, OthersEmpty
    <3>4. \A k : SnapsTrue(k)'
      BY <2>2, <2>4, <3>2, FewerSnapsTrue DEF MirrorTrue
    <3>5. QED BY <3>3, <3>4
  <2>10. ASSUME file.token = None
         PROVE  OthersEmpty' /\ \A k : SnapsTrue(k)'
    <3>1. \A t \in Tokens : index[t] = "absent" /\ snaps[t] = {}
      BY <2>2, <2>10 DEF MirrorTrue, Shown
    <3>2. QED BY <2>4, <2>6, <3>1 DEF OthersEmpty, SnapsTrue
  <2>11. TakesPlace(r)'
    BY <2>6, <2>7, <2>9, <2>10 DEF TakesPlace, InTransaction
  <2>12. r \in UnderWay'
    BY <2>7 DEF UnderWay, Ended
  <2>13. QED BY <2>2, <2>7, <2>8, <2>11, <2>12, StepAlone
<1>4. QED BY <1>2, <1>3 DEF Publishing

(* An unpublication hides the file; there is nothing in the bucket, or it  *)
(* is to be wiped.                                                         *)
LEMMA UnpublishSerial ==
  ASSUME FileTypeOK, Serial, NEW r \in Requests, Unpublish(r), \A p, q \in UnderWay' : p = q
  PROVE  Serial'
<1>1. RowsTrue /\ file \in File
  BY Typed DEF Serial
<1>2. PICK pc : /\ pc = IF file.token # None THEN "wipe" ELSE "done"
                /\ Become(r, [Fresh EXCEPT !.pc = pc, !.op = "unpublish", !.token = file.token])
  BY DEF Unpublish
<1>3. Moves(r, pc, "unpublish", Fresh.n, Fresh.seen, file.token, Fresh.html)
  BY <1>2, BecomeMoves, LocalsSet, FreshTyped
<1>4. /\ req'[r].pc = pc /\ req'[r].token = file.token
      /\ \A q \in Requests \ {r} : req'[q] = req[q]
  BY <1>3 DEF Moves, Has
<1>5. /\ req[r].pc = "new" /\ UNCHANGED <<versions, bucket>>
      /\ file' = [file EXCEPT !.visibility = "private"]
  BY DEF Unpublish, Start
<1>6. /\ file'.current = file.current /\ file'.visibility = "private"
      /\ file'.status = file.status /\ file'.token = file.token
  BY <1>1, <1>5 DEF File
<1>7. Numbers' = Numbers /\ index' = index /\ snaps' = snaps
  BY <1>5 DEF Numbers, bucket
<1>8. CASE file.token # None
  <2>1. req'[r].pc = "wipe"
    BY <1>2, <1>4, <1>8
  <2>2. MirrorTrue /\ (RowsTrue' /\ TakesPlace(r)' => Serial')
    BY <1>4, <1>5, <2>1, StartAlone DEF Ended
  <2>3. RowsTrue'
    BY <1>1, <1>6, <1>7 DEF RowsTrue, Active, CurrentIsNewest
  <2>4. OthersEmpty'
    BY <1>6, <1>7, <2>2 DEF MirrorTrue, OthersEmpty
  <2>5. TakesPlace(r)'
    BY <1>4, <1>6, <1>8, <2>1, <2>4 DEF TakesPlace, InTransaction
  <2>6. QED BY <2>2, <2>3, <2>5
(* Nothing changes but that the request has ended.                         *)
<1>9. CASE file.token = None
  <2>1. req'[r].pc = "done" /\ file.visibility = "private"
    BY <1>1, <1>2, <1>4, <1>9 DEF RowsTrue, File
  <2>2. file' = file
    BY <1>1, <1>5, <2>1 DEF File
  <2>3. UnderWay' = UnderWay /\ \A q \in UnderWay : req'[q] = req[q]
    BY <1>4, <1>5, <2>1 DEF UnderWay, Ended
  <2>4. QED BY <1>5, <2>2, <2>3, SerialKept
<1>10. QED BY <1>8, <1>9

(* The mirror is written after the commit: each put brings it closer to    *)
(* the rows, and the last one there.                                       *)
LEMMA MirrorSerial ==
  ASSUME FileTypeOK, Serial, NEW r \in Requests, Mirror(r), ~BucketFails(r)
  PROVE  Serial'
<1>1. RowsTrue /\ file \in File
  BY Typed DEF Serial
<1>2. req[r].pc \in Mirroring /\ file' = file /\ versions' = versions /\ Numbers' = Numbers
  BY DEF Mirror, MirrorGet, PutSnapshot, PutIndex, Wipe, Mirroring, database, Numbers
<1>3. RowsTrue'
  BY <1>1, <1>2 DEF RowsTrue, Active, CurrentIsNewest
<1>4. /\ r \in UnderWay /\ TakesPlace(r) /\ OthersEmpty
      /\ file.token # None /\ file.token \in Tokens
  BY <1>1, <1>2, Typed DEF UnderWay, Serial, TakesPlace, Mirroring, Ended
<1>5. CASE MirrorGet(r)
  <2>1. /\ req[r].pc = "get" /\ UNCHANGED <<versions, bucket>>
        /\ file.visibility = "published" /\ \A n : SnapsTrue(n)
        /\ req[r].op = "delete" \/ (req[r].token = file.token /\ req[r].n = file.current)
    BY <1>4, <1>5 DEF MirrorGet, TakesPlace, database
  <2>2. Become(r, [req[r] EXCEPT !.pc = "put snapshot", !.n = file.current,
                                 !.token = file.token, !.html = versions[file.current]])
    BY <1>1, <1>4, <1>5, <2>1 DEF MirrorGet, RowsTrue, CurrentIsNewest
  <2>3. Moves(r, "put snapshot", req[r].op, file.current, req[r].seen, file.token,
              versions[file.current])
    BY <2>2, BecomeMoves, LocalsSet, Typed
  <2>4. /\ req'[r].pc = "put snapshot" /\ req'[r].n = file.current
        /\ req'[r].token = file.token /\ req'[r].html = versions[file.current]
        /\ \A q \in Requests \ {r} : req'[q] = req[q]
    BY <2>3 DEF Moves, Has
  <2>5. OthersEmpty' /\ \A n : SnapsTrue(n)'
    BY <1>1, <1>2, <1>4, <2>1, RowsKept
  <2>6. TakesPlace(r)'
    BY <1>2, <1>4, <2>1, <2>4, <2>5 DEF TakesPlace, InTransaction
  <2>7. QED BY <1>3, <1>4, <2>4, <2>6, StepAlone DEF UnderWay, Ended
<1>6. CASE PutSnapshot(r)
  <2>1. /\ req[r].pc = "put snapshot" /\ index' = index /\ file.visibility = "published"
        /\ req[r].n = file.current /\ req[r].html = versions[file.current]
        /\ req[r].token = file.token /\ SnapsTrue(file.current)
    BY <1>4, <1>6 DEF PutSnapshot, TakesPlace
  <2>2. snaps' = [snaps EXCEPT ![file.token] = {s \in @ : s[1] # file.current}
                                                 \cup {<<file.current, versions[file.current]>>}]
    BY <1>6, <2>1 DEF PutSnapshot
  <2>3. /\ snaps'[file.token] = {s \in snaps[file.token] : s[1] # file.current}
                                  \cup {<<file.current, versions[file.current]>>}
        /\ \A t \in Tokens : t # file.token => snaps'[t] = snaps[t]
    BY <1>4, <2>2 DEF FileTypeOK
  <2>4. ASSUME NEW n
        PROVE  SnapsTrue(n)'
    <3>1. SUFFICES ASSUME NEW s \in snaps'[file.token], s[1] \in Numbers
                   PROVE  versions[s[1]] = s[2]
      BY <1>2 DEF SnapsTrue
    <3>2. CASE s \in snaps[file.token] /\ s[1] # file.current
      BY <1>4, <2>1, <3>1, <3>2 DEF SnapsTrue
    <3>3. CASE s = <<file.current, versions[file.current]>>
      BY <3>3
    <3>4. QED BY <2>3, <3>1, <3>2, <3>3
  <2>5. OthersEmpty'
    BY <1>2, <1>4, <2>1, <2>3 DEF OthersEmpty
  <2>6. /\ req'[r].pc = "put index" /\ req'[r].n = file.current
        /\ req'[r].token = file.token /\ req'[r].html = versions[file.current]
        /\ \A q \in Requests \ {r} : req'[q] = req[q]
    BY <1>6, <2>1, GotoMoves DEF PutSnapshot
  <2>7. TakesPlace(r)'
    BY <1>2, <1>4, <2>1, <2>4, <2>5, <2>6 DEF TakesPlace, InTransaction
  <2>8. QED BY <1>3, <1>4, <2>6, <2>7, StepAlone DEF UnderWay, Ended
<1>7. CASE PutIndex(r)
  <2>1. /\ req[r].pc = "put index" /\ snaps' = snaps /\ file.visibility = "published"
        /\ req[r].html = versions[file.current]
        /\ req[r].token = file.token /\ \A n : SnapsTrue(n)
    BY <1>4, <1>7 DEF PutIndex, TakesPlace
  <2>2. /\ index'[file.token] = versions[file.current]
        /\ \A t \in Tokens : t # file.token => index'[t] = index[t]
    BY <1>4, <1>7, <2>1 DEF PutIndex, FileTypeOK
  <2>3. OthersEmpty'
    BY <1>2, <1>4, <2>1, <2>2 DEF OthersEmpty
  <2>4. \A n : SnapsTrue(n)'
    BY <1>2, <2>1 DEF SnapsTrue
  <2>5. MirrorTrue'
    BY <1>2, <1>4, <2>1, <2>2, <2>3, <2>4 DEF MirrorTrue, Shown
  <2>6. req'[r].pc = "done" /\ \A q \in Requests \ {r} : req'[q] = req[q]
    BY <1>7, GotoMoves DEF PutIndex
  <2>7. QED BY <1>3, <1>4, <2>5, <2>6, StepAlone DEF UnderWay, Ended
<1>8. CASE Wipe(r)
  <2>1. /\ req[r].pc = "wipe" /\ file.visibility = "private" /\ req[r].token = file.token
    BY <1>4, <1>8 DEF Wipe, TakesPlace
  <2>2. \A t \in Tokens : /\ t = file.token => index'[t] = "absent" /\ snaps'[t] = {}
                          /\ t # file.token => index'[t] = index[t] /\ snaps'[t] = snaps[t]
    BY <1>4, <1>8, <2>1 DEF Wipe, FileTypeOK
  <2>3. \A t \in Tokens : index'[t] = "absent" /\ snaps'[t] = {}
    BY <1>4, <2>2 DEF OthersEmpty
  <2>4. MirrorTrue'
    BY <1>2, <1>4, <2>1, <2>3 DEF MirrorTrue, OthersEmpty, SnapsTrue, Shown
  <2>5. req'[r].pc = "done" /\ \A q \in Requests \ {r} : req'[q] = req[q]
    BY <1>8, GotoMoves DEF Wipe
  <2>6. QED BY <1>3, <1>4, <2>4, <2>5, StepAlone DEF UnderWay, Ended
<1>9. QED BY <1>5, <1>6, <1>7, <1>8 DEF Mirror

LEMMA InitSerial == Init => Serial
<1> SUFFICES ASSUME Init PROVE Serial
  OBVIOUS
<1>1. UnderWay = {}
  BY DEF Init, UnderWay, Fresh, Ended
<1>2. Numbers = {1} /\ file.current = 1 /\ file.visibility = "private"
      /\ file.token = None /\ file.status = "active"
  BY DEF Init, Numbers, FirstVersion, Created
<1>3. RowsTrue
  <2>1. IsFiniteSet(Numbers)
    BY <1>2, FS_Singleton
  <2>2. CurrentIsNewest
    BY <1>2 DEF CurrentIsNewest
  <2>3. QED BY <1>2, <2>1, <2>2 DEF RowsTrue, Active
<1>4. MirrorTrue
  BY <1>2 DEF Init, MirrorTrue, OthersEmpty, SnapsTrue, Shown
<1>5. QED BY <1>1, <1>3, <1>4 DEF Serial

(* While no two requests are under way they are at most one.               *)
LEMMA AtMostOne ==
  ASSUME ~ (Cardinality(UnderWay') > 1), NEW p \in UnderWay', NEW q \in UnderWay'
  PROVE  p = q
<1>1. IsFiniteSet(UnderWay')
  BY RequestsAssumption, FS_Subset DEF UnderWay
<1>2. SUFFICES ASSUME p # q PROVE FALSE
  OBVIOUS
<1>3. IsFiniteSet({p}) /\ Cardinality({p}) = 1
  BY FS_Singleton
<1>4. Cardinality({p} \cup {q}) = 2
  BY <1>2, <1>3, FS_AddElement
<1>5. Cardinality({p} \cup {q}) <= Cardinality(UnderWay')
  BY <1>1, FS_Subset
<1>6. Cardinality(UnderWay') \in Nat
  BY <1>1, FS_CardinalityType
<1>7. QED BY <1>4, <1>5, <1>6

(* The rows and the mirror between two requests, as the public pages and   *)
(* the links to the bucket show them.                                      *)
LEMMA SerialShows == FileTypeOK /\ Serial => CurrentIsNewest /\ MirrorFollows
<1> SUFFICES ASSUME FileTypeOK, Serial, Quiet
             PROVE  /\ CurrentIsNewest
                    /\ \A h \in Handles : Published(h) =>
                         /\ Page(h) = {index[DirectUrl(h)]}
                         /\ \A s \in snaps[DirectUrl(h)] :
                              s[1] \in Sidebar(h) => PageOf(h, s[1]) = {s[2]}
                    /\ \A t \in Tokens : ~ Published(t) => index[t] = "absent" /\ snaps[t] = {}
  BY DEF MirrorFollows, Serial, RowsTrue
<1>1. RowsTrue /\ MirrorTrue
  BY DEF Serial, UnderWay, Quiet
<1>2. ASSUME NEW h \in Handles, Published(h)
      PROVE  /\ Page(h) = {index[DirectUrl(h)]}
             /\ \A s \in snaps[DirectUrl(h)] :
                  s[1] \in Sidebar(h) => PageOf(h, s[1]) = {s[2]}
  <2>1. Shown /\ DirectUrl(h) = file.token
    BY <1>1, <1>2, RequestsAssumption
       DEF Published, Bears, Shown, DirectUrl, RowsTrue
  <2>2. Page(h) = {versions[file.current]}
    BY <1>1, <1>2 DEF Page, PageOf, RowsTrue, CurrentIsNewest
  <2>3. ASSUME NEW s \in snaps[file.token], s[1] \in Numbers
        PROVE  PageOf(h, s[1]) = {s[2]}
    <3>1. SnapsTrue(s[1] + 1) /\ s[1] # s[1] + 1
      BY <1>1, <2>3 DEF MirrorTrue, FileTypeOK, Numbers
    <3>2. QED BY <1>2, <2>1, <2>3, <3>1 DEF SnapsTrue, Shown, PageOf
  <2>4. QED BY <1>1, <1>2, <2>1, <2>2, <2>3 DEF MirrorTrue, Sidebar
<1>3. ASSUME NEW t \in Tokens, ~Published(t)
      PROVE  index[t] = "absent" /\ snaps[t] = {}
  <2>1. t # "slug"
    BY RequestsAssumption DEF Tokens
  <2>2. file.token # t \/ file.visibility # "published"
    BY <1>1, <1>3, <2>1 DEF Published, Bears, RowsTrue
  <2>3. QED BY <1>1, <2>2 DEF MirrorTrue, OthersEmpty, Shown
<1>4. QED BY <1>1, <1>2, <1>3 DEF RowsTrue

(* However many requests there are and whatever they do: until two of them *)
(* are under way at once, or one is cut off or fails in the bucket, or the *)
(* file is archived, the current version is the newest and the bucket      *)
(* mirrors exactly what the public page shows.                             *)
THEOREM MirrorFollowsSerially == SerialSpec => []SerialMirrorFollows
<1> DEFINE Inv == FileTypeOK /\ crossed \in BOOLEAN /\ (crossed \/ Serial)
<1>1. SerialInit => Inv
  BY InitTyped, InitSerial DEF SerialInit
<1>2. Inv /\ [SerialNext]_serialVars => Inv'
  <2> SUFFICES ASSUME FileTypeOK, crossed \in BOOLEAN, crossed \/ Serial,
                      [SerialNext]_serialVars
               PROVE  Inv'
    OBVIOUS
  <2>1. CASE UNCHANGED serialVars
    <3>1. UNCHANGED <<file, versions, index, snaps, req, crossed>>
      BY <2>1 DEF serialVars, vars
    <3>2. FileTypeOK'
      BY <3>1 DEF FileTypeOK
    <3>3. Serial => Serial'
      BY <3>1, SerialKept DEF bucket, UnderWay
    <3>4. QED BY <3>1, <3>2, <3>3
  <2>2. ASSUME NEW r \in Requests, Step(r), SerialNext
        PROVE  Inv'
    <3>1. FileTypeOK' /\ crossed' \in BOOLEAN
      BY <2>2, UpdateTyped, DeleteTyped, PublishTyped, MirrorTyped, RestTyped
         DEF Step, Updating, Deleting, Publishing, Archiving, Mirror, SerialNext
    <3>2. ASSUME ~crossed'
          PROVE  Serial'
      <4>1. /\ Serial /\ ~ (Cardinality(UnderWay') > 1)
            /\ ~Abort(r) /\ ~BucketFails(r) /\ ~ArchiveRead(r)
        BY <2>2, <3>2 DEF SerialNext
      <4>2. \A p, q \in UnderWay' : p = q
        BY <4>1, AtMostOne
      <4>3. ~ArchiveCommit(r)
        BY <4>1 DEF ArchiveCommit, Serial, UnderWay, TakesPlace, Ended
      <4>4. QED
        BY <2>2, <4>1, <4>2, <4>3, UpdateSerial, DeleteSerial, PublishSerial, UnpublishSerial,
           MirrorSerial DEF Step, Archiving
    <3>3. QED BY <3>1, <3>2
  <2>3. QED BY <2>1, <2>2 DEF SerialNext, Next
<1>3. Inv => SerialMirrorFollows
  BY SerialShows DEF SerialMirrorFollows
<1>4. QED BY <1>1, <1>2, <1>3, PTL DEF SerialSpec

----------------------------------------------------------------------------
(* The ontology.  The types.                                               *)
Linking == {"predicate", "type", "subject", "object", "add"}
CallStages ==
  Linking \cup {"new", "duplicate", "store", "allowed", "log", "done", "failed"}
LinkCall ==
  [pc : CallStages, action : BOOLEAN, content : Memories \cup {Absent}, link : Links \cup {Absent},
   refs : Seq(Links), allowed : SUBSET Predicates, type : LinkType \cup {Absent},
   subject : Kinds \cup {Absent}, ok : BOOLEAN, new : BOOLEAN, made : SUBSET Links]

OntologyTyped ==
  /\ linkTypes \in [Predicates -> LinkType \cup {Absent}]
  /\ entity \in [Names -> Kinds \cup {Absent}]
  /\ edges \in [Links -> Nat]
  /\ log \in [Calls -> {"applied", "failed", Absent}]
  /\ call \in [Calls -> LinkCall]
  /\ calm \subseteq Calls

(* What a call has in hand, and what it has done: a result it calls good   *)
(* is there, and what it wrote of a bad one is excused.                    *)
InHand(s) ==
  /\ s.pc \in Linking => s.link \in Links
  /\ s.pc \in Linking /\ s.content # Absent => s.new
  /\ s.pc \in Linking /\ s.content = Absent => s.made = {} /\ ~ s.new /\ s.refs = <<>>
  /\ s.pc \in {"duplicate", "store", "allowed"} => s.content \in Memories /\ s.made = {}
  /\ s.pc \in {"duplicate", "store"} => ~ s.new
  /\ s.pc = "allowed" => s.new
  /\ s.pc = "log" => s.action

Took(s) ==
  /\ s.new => s.content \in stored
  /\ s.ok => IF s.content = Absent THEN s.link \in Links /\ edges[s.link] > 0
                                   ELSE s.content \in stored

Accounts(s, entry, harmed) ==
  /\ s.action /\ s.pc \in {"log", "done"} /\ ~ s.ok /\ Wrote(s) => harmed
  /\ s.pc = "failed" => harmed
  /\ entry = IF s.pc = "done" /\ s.action
             THEN (IF s.ok THEN "applied" ELSE "failed") ELSE Absent

Effects ==
  \A c \in Calls : InHand(call[c]) /\ Took(call[c]) /\ Accounts(call[c], log[c], c \in hurt)

(* What a call knows when nothing changed since it began, and how far it   *)
(* has come with the links it was asked for.                               *)
Nothing == \A p \in Predicates : linkTypes[p] = Absent
RefsOf(s) == {s.refs[k] : k \in DOMAIN s.refs}

Knowing(s) ==
  /\ s.pc = "type" => linkTypes[s.link[2]] # Absent \/ Nothing
  /\ s.pc \in {"subject", "object"} => s.type # Absent /\ s.type = linkTypes[s.link[2]]
  /\ s.pc = "object" => s.subject = entity[s.link[1]]
  /\ s.pc = "add" => Conforms(s.link)

Progress(s) ==
  /\ \A l \in s.made : l \in Asked(s) /\ Conforms(l)
  /\ s.pc \in Linking /\ s.content # Absent =>
       /\ s.link \in Mentioned(s.content) /\ RefsOf(s) \subseteq Mentioned(s.content)
       /\ \A l \in Mentioned(s.content) : Conforms(l) =>
            l[2] \in s.allowed /\ (l \in s.made \/ l = s.link \/ l \in RefsOf(s))
  /\ s.pc \in {"log", "done"} /\ (s.content = Absent \/ s.new) =>
       \A l \in Asked(s) : Conforms(l) => l \in s.made

Unchanged == \A c \in calm \ hurt : Knowing(call[c]) /\ Progress(call[c])

----------------------------------------------------------------------------
(* Steps of one call, which leave the others alone.                        *)

LEMMA IdleCall == Idle \in LinkCall
  BY OntologyAssumption DEF Idle, LinkCall, CallStages, Linking

LEMMA OthersRest ==
  ASSUME OntologyTyped, NEW c \in Calls, NEW s \in LinkCall, Resume(c, s)
  PROVE  /\ call' \in [Calls -> LinkCall]
         /\ call'[c] = s
         /\ \A d \in Calls \ {c} : call'[d] = call[d]
  BY DEF OntologyTyped, Resume

(* The registry stays typed, and the rest with it.                         *)
LEMMA StepKeepsTypes ==
  ASSUME OntologyTyped, NEW c \in Calls, NEW s \in LinkCall, Resume(c, s),
         linkTypes' \in [Predicates -> LinkType \cup {Absent}],
         entity' \in [Names -> Kinds \cup {Absent}],
         edges' \in [Links -> Nat],
         log' \in [Calls -> {"applied", "failed", Absent}],
         calm' \subseteq Calls
  PROVE  OntologyTyped'
<1>1. call' \in [Calls -> LinkCall]
  BY OthersRest
<1>2. QED BY <1>1 DEF OntologyTyped

(* A call that goes on leaves what the others wrote, and their entries.    *)
LEMMA StepKeepsEffects ==
  ASSUME OntologyTyped, Effects, NEW c \in Calls, NEW s \in LinkCall, Resume(c, s),
         \A m \in stored : m \in stored',
         \A l \in Links : edges[l] > 0 => edges'[l] > 0,
         \A d \in hurt : d \in hurt',
         \A d \in Calls \ {c} : log'[d] = log[d] /\ (d \in hurt' => d \in hurt),
         InHand(s), Took(s)', Accounts(s, log'[c], c \in hurt')
  PROVE  Effects'
<1>1. call'[c] = s /\ \A d \in Calls \ {c} : call'[d] = call[d]
  BY OthersRest
<1>2. ASSUME NEW d \in Calls \ {c}
      PROVE  /\ InHand(call'[d]) /\ Accounts(call'[d], log'[d], d \in hurt')
             /\ Took(call[d])'
  <2>1. /\ InHand(call[d]) /\ Took(call[d])
        /\ Accounts(call[d], log[d], d \in hurt)
    BY DEF Effects
  <2>2. PICK t \in LinkCall : t = call[d]
    BY DEF OntologyTyped
  <2>3. call'[d] = t /\ InHand(t) /\ Accounts(t, log[d], d \in hurt)
    BY <1>1, <2>1, <2>2
  <2>4. Accounts(t, log'[d], d \in hurt')
    BY <2>3 DEF Accounts
  <2>5. Took(call[d])'
    BY <1>1, <2>1, <2>2 DEF Took
  <2>6. QED BY <2>3, <2>4, <2>5
<1>3. QED
  <2>1. \A d \in Calls : InHand(call'[d]) /\ Accounts(call'[d], log'[d], d \in hurt')
    BY <1>1, <1>2
  <2>2. \A d \in Calls : Took(call[d])'
    <3>1. SUFFICES ASSUME NEW d \in Calls PROVE Took(call[d])'
      OBVIOUS
    <3>2. CASE d = c
      BY <1>1, <3>2 DEF Took
    <3>3. CASE d # c
      BY <1>2, <3>3
    <3>4. QED BY <3>2, <3>3
  <2>3. QED BY <2>1, <2>2 DEF Effects

(* While the registry rests, the others know what they knew.               *)
LEMMA StepKeepsKnowledge ==
  ASSUME OntologyTyped, Unchanged, NEW c \in Calls, NEW s \in LinkCall, Resume(c, s),
         UNCHANGED registry,
         \A d \in calm' : d \in calm \/ d = c,
         \A d \in hurt : d \in hurt',
         c \in calm' \ hurt' => Knowing(s) /\ Progress(s)
  PROVE  Unchanged'
<1>1. call'[c] = s /\ \A d \in Calls \ {c} : call'[d] = call[d]
  BY OthersRest
<1>2. ASSUME NEW d \in calm' \ hurt'
      PROVE  (Knowing(call[d]) /\ Progress(call[d]))'
  <2>1. PICK t : t = call'[d] /\ Knowing(t) /\ Progress(t)
    <3>1. CASE d = c
      BY <1>1, <1>2, <3>1
    <3>2. CASE d # c
      <4>1. d \in calm \ hurt /\ d \in Calls
        BY <1>2, <3>2 DEF OntologyTyped
      <4>2. QED BY <1>1, <3>2, <4>1 DEF Unchanged
    <3>3. QED BY <3>1, <3>2
  <2>2. UNCHANGED <<linkTypes, entity>>
    BY DEF registry
  <2>3. Knowing(call[d])'
    BY <2>1, <2>2 DEF Knowing, Conforms, Nothing
  <2>4. Progress(call[d])'
    BY <2>1, <2>2 DEF Progress, Conforms
  <2>5. QED BY <2>3, <2>4
<1>3. QED BY <1>2 DEF Unchanged

----------------------------------------------------------------------------
(* How a call goes on.                                                     *)

(* A set of numbers has a least one.                                       *)
LEMMA LeastNumber ==
  ASSUME NEW T \in SUBSET Nat, T # {}
  PROVE  \E k \in T : \A j \in T : k <= j
<1>1. PICK R : R = {ss \in Nat \X Nat : ss[1] < ss[2]}
  OBVIOUS
<1>2. OpToRel(<, Nat) = R
  BY <1>1 DEF OpToRel
<1>3. IsWellFoundedOn(R, Nat)
  BY <1>2, NatLessThanWellFounded
<1>4. PICK k \in T : \A j \in T : ~ (<<j, k>> \in R)
  BY <1>3, WFMin
<1>5. ASSUME NEW j \in T
      PROVE  k <= j
  <2>1. k \in Nat /\ j \in Nat
    OBVIOUS
  <2>2. <<j, k>> \in Nat \X Nat /\ <<j, k>>[1] = j /\ <<j, k>>[2] = k
    BY <2>1
  <2>3. ~ (j < k)
    <3>1. SUFFICES ASSUME j < k PROVE <<j, k>> \in R
      BY <1>4
    <3>2. QED BY <1>1, <2>2, <3>1
  <2>4. QED BY <2>1, <2>3
<1>6. QED BY <1>5

(* A result: the next stage, and nothing else of the call.                 *)
LEMMA FinishedCall ==
  ASSUME NEW s \in LinkCall, NEW ok \in BOOLEAN
  PROVE  \E t \in LinkCall :
           /\ t = Finished(s, ok)
           /\ t.pc = (IF s.action THEN "log" ELSE "done") /\ t.ok = ok
           /\ t.action = s.action /\ t.content = s.content /\ t.link = s.link
           /\ t.allowed = s.allowed /\ t.new = s.new /\ t.made = s.made
<1>1. PICK pc \in CallStages : pc = IF s.action THEN "log" ELSE "done"
  BY DEF CallStages
<1>2. PICK t : t = [s EXCEPT !.pc = pc, !.ok = ok]
  OBVIOUS
<1>3. /\ t \in LinkCall /\ t.pc = pc /\ t.ok = ok
      /\ t.action = s.action /\ t.content = s.content /\ t.link = s.link
      /\ t.allowed = s.allowed /\ t.new = s.new /\ t.made = s.made
  BY <1>2 DEF LinkCall
<1>4. t = Finished(s, ok)
  BY <1>1, <1>2 DEF Finished
<1>5. QED BY <1>1, <1>3, <1>4

(* apply_autolink takes up the first reference with an allowed predicate   *)
(* and leaves those behind it; what it passes over is not allowed.         *)
LEMMA OnwardGoes ==
  ASSUME NEW s \in LinkCall
  PROVE  \E t \in LinkCall :
           /\ t = Onward(s)
           /\ t.action = s.action /\ t.content = s.content
           /\ t.allowed = s.allowed /\ t.new = s.new /\ t.made = s.made
           /\ \/ /\ t.pc = (IF s.action THEN "log" ELSE "done") /\ t.ok = TRUE
                 /\ t.link = s.link
                 /\ \A l \in RefsOf(s) : l[2] \notin s.allowed
              \/ /\ t.pc = "predicate" /\ t.ok = s.ok
                 /\ t.link \in RefsOf(s) /\ RefsOf(t) \subseteq RefsOf(s)
                 /\ \A l \in RefsOf(s) : l[2] \in s.allowed => l = t.link \/ l \in RefsOf(t)
<1>1. PICK found : found = {k \in DOMAIN s.refs : s.refs[k][2] \in s.allowed}
  OBVIOUS
<1>2. s.refs \in Seq(Links)
  BY DEF LinkCall
<1>3. CASE found = {}
  <2>1. Onward(s) = Finished(s, TRUE)
    BY <1>1, <1>3 DEF Onward
  <2>2. \A l \in RefsOf(s) : l[2] \notin s.allowed
    BY <1>1, <1>3 DEF RefsOf
  <2>3. PICK t \in LinkCall :
           /\ t = Finished(s, TRUE)
           /\ t.pc = (IF s.action THEN "log" ELSE "done") /\ t.ok = TRUE
           /\ t.action = s.action /\ t.content = s.content /\ t.link = s.link
           /\ t.allowed = s.allowed /\ t.new = s.new /\ t.made = s.made
    BY FinishedCall
  <2>4. QED BY <2>1, <2>2, <2>3
<1>4. CASE found # {}
  <2>1. found \in SUBSET Nat
    BY <1>1, <1>2
  <2>2. PICK n : n = CHOOSE k \in found : \A j \in found : k <= j
    OBVIOUS
  <2>3. n \in found /\ \A j \in found : n <= j
    BY <1>4, <2>1, <2>2, LeastNumber
  <2>4. n \in 1 .. Len(s.refs) /\ s.refs[n] \in Links /\ Len(s.refs) \in Nat
    BY <1>1, <1>2, <2>3
  <2>5. PICK rest : rest = SubSeq(s.refs, n + 1, Len(s.refs))
    OBVIOUS
  <2>6. rest \in Seq(Links) /\ Len(rest) = Len(s.refs) - n
        /\ \A k \in 1 .. Len(s.refs) - n : rest[k] = s.refs[n + k]
    BY <1>2, <2>4, <2>5
  <2>7. PICK t : t = [s EXCEPT !.pc = "predicate", !.link = s.refs[n], !.refs = rest]
    OBVIOUS
  <2>8. "predicate" \in CallStages
    BY DEF CallStages, Linking
  <2>9. /\ t \in LinkCall /\ t.pc = "predicate" /\ t.ok = s.ok
        /\ t.link = s.refs[n] /\ t.refs = rest
        /\ t.action = s.action /\ t.content = s.content
        /\ t.allowed = s.allowed /\ t.new = s.new /\ t.made = s.made
    BY <2>4, <2>6, <2>7, <2>8 DEF LinkCall
  <2>10. t = Onward(s)
    <3>1. Onward(s) = [s EXCEPT !.pc = "predicate", !.link = s.refs[n],
                                !.refs = SubSeq(s.refs, n + 1, Len(s.refs))]
      BY <1>1, <1>4, <2>2, Zenon DEF Onward
    <3>2. QED BY <2>5, <2>7, <3>1
  <2>11. t.link \in RefsOf(s)
    BY <1>2, <2>4, <2>9 DEF RefsOf
  <2>12. ASSUME NEW k \in DOMAIN rest PROVE rest[k] \in RefsOf(s)
    <3>1. k \in 1 .. Len(s.refs) - n
      BY <2>6
    <3>2. n + k \in DOMAIN s.refs
      BY <1>2, <2>4, <3>1
    <3>3. QED BY <2>6, <3>1, <3>2 DEF RefsOf
  <2>13. RefsOf(t) \subseteq RefsOf(s)
    BY <2>9, <2>12 DEF RefsOf
  <2>14. ASSUME NEW j \in DOMAIN s.refs, s.refs[j][2] \in s.allowed
         PROVE  s.refs[j] = t.link \/ s.refs[j] \in RefsOf(t)
    <3>1. j \in found /\ j \in 1 .. Len(s.refs) /\ n <= j
      BY <1>1, <1>2, <2>3, <2>14
    <3>2. CASE j = n
      BY <2>9, <3>2
    <3>3. CASE j # n
      <4>1. j - n \in 1 .. Len(s.refs) - n /\ n + (j - n) = j
        BY <2>4, <3>1, <3>3
      <4>2. j - n \in DOMAIN rest /\ rest[j - n] = s.refs[j]
        BY <2>6, <4>1
      <4>3. QED BY <2>9, <4>2 DEF RefsOf
    <3>4. QED BY <3>2, <3>3
  <2>15. \A l \in RefsOf(s) : l[2] \in s.allowed => l = t.link \/ l \in RefsOf(t)
    BY <2>14 DEF RefsOf
  <2>16. QED BY <2>9, <2>10, <2>11, <2>13, <2>15
<1>5. QED BY <1>3, <1>4

----------------------------------------------------------------------------
(* The inductive invariant, and what it says of the call that takes a step.*)
LinkInv == OntologyTyped /\ Effects /\ Unchanged

LEMMA CallInHand ==
  ASSUME LinkInv, NEW c \in Calls
  PROVE  \E s \in LinkCall :
           /\ s = call[c] /\ InHand(s) /\ Took(s) /\ Accounts(s, log[c], c \in hurt)
           /\ c \in calm \ hurt => Knowing(s) /\ Progress(s)
  BY DEF LinkInv, OntologyTyped, Effects, Unchanged

LEMMA GoKeeps ==
  ASSUME LinkInv, NEW c \in Calls, NEW t \in LinkCall, Go(c, t),
         InHand(t), Took(t), Accounts(t, log[c], c \in hurt),
         c \in calm \ hurt => Knowing(t) /\ Progress(t)
  PROVE  LinkInv'
<1>1. /\ OntologyTyped /\ Effects /\ Unchanged /\ Resume(c, t)
      /\ UNCHANGED registry /\ UNCHANGED <<edges, stored, log, calm, hurt>>
      /\ UNCHANGED <<linkTypes, entity>>
  BY DEF LinkInv, Go, registry
<1>2. OntologyTyped'
  <2>1. /\ linkTypes' \in [Predicates -> LinkType \cup {Absent}]
        /\ entity' \in [Names -> Kinds \cup {Absent}]
        /\ edges' \in [Links -> Nat]
        /\ log' \in [Calls -> {"applied", "failed", Absent}]
        /\ calm' \subseteq Calls
    BY <1>1 DEF OntologyTyped
  <2>2. QED BY <1>1, <2>1, StepKeepsTypes
<1>3. Effects'
  <2>1. Took(t)' /\ Accounts(t, log'[c], c \in hurt')
    BY <1>1 DEF Took, Accounts
  <2>2. QED BY <1>1, <2>1, StepKeepsEffects
<1>4. Unchanged'
  BY <1>1, StepKeepsKnowledge
<1>5. QED BY <1>2, <1>3, <1>4 DEF LinkInv

(* Going on keeps the call in order, and it has come as far as the next    *)
(* reference, or to the end.                                               *)
LEMMA OnwardOrderly ==
  ASSUME NEW s \in LinkCall, s.content # Absent, s.new, s.content \in stored,
         NEW harmed \in BOOLEAN
  PROVE  \E t \in LinkCall :
           /\ t = Onward(s) /\ t.content = s.content /\ t.made = s.made
           /\ InHand(t) /\ Took(t) /\ Accounts(t, Absent, harmed)
           /\ /\ \A l \in s.made : l \in Asked(s) /\ Conforms(l)
              /\ RefsOf(s) \subseteq Mentioned(s.content)
              /\ \A l \in Mentioned(s.content) : Conforms(l) =>
                   l[2] \in s.allowed /\ (l \in s.made \/ l \in RefsOf(s))
              => Knowing(t) /\ Progress(t)
<1>1. PICK t \in LinkCall :
         /\ t = Onward(s)
         /\ t.action = s.action /\ t.content = s.content
         /\ t.allowed = s.allowed /\ t.new = s.new /\ t.made = s.made
         /\ \/ /\ t.pc = (IF s.action THEN "log" ELSE "done") /\ t.ok = TRUE
               /\ t.link = s.link
               /\ \A l \in RefsOf(s) : l[2] \notin s.allowed
            \/ /\ t.pc = "predicate" /\ t.ok = s.ok
               /\ t.link \in RefsOf(s) /\ RefsOf(t) \subseteq RefsOf(s)
               /\ \A l \in RefsOf(s) : l[2] \in s.allowed => l = t.link \/ l \in RefsOf(t)
  BY OnwardGoes
<1>2. RefsOf(s) \subseteq Links
  BY DEF RefsOf, LinkCall
<1>3. InHand(t)
  BY <1>1, <1>2 DEF InHand, Linking
<1>4. Took(t)
  BY <1>1 DEF Took
<1>5. Accounts(t, Absent, harmed)
  BY <1>1 DEF Accounts
<1>6. ASSUME /\ \A l \in s.made : l \in Asked(s) /\ Conforms(l)
             /\ RefsOf(s) \subseteq Mentioned(s.content)
             /\ \A l \in Mentioned(s.content) : Conforms(l) =>
                  l[2] \in s.allowed /\ (l \in s.made \/ l \in RefsOf(s))
      PROVE  Knowing(t) /\ Progress(t)
  <2>1. Asked(t) = Mentioned(s.content) /\ Asked(s) = Mentioned(s.content)
    BY <1>1 DEF Asked
  <2>2. Knowing(t)
    BY <1>1 DEF Knowing
  <2>3. CASE t.pc = "predicate"
    <3>1. /\ t.link \in Mentioned(s.content) /\ RefsOf(t) \subseteq Mentioned(s.content)
      BY <1>1, <1>6, <2>3
    <3>2. ASSUME NEW l \in Mentioned(s.content), Conforms(l)
          PROVE  l[2] \in t.allowed /\ (l \in t.made \/ l = t.link \/ l \in RefsOf(t))
      BY <1>1, <1>6, <2>3, <3>2
    <3>3. QED BY <1>1, <1>6, <2>1, <2>2, <2>3, <3>1, <3>2 DEF Progress, Linking
  <2>4. CASE t.pc # "predicate"
    <3>1. t.pc \notin Linking
      BY <1>1, <2>4 DEF Linking
    <3>2. ASSUME NEW l \in Mentioned(s.content), Conforms(l)
          PROVE  l \in t.made
      BY <1>1, <1>6, <2>4, <3>2
    <3>3. QED BY <1>1, <1>6, <2>1, <2>2, <3>1, <3>2 DEF Progress
  <2>5. QED BY <2>3, <2>4
<1>7. QED BY <1>1, <1>3, <1>4, <1>5, <1>6

(* So does a refusal, of a link the registry does not allow.               *)
LEMMA RefusedOrderly ==
  ASSUME NEW s \in LinkCall, s.pc \in Linking, InHand(s), Took(s),
         NEW entry, NEW harmed \in BOOLEAN, Accounts(s, entry, harmed)
  PROVE  \E t \in LinkCall :
           /\ t = Refused(s)
           /\ InHand(t) /\ Took(t) /\ Accounts(t, entry, harmed)
           /\ ~ Conforms(s.link) /\ Progress(s) => Knowing(t) /\ Progress(t)
<1>1. entry = Absent
  BY DEF Accounts, Linking
<1>2. CASE s.content = Absent
  <2>1. PICK t \in LinkCall :
           /\ t = Finished(s, FALSE)
           /\ t.pc = (IF s.action THEN "log" ELSE "done") /\ t.ok = FALSE
           /\ t.action = s.action /\ t.content = s.content /\ t.link = s.link
           /\ t.allowed = s.allowed /\ t.new = s.new /\ t.made = s.made
    BY FinishedCall
  <2>2. t = Refused(s)
    BY <1>2, <2>1 DEF Refused
  <2>3. s.made = {} /\ ~ s.new
    BY <1>2 DEF InHand
  <2>4. InHand(t) /\ Took(t)
    BY <1>2, <2>1, <2>3 DEF InHand, Took, Linking
  <2>5. Accounts(t, entry, harmed)
    BY <1>1, <2>1, <2>3 DEF Accounts, Wrote
  <2>6. ASSUME ~ Conforms(s.link)
        PROVE  Knowing(t) /\ Progress(t)
    <3>1. Asked(t) = {s.link}
      BY <1>2, <2>1 DEF Asked
    <3>2. QED BY <2>1, <2>3, <2>6, <3>1 DEF Knowing, Progress, Linking
  <2>7. QED BY <2>2, <2>4, <2>5, <2>6
<1>3. CASE s.content # Absent
  <2>1. s.new /\ s.content \in stored
    BY <1>3 DEF InHand, Took
  <2>2. PICK t \in LinkCall :
           /\ t = Onward(s) /\ t.content = s.content /\ t.made = s.made
           /\ InHand(t) /\ Took(t) /\ Accounts(t, Absent, harmed)
           /\ /\ \A l \in s.made : l \in Asked(s) /\ Conforms(l)
              /\ RefsOf(s) \subseteq Mentioned(s.content)
              /\ \A l \in Mentioned(s.content) : Conforms(l) =>
                   l[2] \in s.allowed /\ (l \in s.made \/ l \in RefsOf(s))
              => Knowing(t) /\ Progress(t)
    BY <1>3, <2>1, OnwardOrderly
  <2>3. t = Refused(s)
    BY <1>3, <2>2 DEF Refused
  <2>4. ASSUME ~ Conforms(s.link), Progress(s)
        PROVE  Knowing(t) /\ Progress(t)
    BY <1>3, <2>2, <2>4 DEF Progress
  <2>5. QED BY <1>1, <2>2, <2>3, <2>4
<1>4. QED BY <1>2, <1>3

----------------------------------------------------------------------------
(* The actions.  A short call that changes the registry.                   *)

LEMMA ChangeKeeps ==
  ASSUME LinkInv, NEW c \in Calls, Changes(c),
         linkTypes' \in [Predicates -> LinkType \cup {Absent}],
         entity' \in [Names -> Kinds \cup {Absent}]
  PROVE  LinkInv'
<1>1. /\ OntologyTyped /\ Effects /\ call[c].pc = "new"
      /\ UNCHANGED <<edges, stored, log, hurt>> /\ calm' = {}
  BY DEF LinkInv, Changes, Free
<1>2. PICK t : t = [Idle EXCEPT !.pc = "done"]
  OBVIOUS
<1>3. /\ t \in LinkCall /\ t.pc = "done" /\ t.action = FALSE /\ t.ok = FALSE
      /\ t.new = FALSE /\ t.made = {}
  BY <1>2, IdleCall DEF Idle, LinkCall, CallStages
<1>4. Resume(c, t)
  BY <1>2 DEF Changes
<1>5. OntologyTyped'
  <2>1. /\ edges' \in [Links -> Nat]
        /\ log' \in [Calls -> {"applied", "failed", Absent}]
        /\ calm' \subseteq Calls
    BY <1>1 DEF OntologyTyped
  <2>2. QED BY <1>1, <1>3, <1>4, <2>1, StepKeepsTypes
<1>6. Effects'
  <2>1. log[c] = Absent
    BY <1>1 DEF Effects, Accounts
  <2>2. InHand(t) /\ Took(t)' /\ Accounts(t, log'[c], c \in hurt')
    BY <1>1, <1>3, <2>1 DEF InHand, Took, Accounts, Linking, Wrote
  <2>3. QED BY <1>1, <1>3, <1>4, <2>2, StepKeepsEffects
<1>7. Unchanged'
  BY <1>1 DEF Unchanged
<1>8. QED BY <1>5, <1>6, <1>7 DEF LinkInv

LEMMA RegistryKeeps ==
  ASSUME LinkInv, NEW c \in Calls,
         \/ Seed(c)
         \/ \E p \in Predicates, t \in Types : LinkTypeSet(c, p, t)
         \/ \E k \in Kinds : ObjectKindSet(c, k) \/ \E n \in Names : ProposeEntity(c, n, k)
  PROVE  LinkInv'
<1>1. /\ linkTypes \in [Predicates -> LinkType \cup {Absent}]
      /\ entity \in [Names -> Kinds \cup {Absent}]
      /\ Starter \in [Predicates -> LinkType] /\ Types \subseteq LinkType
  BY OntologyAssumption DEF LinkInv, OntologyTyped
<1>2. CASE Seed(c)
  <2>1. /\ Changes(c) /\ UNCHANGED entity
        /\ linkTypes' = [p \in Predicates |->
                           IF linkTypes[p] = Absent THEN Starter[p] ELSE linkTypes[p]]
    BY <1>2 DEF Seed
  <2>2. linkTypes' \in [Predicates -> LinkType \cup {Absent}]
    BY <1>1, <2>1
  <2>3. QED BY <1>1, <2>1, <2>2, ChangeKeeps
<1>3. ASSUME NEW p \in Predicates, NEW t \in Types, LinkTypeSet(c, p, t)
      PROVE  LinkInv'
  <2>1. Changes(c) /\ UNCHANGED entity /\ linkTypes' = [linkTypes EXCEPT ![p] = t]
    BY <1>3 DEF LinkTypeSet
  <2>2. linkTypes' \in [Predicates -> LinkType \cup {Absent}]
    BY <1>1, <2>1
  <2>3. QED BY <1>1, <2>1, <2>2, ChangeKeeps
<1>4. ASSUME NEW k \in Kinds, ObjectKindSet(c, k)
      PROVE  LinkInv'
  <2>1. Changes(c) /\ UNCHANGED <<linkTypes, entity>>
    BY <1>4 DEF ObjectKindSet
  <2>2. QED BY <1>1, <2>1, ChangeKeeps
<1>5. ASSUME NEW k \in Kinds, NEW n \in Names, ProposeEntity(c, n, k)
      PROVE  LinkInv'
  <2>1. Changes(c) /\ UNCHANGED linkTypes /\ entity' = [entity EXCEPT ![n] = k]
    BY <1>5 DEF ProposeEntity
  <2>2. entity' \in [Names -> Kinds \cup {Absent}]
    BY <1>1, <2>1
  <2>3. QED BY <1>1, <2>1, <2>2, ChangeKeeps
<1>6. QED BY <1>2, <1>3, <1>4, <1>5

(* A call begins.                                                          *)
LEMMA BeginKeeps ==
  ASSUME LinkInv, NEW c \in Calls,
         NEW s \in {Relate(l) : l \in Links} \cup {Remember(m) : m \in Memories},
         Begin(c, s) \/ ActionApply(c, s)
  PROVE  LinkInv'
<1>1. /\ s \in LinkCall /\ s.made = {} /\ ~ s.new /\ ~ s.ok
      /\ \/ s.pc = "predicate" /\ s.content = Absent /\ s.link \in Links /\ s.refs = <<>>
         \/ s.pc = "duplicate" /\ s.content \in Memories
  <2>1. ASSUME NEW l \in Links, s = Relate(l)
        PROVE  /\ s \in LinkCall /\ s.made = {} /\ ~ s.new /\ ~ s.ok
               /\ s.pc = "predicate" /\ s.content = Absent /\ s.link \in Links
               /\ s.refs = <<>>
    <3>1. s = [Idle EXCEPT !.pc = "predicate", !.link = l]
      BY <2>1 DEF Relate
    <3>2. QED BY <3>1, IdleCall DEF Idle, LinkCall, CallStages, Linking
  <2>2. ASSUME NEW m \in Memories, s = Remember(m)
        PROVE  /\ s \in LinkCall /\ s.made = {} /\ ~ s.new /\ ~ s.ok
               /\ s.pc = "duplicate" /\ s.content \in Memories
    <3>1. s = [Idle EXCEPT !.pc = "duplicate", !.content = m]
      BY <2>2 DEF Remember
    <3>2. QED BY <3>1, IdleCall DEF Idle, LinkCall, CallStages
  <2>3. QED BY <2>1, <2>2
<1>2. PICK t \in LinkCall : /\ Begin(c, t)
                            /\ t.pc = s.pc /\ t.content = s.content /\ t.link = s.link
                            /\ t.refs = s.refs /\ t.new = s.new /\ t.made = s.made
                            /\ t.ok = s.ok
  <2>1. CASE Begin(c, s)
    BY <1>1, <2>1
  <2>2. CASE ActionApply(c, s)
    <3>1. PICK t : t = [s EXCEPT !.action = TRUE]
      OBVIOUS
    <3>2. /\ t \in LinkCall
          /\ t.pc = s.pc /\ t.content = s.content /\ t.link = s.link
          /\ t.refs = s.refs /\ t.new = s.new /\ t.made = s.made /\ t.ok = s.ok
      BY <1>1, <3>1 DEF LinkCall
    <3>3. Begin(c, t)
      BY <2>2, <3>1 DEF ActionApply
    <3>4. QED BY <3>2, <3>3
  <2>3. QED BY <2>1, <2>2
<1>3. /\ OntologyTyped /\ Effects /\ Unchanged /\ Resume(c, t) /\ call[c].pc = "new"
      /\ calm' = calm \cup {c} /\ UNCHANGED registry
      /\ UNCHANGED <<linkTypes, entity, edges, stored, log, hurt>>
  BY <1>2 DEF LinkInv, Begin, Free, registry
<1>4. OntologyTyped'
  <2>1. /\ linkTypes' \in [Predicates -> LinkType \cup {Absent}]
        /\ entity' \in [Names -> Kinds \cup {Absent}]
        /\ edges' \in [Links -> Nat]
        /\ log' \in [Calls -> {"applied", "failed", Absent}]
        /\ calm' \subseteq Calls
    BY <1>3 DEF OntologyTyped
  <2>2. QED BY <1>3, <2>1, StepKeepsTypes
<1>5. Effects'
  <2>1. log[c] = Absent
    BY <1>3 DEF Effects, Accounts
  <2>2. Absent \notin Memories
    BY OntologyAssumption
  <2>3. InHand(t)
    BY <1>1, <1>2, <2>2 DEF InHand, Linking
  <2>4. Took(t)' /\ Accounts(t, log'[c], c \in hurt')
    BY <1>1, <1>2, <1>3, <2>1 DEF Took, Accounts
  <2>5. QED BY <1>3, <2>3, <2>4, StepKeepsEffects
<1>6. Unchanged'
  <2>1. Absent \notin Memories
    BY OntologyAssumption
  <2>2. Knowing(t) /\ Progress(t)
    BY <1>1, <1>2, <2>1 DEF Knowing, Progress, Linking
  <2>3. QED BY <1>3, <2>2, StepKeepsKnowledge
<1>7. QED BY <1>4, <1>5, <1>6 DEF LinkInv

----------------------------------------------------------------------------
(* validate_link.                                                          *)

(* A validating step that moves on to the next stage with the same link.   *)
LEMMA StageKeeps ==
  ASSUME LinkInv, NEW c \in Calls, NEW s \in LinkCall, s = call[c], s.pc \in Linking,
         NEW t \in LinkCall, Go(c, t), t.pc \in Linking,
         t.action = s.action, t.content = s.content, t.link = s.link, t.refs = s.refs,
         t.allowed = s.allowed, t.new = s.new, t.made = s.made, t.ok = s.ok,
         c \in calm \ hurt => Knowing(t)
  PROVE  LinkInv'
<1>1. /\ InHand(s) /\ Took(s) /\ Accounts(s, log[c], c \in hurt)
      /\ c \in calm \ hurt => Knowing(s) /\ Progress(s)
  BY CallInHand
<1>2. /\ s.pc \notin {"duplicate", "store", "allowed", "log", "done", "failed"}
      /\ t.pc \notin {"duplicate", "store", "allowed", "log", "done", "failed"}
  BY DEF Linking
<1>3. InHand(t) /\ Took(t) /\ Accounts(t, log[c], c \in hurt)
  BY <1>1, <1>2 DEF InHand, Took, Accounts
<1>4. ASSUME c \in calm \ hurt
      PROVE  Knowing(t) /\ Progress(t)
  <2>1. Asked(t) = Asked(s) /\ RefsOf(t) = RefsOf(s)
    BY DEF Asked, RefsOf
  <2>2. QED BY <1>1, <1>2, <1>4, <2>1 DEF Progress
<1>5. QED BY <1>3, <1>4, GoKeeps

(* A validating step that refuses a link the registry does not allow.      *)
LEMMA RefusalKeeps ==
  ASSUME LinkInv, NEW c \in Calls, NEW s \in LinkCall, s = call[c], s.pc \in Linking,
         Go(c, Refused(s)),
         c \in calm \ hurt => ~ Conforms(s.link)
  PROVE  LinkInv'
<1>1. /\ InHand(s) /\ Took(s) /\ Accounts(s, log[c], c \in hurt)
      /\ c \in calm \ hurt => Knowing(s) /\ Progress(s)
  BY CallInHand
<1>2. PICK entry : entry = log[c]
  OBVIOUS
<1>3. PICK harmed \in BOOLEAN : harmed <=> c \in hurt
  OBVIOUS
<1>4. Accounts(s, entry, harmed)
  BY <1>1, <1>2, <1>3 DEF Accounts
<1>5. PICK t \in LinkCall :
         /\ t = Refused(s)
         /\ InHand(t) /\ Took(t) /\ Accounts(t, entry, harmed)
         /\ ~ Conforms(s.link) /\ Progress(s) => Knowing(t) /\ Progress(t)
  BY <1>1, <1>4, RefusedOrderly
<1>6. Go(c, t) /\ Accounts(t, log[c], c \in hurt)
  BY <1>2, <1>3, <1>5 DEF Accounts
<1>7. QED BY <1>1, <1>5, <1>6, GoKeeps

LEMMA PredicateKeeps ==
  ASSUME LinkInv, NEW c \in Calls, ValidatePredicate(c)
  PROVE  LinkInv'
<1>1. PICK s \in LinkCall : s = call[c]
  BY CallInHand
<1>2. s.pc = "predicate" /\ s.pc \in Linking
  BY <1>1 DEF ValidatePredicate, Linking
<1>3. CASE linkTypes[s.link[2]] = Absent /\ \E p \in Predicates : linkTypes[p] # Absent
  <2>1. Go(c, Refused(s))
    BY <1>1, <1>3 DEF ValidatePredicate
  <2>2. ~ Conforms(s.link)
    BY <1>3 DEF Conforms
  <2>3. QED BY <1>1, <1>2, <2>1, <2>2, RefusalKeeps
<1>4. CASE linkTypes[s.link[2]] # Absent \/ Nothing
  <2>1. PICK t : t = [s EXCEPT !.pc = "type"]
    OBVIOUS
  <2>2. Go(c, t)
    BY <1>1, <1>4, <2>1 DEF ValidatePredicate, Nothing
  <2>3. /\ t \in LinkCall /\ t.pc = "type" /\ t.pc \in Linking
        /\ t.action = s.action /\ t.content = s.content /\ t.link = s.link /\ t.refs = s.refs
        /\ t.allowed = s.allowed /\ t.new = s.new /\ t.made = s.made /\ t.ok = s.ok
    BY <2>1 DEF LinkCall, CallStages, Linking
  <2>4. Knowing(t)
    BY <1>4, <2>3 DEF Knowing
  <2>5. QED BY <1>1, <1>2, <2>2, <2>3, <2>4, StageKeeps
<1>5. QED BY <1>3, <1>4 DEF Nothing

LEMMA TypeKeeps ==
  ASSUME LinkInv, NEW c \in Calls, GetLinkType(c)
  PROVE  LinkInv'
<1>1. PICK s \in LinkCall :
         /\ s = call[c] /\ InHand(s)
         /\ c \in calm \ hurt => Knowing(s) /\ Progress(s)
  BY CallInHand
<1>2. s.pc = "type" /\ s.pc \in Linking /\ s.link \in Links
  BY <1>1 DEF GetLinkType, Linking, InHand
<1>3. PICK type \in LinkType \cup {Absent} : type = linkTypes[s.link[2]]
  <2>1. s.link[2] \in Predicates
    BY <1>2, OntologyAssumption
  <2>2. QED BY <2>1 DEF LinkInv, OntologyTyped
<1>4. PICK pc \in {"add", "subject"} :
         pc = IF type = Absent \/ type = [from |-> {}, to |-> {}] THEN "add" ELSE "subject"
  OBVIOUS
<1>5. PICK t : t = [s EXCEPT !.pc = pc, !.type = type]
  OBVIOUS
<1>6. Go(c, t)
  BY <1>1, <1>3, <1>4, <1>5 DEF GetLinkType
<1>7. pc \in CallStages /\ pc \in Linking
  BY <1>4 DEF CallStages, Linking
<1>8. /\ t \in LinkCall /\ t.pc = pc /\ t.type = type
      /\ t.action = s.action /\ t.content = s.content /\ t.link = s.link /\ t.refs = s.refs
      /\ t.allowed = s.allowed /\ t.new = s.new /\ t.made = s.made /\ t.ok = s.ok
  BY <1>5, <1>7 DEF LinkCall
<1>9. ASSUME c \in calm \ hurt
      PROVE  Knowing(t)
  <2>1. type # Absent \/ Nothing
    BY <1>1, <1>2, <1>3, <1>9 DEF Knowing
  <2>2. CASE pc = "subject"
    BY <1>3, <1>4, <1>8, <2>2 DEF Knowing
  <2>3. CASE pc = "add"
    <3>1. CASE type = Absent
      BY <1>8, <2>1, <2>3, <3>1 DEF Knowing, Conforms, Nothing
    <3>2. CASE type # Absent
      <4>1. type = [from |-> {}, to |-> {}]
        BY <1>4, <2>3, <3>2
      <4>2. type.from = {} /\ type.to = {}
        BY <4>1
      <4>3. Conforms(t.link)
        BY <1>3, <1>8, <3>2, <4>2 DEF Conforms, Allowed
      <4>4. QED BY <1>8, <2>3, <4>3 DEF Knowing
    <3>3. QED BY <3>1, <3>2
  <2>4. QED BY <1>4, <2>2, <2>3
<1>10. QED BY <1>1, <1>2, <1>6, <1>7, <1>8, <1>9, StageKeeps

LEMMA SubjectKeeps ==
  ASSUME LinkInv, NEW c \in Calls, ResolveSubject(c)
  PROVE  LinkInv'
<1>1. PICK s \in LinkCall :
         /\ s = call[c] /\ InHand(s)
         /\ c \in calm \ hurt => Knowing(s) /\ Progress(s)
  BY CallInHand
<1>2. s.pc = "subject" /\ s.pc \in Linking /\ s.link \in Links
  BY <1>1 DEF ResolveSubject, Linking, InHand
<1>3. PICK subject \in Kinds \cup {Absent} : subject = entity[s.link[1]]
  <2>1. s.link[1] \in Names
    BY <1>2, OntologyAssumption
  <2>2. QED BY <2>1 DEF LinkInv, OntologyTyped
<1>4. PICK t : t = [s EXCEPT !.pc = "object", !.subject = subject]
  OBVIOUS
<1>5. Go(c, t)
  BY <1>1, <1>3, <1>4 DEF ResolveSubject
<1>6. /\ t \in LinkCall /\ t.pc = "object" /\ t.pc \in Linking
      /\ t.subject = subject /\ t.type = s.type
      /\ t.action = s.action /\ t.content = s.content /\ t.link = s.link /\ t.refs = s.refs
      /\ t.allowed = s.allowed /\ t.new = s.new /\ t.made = s.made /\ t.ok = s.ok
  BY <1>4 DEF LinkCall, CallStages, Linking
<1>7. ASSUME c \in calm \ hurt
      PROVE  Knowing(t)
  BY <1>1, <1>2, <1>3, <1>6, <1>7 DEF Knowing
<1>8. QED BY <1>1, <1>2, <1>5, <1>6, <1>7, StageKeeps

LEMMA ObjectKeeps ==
  ASSUME LinkInv, NEW c \in Calls, ResolveObject(c)
  PROVE  LinkInv'
<1>1. PICK s \in LinkCall :
         /\ s = call[c] /\ InHand(s)
         /\ c \in calm \ hurt => Knowing(s) /\ Progress(s)
  BY CallInHand
<1>2. s.pc = "object" /\ s.pc \in Linking /\ s.link \in Links /\ s.link[2] \in Predicates
  <2>1. s.pc = "object" /\ s.pc \in Linking /\ s.link \in Links
    BY <1>1 DEF ResolveObject, Linking, InHand
  <2>2. QED BY <2>1, OntologyAssumption
<1>3. ASSUME c \in calm \ hurt
      PROVE  Conforms(s.link) <=> Allowed(s.type, s.subject, entity[s.link[3]])
  BY <1>1, <1>2, <1>3 DEF Knowing, Conforms
<1>4. CASE Allowed(s.type, s.subject, entity[s.link[3]])
  <2>1. PICK t : t = [s EXCEPT !.pc = "add"]
    OBVIOUS
  <2>2. Go(c, t)
    BY <1>1, <1>4, <2>1 DEF ResolveObject
  <2>3. /\ t \in LinkCall /\ t.pc = "add" /\ t.pc \in Linking
        /\ t.action = s.action /\ t.content = s.content /\ t.link = s.link /\ t.refs = s.refs
        /\ t.allowed = s.allowed /\ t.new = s.new /\ t.made = s.made /\ t.ok = s.ok
    BY <2>1 DEF LinkCall, CallStages, Linking
  <2>4. ASSUME c \in calm \ hurt
        PROVE  Knowing(t)
    BY <1>3, <1>4, <2>3, <2>4 DEF Knowing
  <2>5. QED BY <1>1, <1>2, <2>2, <2>3, <2>4, StageKeeps
<1>5. CASE ~ Allowed(s.type, s.subject, entity[s.link[3]])
  <2>1. Go(c, Refused(s))
    BY <1>1, <1>5 DEF ResolveObject
  <2>2. QED BY <1>1, <1>2, <1>3, <1>5, <2>1, RefusalKeeps
<1>6. QED BY <1>4, <1>5

----------------------------------------------------------------------------
(* What writes: the edge, the memory, the entry of the log.                *)

LEMMA AddKeeps ==
  ASSUME LinkInv, NEW c \in Calls, AddRelation(c)
  PROVE  LinkInv'
<1>1. PICK s \in LinkCall :
         /\ s = call[c] /\ InHand(s) /\ Took(s) /\ Accounts(s, log[c], c \in hurt)
         /\ c \in calm \ hurt => Knowing(s) /\ Progress(s)
  BY CallInHand
<1>2. /\ s.pc = "add" /\ s.pc \in Linking /\ s.link \in Links
      /\ edges' = [edges EXCEPT ![s.link] = @ + 1]
      /\ UNCHANGED registry /\ UNCHANGED <<stored, log, calm, hurt>>
      /\ UNCHANGED <<linkTypes, entity>>
  BY <1>1 DEF AddRelation, Linking, InHand, registry
<1>3. /\ OntologyTyped /\ Effects /\ Unchanged /\ edges \in [Links -> Nat]
  BY DEF LinkInv, OntologyTyped
<1>4. PICK u : u = [s EXCEPT !.made = s.made \cup {s.link}]
  OBVIOUS
<1>5. /\ u \in LinkCall /\ u.made = s.made \cup {s.link} /\ u.pc = s.pc
      /\ u.action = s.action /\ u.content = s.content /\ u.link = s.link /\ u.refs = s.refs
      /\ u.allowed = s.allowed /\ u.new = s.new /\ u.ok = s.ok
  BY <1>2, <1>4 DEF LinkCall
<1>6. Resume(c, Onward(u))
  BY <1>1, <1>4 DEF AddRelation
<1>7. /\ edges' \in [Links -> Nat] /\ edges'[s.link] > 0
      /\ \A l \in Links : edges[l] > 0 => edges'[l] > 0
  BY <1>2, <1>3
<1>8. log[c] = Absent
  BY <1>1, <1>2 DEF Accounts
<1>9. PICK t \in LinkCall :
         /\ t = Onward(u)
         /\ InHand(t) /\ Took(t)' /\ Accounts(t, Absent, c \in hurt)
         /\ c \in calm \ hurt => Knowing(t) /\ Progress(t)
  <2>1. CASE s.content = Absent
    <3>1. s.made = {} /\ ~ s.new /\ s.refs = <<>>
      BY <1>1, <1>2, <2>1 DEF InHand
    <3>2. PICK t \in LinkCall :
             /\ t = Onward(u)
             /\ t.action = u.action /\ t.content = u.content
             /\ t.allowed = u.allowed /\ t.new = u.new /\ t.made = u.made
             /\ \/ /\ t.pc = (IF u.action THEN "log" ELSE "done") /\ t.ok = TRUE
                   /\ t.link = u.link
                   /\ \A l \in RefsOf(u) : l[2] \notin u.allowed
                \/ /\ t.pc = "predicate" /\ t.ok = u.ok
                   /\ t.link \in RefsOf(u) /\ RefsOf(t) \subseteq RefsOf(u)
                   /\ \A l \in RefsOf(u) : l[2] \in u.allowed => l = t.link \/ l \in RefsOf(t)
      BY <1>5, OnwardGoes
    <3>3. RefsOf(u) = {}
      BY <1>5, <3>1 DEF RefsOf
    <3>4. /\ t.pc = (IF u.action THEN "log" ELSE "done") /\ t.ok = TRUE /\ t.link = s.link
      BY <1>5, <3>2, <3>3
    <3>5. t.content = Absent /\ t.made = {s.link} /\ ~ t.new
      BY <1>5, <2>1, <3>1, <3>2
    <3>6. InHand(t)
      BY <3>2, <3>4, <3>5, <1>5 DEF InHand, Linking
    <3>7. Took(t)'
      BY <1>2, <1>7, <3>4, <3>5 DEF Took
    <3>8. Accounts(t, Absent, c \in hurt)
      BY <3>2, <3>4 DEF Accounts
    <3>9. ASSUME c \in calm \ hurt
          PROVE  Knowing(t) /\ Progress(t)
      <4>1. Conforms(s.link)
        BY <1>1, <1>2, <3>9 DEF Knowing
      <4>2. Asked(t) = {s.link}
        BY <3>4, <3>5 DEF Asked
      <4>3. QED BY <3>4, <3>5, <4>1, <4>2 DEF Knowing, Progress, Linking
    <3>10. QED BY <3>2, <3>6, <3>7, <3>8, <3>9
  <2>2. CASE s.content # Absent
    <3>1. s.new /\ s.content \in stored
      BY <1>1, <1>2, <2>2 DEF InHand, Took
    <3>2. PICK harmed \in BOOLEAN : harmed <=> c \in hurt
      OBVIOUS
    <3>3. PICK t \in LinkCall :
             /\ t = Onward(u) /\ t.content = u.content /\ t.made = u.made
             /\ InHand(t) /\ Took(t) /\ Accounts(t, Absent, harmed)
             /\ /\ \A l \in u.made : l \in Asked(u) /\ Conforms(l)
                /\ RefsOf(u) \subseteq Mentioned(u.content)
                /\ \A l \in Mentioned(u.content) : Conforms(l) =>
                     l[2] \in u.allowed /\ (l \in u.made \/ l \in RefsOf(u))
                => Knowing(t) /\ Progress(t)
      BY <1>5, <2>2, <3>1, OnwardOrderly
    <3>4. Took(t)'
      BY <1>2, <1>5, <2>2, <3>3 DEF Took
    <3>5. Accounts(t, Absent, c \in hurt)
      BY <3>2, <3>3 DEF Accounts
    <3>6. ASSUME c \in calm \ hurt
          PROVE  Knowing(t) /\ Progress(t)
      <4>1. RefsOf(u) = RefsOf(s) /\ Asked(u) = Asked(s) /\ Asked(s) = Mentioned(s.content)
        BY <1>5, <2>2 DEF RefsOf, Asked
      <4>2. Conforms(s.link)
        BY <1>1, <1>2, <3>6 DEF Knowing
      <4>3. Progress(s)
        BY <1>1, <3>6
      <4>4. /\ s.link \in Mentioned(s.content) /\ RefsOf(s) \subseteq Mentioned(s.content)
            /\ \A l \in Mentioned(s.content) : Conforms(l) =>
                 l[2] \in s.allowed /\ (l \in s.made \/ l = s.link \/ l \in RefsOf(s))
        BY <1>2, <2>2, <4>3 DEF Progress
      <4>5. \A l \in s.made : l \in Asked(s) /\ Conforms(l)
        BY <4>3 DEF Progress
      <4>6. \A l \in u.made : l \in Asked(u) /\ Conforms(l)
        BY <1>5, <4>1, <4>2, <4>4, <4>5
      <4>7. \A l \in Mentioned(u.content) : Conforms(l) =>
              l[2] \in u.allowed /\ (l \in u.made \/ l \in RefsOf(u))
        BY <1>5, <4>1, <4>4
      <4>8. QED BY <1>5, <3>3, <4>1, <4>4, <4>6, <4>7
    <3>7. QED BY <3>3, <3>4, <3>5, <3>6
  <2>3. QED BY <2>1, <2>2
<1>10. Resume(c, t)
  BY <1>6, <1>9
<1>11. OntologyTyped'
  <2>1. /\ linkTypes' \in [Predicates -> LinkType \cup {Absent}]
        /\ entity' \in [Names -> Kinds \cup {Absent}]
        /\ log' \in [Calls -> {"applied", "failed", Absent}]
        /\ calm' \subseteq Calls
    BY <1>2, <1>3 DEF OntologyTyped
  <2>2. QED BY <1>3, <1>7, <1>10, <2>1, StepKeepsTypes
<1>12. Effects'
  <2>1. Accounts(t, log'[c], c \in hurt')
    BY <1>2, <1>8, <1>9 DEF Accounts
  <2>2. QED BY <1>2, <1>3, <1>7, <1>9, <1>10, <2>1, StepKeepsEffects
<1>13. Unchanged'
  <2>1. c \in calm' \ hurt' => Knowing(t) /\ Progress(t)
    BY <1>2, <1>9
  <2>2. QED BY <1>2, <1>3, <1>10, <2>1, StepKeepsKnowledge
<1>14. QED BY <1>11, <1>12, <1>13 DEF LinkInv

LEMMA DuplicateKeeps ==
  ASSUME LinkInv, NEW c \in Calls, FindDuplicate(c)
  PROVE  LinkInv'
<1>1. PICK s \in LinkCall :
         /\ s = call[c] /\ InHand(s) /\ Took(s) /\ Accounts(s, log[c], c \in hurt)
         /\ c \in calm \ hurt => Knowing(s) /\ Progress(s)
  BY CallInHand
<1>2. s.pc = "duplicate" /\ s.content \in Memories /\ s.made = {} /\ ~ s.new
  BY <1>1 DEF FindDuplicate, InHand
<1>3. s.content # Absent /\ log[c] = Absent
  BY <1>1, <1>2, OntologyAssumption DEF Accounts
<1>4. CASE s.content \in stored
  <2>1. PICK t \in LinkCall :
           /\ t = Finished(s, TRUE)
           /\ t.pc = (IF s.action THEN "log" ELSE "done") /\ t.ok = TRUE
           /\ t.action = s.action /\ t.content = s.content /\ t.link = s.link
           /\ t.allowed = s.allowed /\ t.new = s.new /\ t.made = s.made
    BY FinishedCall
  <2>2. Go(c, t)
    BY <1>1, <1>4, <2>1 DEF FindDuplicate
  <2>3. InHand(t) /\ Took(t) /\ Accounts(t, log[c], c \in hurt)
    BY <1>2, <1>3, <1>4, <2>1 DEF InHand, Took, Accounts, Linking
  <2>4. Knowing(t) /\ Progress(t)
    BY <1>2, <1>3, <2>1 DEF Knowing, Progress, Linking
  <2>5. QED BY <2>2, <2>3, <2>4, GoKeeps
<1>5. CASE s.content \notin stored
  <2>1. PICK t : t = [s EXCEPT !.pc = "store"]
    OBVIOUS
  <2>2. Go(c, t)
    BY <1>1, <1>5, <2>1 DEF FindDuplicate
  <2>3. /\ t \in LinkCall /\ t.pc = "store" /\ t.action = s.action
        /\ t.content = s.content /\ t.link = s.link /\ t.refs = s.refs
        /\ t.allowed = s.allowed /\ t.new = s.new /\ t.made = s.made /\ t.ok = s.ok
    BY <2>1 DEF LinkCall, CallStages
  <2>4. InHand(t) /\ Took(t) /\ Accounts(t, log[c], c \in hurt)
    BY <1>1, <1>2, <1>3, <2>3 DEF InHand, Took, Accounts, Linking
  <2>5. Knowing(t) /\ Progress(t)
    BY <1>2, <1>3, <2>3 DEF Knowing, Progress, Linking
  <2>6. QED BY <2>2, <2>3, <2>4, <2>5, GoKeeps
<1>6. QED BY <1>4, <1>5

LEMMA StoreKeeps ==
  ASSUME LinkInv, NEW c \in Calls, Store(c)
  PROVE  LinkInv'
<1>1. PICK s \in LinkCall :
         /\ s = call[c] /\ InHand(s) /\ Took(s) /\ Accounts(s, log[c], c \in hurt)
         /\ c \in calm \ hurt => Knowing(s) /\ Progress(s)
  BY CallInHand
<1>2. /\ s.pc = "store" /\ s.content \in Memories /\ s.made = {}
      /\ stored' = stored \cup {s.content}
      /\ UNCHANGED registry /\ UNCHANGED <<edges, log, calm, hurt>>
      /\ UNCHANGED <<linkTypes, entity>>
  BY <1>1 DEF Store, InHand, registry
<1>3. s.content # Absent /\ log[c] = Absent
  BY <1>1, <1>2, OntologyAssumption DEF Accounts
<1>4. OntologyTyped /\ Effects /\ Unchanged
  BY DEF LinkInv
<1>5. PICK t : t = [s EXCEPT !.pc = "allowed", !.new = TRUE]
  OBVIOUS
<1>6. /\ t \in LinkCall /\ t.pc = "allowed" /\ t.new = TRUE /\ t.action = s.action
      /\ t.content = s.content /\ t.link = s.link /\ t.made = s.made /\ t.ok = s.ok
  BY <1>5 DEF LinkCall, CallStages
<1>7. Resume(c, t)
  BY <1>1, <1>5 DEF Store
<1>8. OntologyTyped'
  <2>1. /\ linkTypes' \in [Predicates -> LinkType \cup {Absent}]
        /\ entity' \in [Names -> Kinds \cup {Absent}]
        /\ edges' \in [Links -> Nat]
        /\ log' \in [Calls -> {"applied", "failed", Absent}]
        /\ calm' \subseteq Calls
    BY <1>2, <1>4 DEF OntologyTyped
  <2>2. QED BY <1>4, <1>6, <1>7, <2>1, StepKeepsTypes
<1>9. Effects'
  <2>1. InHand(t) /\ Took(t)' /\ Accounts(t, log'[c], c \in hurt')
    BY <1>2, <1>3, <1>6 DEF InHand, Took, Accounts, Linking
  <2>2. QED BY <1>2, <1>4, <1>6, <1>7, <2>1, StepKeepsEffects
<1>10. Unchanged'
  <2>1. Knowing(t) /\ Progress(t)
    BY <1>2, <1>3, <1>6 DEF Knowing, Progress, Linking
  <2>2. QED BY <1>2, <1>4, <1>6, <1>7, <2>1, StepKeepsKnowledge
<1>11. QED BY <1>8, <1>9, <1>10 DEF LinkInv

LEMMA AllowedKeeps ==
  ASSUME LinkInv, NEW c \in Calls, AllowedPredicates(c)
  PROVE  LinkInv'
<1>1. PICK s \in LinkCall :
         /\ s = call[c] /\ InHand(s) /\ Took(s) /\ Accounts(s, log[c], c \in hurt)
         /\ c \in calm \ hurt => Knowing(s) /\ Progress(s)
  BY CallInHand
<1>2. s.pc = "allowed" /\ s.content \in Memories /\ s.made = {} /\ s.new
  BY <1>1 DEF AllowedPredicates, InHand
<1>3. s.content # Absent /\ log[c] = Absent /\ s.content \in stored
  BY <1>1, <1>2, OntologyAssumption DEF Accounts, Took
<1>4. PICK known \in SUBSET Predicates : known = {p \in Predicates : linkTypes[p] # Absent}
  OBVIOUS
<1>5. PICK allowed \in SUBSET Predicates :
         allowed = IF known = {} THEN Predicates ELSE known
  OBVIOUS
<1>6. PICK u : u = [s EXCEPT !.allowed = allowed, !.refs = Refs[s.content]]
  OBVIOUS
<1>7. Refs[s.content] \in Seq(Links)
  BY <1>2, OntologyAssumption
<1>8. /\ u \in LinkCall /\ u.allowed = allowed /\ u.refs = Refs[s.content]
      /\ u.action = s.action /\ u.content = s.content /\ u.link = s.link
      /\ u.new = s.new /\ u.made = s.made /\ u.ok = s.ok
  BY <1>6, <1>7 DEF LinkCall
<1>9. Go(c, Onward(u))
  BY <1>1, <1>4, <1>5, <1>6 DEF AllowedPredicates
<1>10. PICK harmed \in BOOLEAN : harmed <=> c \in hurt
  OBVIOUS
<1>11. PICK t \in LinkCall :
          /\ t = Onward(u) /\ t.content = u.content /\ t.made = u.made
          /\ InHand(t) /\ Took(t) /\ Accounts(t, Absent, harmed)
          /\ /\ \A l \in u.made : l \in Asked(u) /\ Conforms(l)
             /\ RefsOf(u) \subseteq Mentioned(u.content)
             /\ \A l \in Mentioned(u.content) : Conforms(l) =>
                  l[2] \in u.allowed /\ (l \in u.made \/ l \in RefsOf(u))
             => Knowing(t) /\ Progress(t)
  BY <1>2, <1>3, <1>8, OnwardOrderly
<1>12. RefsOf(u) = Mentioned(u.content)
  BY <1>8 DEF RefsOf, Mentioned
<1>13. ASSUME NEW l \in Mentioned(u.content), Conforms(l)
       PROVE  l[2] \in u.allowed
  <2>1. l \in Links
    BY <1>7, <1>8, <1>13 DEF Mentioned
  <2>2. l[2] \in Predicates
    BY <2>1, OntologyAssumption
  <2>3. CASE known = {}
    BY <1>5, <1>8, <2>2, <2>3
  <2>4. CASE known # {}
    <3>1. linkTypes[l[2]] # Absent
      BY <1>4, <1>13, <2>4 DEF Conforms
    <3>2. QED BY <1>4, <1>5, <1>8, <2>2, <2>4, <3>1
  <2>5. QED BY <2>3, <2>4
<1>14. Knowing(t) /\ Progress(t)
  BY <1>2, <1>8, <1>11, <1>12, <1>13
<1>15. Go(c, t) /\ Accounts(t, log[c], c \in hurt)
  BY <1>3, <1>9, <1>10, <1>11 DEF Accounts
<1>16. QED BY <1>11, <1>14, <1>15, GoKeeps

LEMMA LogKeeps ==
  ASSUME LinkInv, NEW c \in Calls, LogAction(c)
  PROVE  LinkInv'
<1>1. PICK s \in LinkCall :
         /\ s = call[c] /\ InHand(s) /\ Took(s) /\ Accounts(s, log[c], c \in hurt)
         /\ c \in calm \ hurt => Knowing(s) /\ Progress(s)
  BY CallInHand
<1>2. PICK entry \in {"applied", "failed"} : entry = IF s.ok THEN "applied" ELSE "failed"
  OBVIOUS
<1>3. /\ s.pc = "log" /\ log' = [log EXCEPT ![c] = entry]
      /\ UNCHANGED registry /\ UNCHANGED <<edges, stored, calm, hurt>>
      /\ UNCHANGED <<linkTypes, entity>>
  BY <1>1, <1>2 DEF LogAction, registry
<1>4. OntologyTyped /\ Effects /\ Unchanged /\ log \in [Calls -> {"applied", "failed", Absent}]
  BY DEF LinkInv, OntologyTyped
<1>5. log'[c] = entry /\ \A d \in Calls \ {c} : log'[d] = log[d]
  BY <1>3, <1>4
<1>6. PICK t : t = [s EXCEPT !.pc = "done"]
  OBVIOUS
<1>7. /\ t \in LinkCall /\ t.pc = "done" /\ t.new = s.new /\ t.action = s.action
      /\ t.content = s.content /\ t.link = s.link /\ t.made = s.made /\ t.ok = s.ok
  BY <1>6 DEF LinkCall, CallStages
<1>8. Resume(c, t)
  BY <1>1, <1>6 DEF LogAction
<1>9. OntologyTyped'
  <2>1. /\ linkTypes' \in [Predicates -> LinkType \cup {Absent}]
        /\ entity' \in [Names -> Kinds \cup {Absent}]
        /\ edges' \in [Links -> Nat]
        /\ log' \in [Calls -> {"applied", "failed", Absent}]
        /\ calm' \subseteq Calls
    BY <1>2, <1>3, <1>4 DEF OntologyTyped
  <2>2. QED BY <1>4, <1>7, <1>8, <2>1, StepKeepsTypes
<1>10. Effects'
  <2>1. s.action
    BY <1>1, <1>3 DEF InHand
  <2>2. InHand(t) /\ Took(t)'
    BY <1>1, <1>3, <1>7 DEF InHand, Took, Linking
  <2>3. Accounts(t, log'[c], c \in hurt')
    BY <1>1, <1>2, <1>3, <1>5, <1>7, <2>1 DEF Accounts, Wrote
  <2>4. QED BY <1>3, <1>4, <1>5, <1>7, <1>8, <2>2, <2>3, StepKeepsEffects
<1>11. Unchanged'
  <2>1. ASSUME c \in calm' \ hurt'
        PROVE  Knowing(t) /\ Progress(t)
    <3>1. Progress(s)
      BY <1>1, <1>3, <2>1
    <3>2. Asked(t) = Asked(s)
      BY <1>7 DEF Asked
    <3>3. QED BY <1>3, <1>7, <3>1, <3>2 DEF Knowing, Progress, Linking
  <2>2. QED BY <1>3, <1>4, <1>7, <1>8, <2>1, StepKeepsKnowledge
<1>12. QED BY <1>9, <1>10, <1>11 DEF LinkInv

----------------------------------------------------------------------------
(* A transaction fails, or the call is cut off: its account is harmed.     *)

LEMMA HarmKeeps ==
  ASSUME LinkInv, NEW c \in Calls, NEW t \in LinkCall, Resume(c, t),
         hurt' = hurt \cup {c}, UNCHANGED <<registry, edges, stored, log, calm>>,
         InHand(t), Took(t), Accounts(t, log[c], TRUE)
  PROVE  LinkInv'
<1>1. /\ OntologyTyped /\ Effects /\ Unchanged /\ UNCHANGED registry
      /\ UNCHANGED <<linkTypes, entity, edges, stored, log, calm>>
  BY DEF LinkInv, registry
<1>2. OntologyTyped'
  <2>1. /\ linkTypes' \in [Predicates -> LinkType \cup {Absent}]
        /\ entity' \in [Names -> Kinds \cup {Absent}]
        /\ edges' \in [Links -> Nat]
        /\ log' \in [Calls -> {"applied", "failed", Absent}]
        /\ calm' \subseteq Calls
    BY <1>1 DEF OntologyTyped
  <2>2. QED BY <1>1, <2>1, StepKeepsTypes
<1>3. Effects'
  <2>1. Took(t)' /\ Accounts(t, log'[c], c \in hurt')
    BY <1>1 DEF Took, Accounts
  <2>2. /\ \A d \in Calls \ {c} : log'[d] = log[d] /\ (d \in hurt' => d \in hurt)
        /\ \A d \in hurt : d \in hurt'
        /\ \A m \in stored : m \in stored'
        /\ \A l \in Links : edges[l] > 0 => edges'[l] > 0
    BY <1>1
  <2>3. QED BY <1>1, <2>1, <2>2, StepKeepsEffects
<1>4. Unchanged'
  <2>1. c \notin calm' \ hurt' /\ (\A d \in hurt : d \in hurt') /\ \A d \in calm' : d \in calm
    BY <1>1
  <2>2. QED BY <1>1, <2>1, StepKeepsKnowledge
<1>5. QED BY <1>2, <1>3, <1>4 DEF LinkInv

(* A call that has failed.                                                 *)
LEMMA FailureKeeps ==
  ASSUME LinkInv, NEW c \in Calls, NEW s \in LinkCall, s = call[c],
         s.pc \notin Over, Resume(c, [s EXCEPT !.pc = "failed"]),
         hurt' = hurt \cup {c}, UNCHANGED <<registry, edges, stored, log, calm>>
  PROVE  LinkInv'
<1>1. InHand(s) /\ Took(s) /\ Accounts(s, log[c], c \in hurt)
  BY CallInHand
<1>2. PICK t : t = [s EXCEPT !.pc = "failed"]
  OBVIOUS
<1>3. /\ t \in LinkCall /\ t.pc = "failed" /\ t.new = s.new /\ t.action = s.action
      /\ t.content = s.content /\ t.link = s.link /\ t.made = s.made /\ t.ok = s.ok
  BY <1>2 DEF LinkCall, CallStages
<1>4. InHand(t) /\ Took(t) /\ Accounts(t, log[c], TRUE)
  BY <1>1, <1>3 DEF InHand, Took, Accounts, Linking, Over
<1>5. QED BY <1>2, <1>3, <1>4, HarmKeeps

LEMMA ErrorKeeps ==
  ASSUME LinkInv, NEW c \in Calls, DatabaseError(c)
  PROVE  LinkInv'
<1>1. PICK s \in LinkCall :
         /\ s = call[c] /\ InHand(s) /\ Took(s) /\ Accounts(s, log[c], c \in hurt)
         /\ c \in calm \ hurt => Knowing(s) /\ Progress(s)
  BY CallInHand
<1>2. /\ s.pc \notin Over /\ s.pc # "new"
      /\ hurt' = hurt \cup {c} /\ UNCHANGED <<registry, edges, stored, log, calm>>
      /\ Resume(c, IF s.pc = "add" /\ s.content # Absent THEN Onward(s)
                   ELSE IF s.action /\ s.pc # "log" THEN Finished(s, FALSE)
                   ELSE [s EXCEPT !.pc = "failed"])
  BY <1>1 DEF DatabaseError, Running, Over
<1>3. log[c] = Absent
  BY <1>1, <1>2 DEF Accounts, Over
<1>4. CASE s.pc = "add" /\ s.content # Absent
  <2>1. s.new /\ s.content \in stored /\ s.pc \in Linking
    BY <1>1, <1>4 DEF InHand, Took, Linking
  <2>2. PICK t \in LinkCall :
           /\ t = Onward(s) /\ t.content = s.content /\ t.made = s.made
           /\ InHand(t) /\ Took(t) /\ Accounts(t, Absent, TRUE)
           /\ /\ \A l \in s.made : l \in Asked(s) /\ Conforms(l)
              /\ RefsOf(s) \subseteq Mentioned(s.content)
              /\ \A l \in Mentioned(s.content) : Conforms(l) =>
                   l[2] \in s.allowed /\ (l \in s.made \/ l \in RefsOf(s))
              => Knowing(t) /\ Progress(t)
    BY <1>4, <2>1, OnwardOrderly
  <2>3. Resume(c, t)
    BY <1>2, <1>4, <2>2
  <2>4. QED BY <1>2, <1>3, <2>2, <2>3, HarmKeeps
<1>5. CASE ~ (s.pc = "add" /\ s.content # Absent) /\ s.action /\ s.pc # "log"
  <2>1. PICK t \in LinkCall :
           /\ t = Finished(s, FALSE)
           /\ t.pc = (IF s.action THEN "log" ELSE "done") /\ t.ok = FALSE
           /\ t.action = s.action /\ t.content = s.content /\ t.link = s.link
           /\ t.allowed = s.allowed /\ t.new = s.new /\ t.made = s.made
    BY FinishedCall
  <2>2. Resume(c, t)
    BY <1>2, <1>5, <2>1
  <2>3. InHand(t) /\ Took(t) /\ Accounts(t, log[c], TRUE)
    BY <1>1, <1>3, <1>5, <2>1 DEF InHand, Took, Accounts, Linking
  <2>4. QED BY <1>2, <2>1, <2>2, <2>3, HarmKeeps
<1>6. CASE ~ (s.pc = "add" /\ s.content # Absent) /\ ~ (s.action /\ s.pc # "log")
  <2>1. Resume(c, [s EXCEPT !.pc = "failed"])
    BY <1>2, <1>6
  <2>2. QED BY <1>1, <1>2, <2>1, FailureKeeps
<1>7. QED BY <1>4, <1>5, <1>6

LEMMA CutOffKeeps ==
  ASSUME LinkInv, NEW c \in Calls, CutOff(c)
  PROVE  LinkInv'
<1>1. PICK s \in LinkCall : s = call[c]
  BY CallInHand
<1>2. /\ s.pc \notin Over /\ Resume(c, [s EXCEPT !.pc = "failed"])
      /\ hurt' = hurt \cup {c} /\ UNCHANGED <<registry, edges, stored, log, calm>>
  BY <1>1 DEF CutOff, Running
<1>3. QED BY <1>1, <1>2, FailureKeeps

----------------------------------------------------------------------------
LEMMA InitLinkInv == OntologyInit => LinkInv
<1> SUFFICES ASSUME OntologyInit PROVE LinkInv
  OBVIOUS
<1>1. /\ linkTypes \in [Predicates -> LinkType \cup {Absent}]
      /\ entity \in [Names -> Kinds \cup {Absent}]
  BY OntologyAssumption DEF OntologyInit
<1>2. /\ edges = [l \in Links |-> 0] /\ log = [c \in Calls |-> Absent]
      /\ call = [c \in Calls |-> Idle] /\ calm = {}
  BY DEF OntologyInit
<1>3. OntologyTyped
  BY <1>1, <1>2, IdleCall DEF OntologyTyped
<1>4. Effects
  <2>1. /\ Idle.pc = "new" /\ Idle.action = FALSE /\ Idle.ok = FALSE
        /\ Idle.new = FALSE
    BY DEF Idle
  <2>2. InHand(Idle) /\ Took(Idle) /\ \A h \in BOOLEAN : Accounts(Idle, Absent, h)
    BY <2>1 DEF InHand, Took, Accounts, Linking
  <2>3. QED BY <1>2, <2>1, <2>2 DEF Effects, Accounts
<1>5. Unchanged
  BY <1>2 DEF Unchanged
<1>6. QED BY <1>3, <1>4, <1>5 DEF LinkInv

LEMMA NextLinkInv == LinkInv /\ [OntologyNext]_ontologyVars => LinkInv'
<1> SUFFICES ASSUME LinkInv, [OntologyNext]_ontologyVars PROVE LinkInv'
  OBVIOUS
<1>1. ASSUME NEW c \in Calls, CallStep(c)
      PROVE  LinkInv'
  <2>1. CASE \/ Seed(c)
             \/ \E p \in Predicates, t \in Types : LinkTypeSet(c, p, t)
             \/ \E k \in Kinds : ObjectKindSet(c, k) \/ \E n \in Names : ProposeEntity(c, n, k)
    BY <2>1, RegistryKeeps
  <2>2. CASE \E s \in {Relate(l) : l \in Links} \cup {Remember(m) : m \in Memories} :
               Begin(c, s) \/ ActionApply(c, s)
    BY <2>2, BeginKeeps
  <2>3. CASE ValidatePredicate(c)
    BY <2>3, PredicateKeeps
  <2>4. CASE GetLinkType(c)
    BY <2>4, TypeKeeps
  <2>5. CASE ResolveSubject(c)
    BY <2>5, SubjectKeeps
  <2>6. CASE ResolveObject(c)
    BY <2>6, ObjectKeeps
  <2>7. CASE AddRelation(c)
    BY <2>7, AddKeeps
  <2>8. CASE FindDuplicate(c)
    BY <2>8, DuplicateKeeps
  <2>9. CASE Store(c)
    BY <2>9, StoreKeeps
  <2>10. CASE AllowedPredicates(c)
    BY <2>10, AllowedKeeps
  <2>11. CASE LogAction(c)
    BY <2>11, LogKeeps
  <2>12. CASE DatabaseError(c)
    BY <2>12, ErrorKeeps
  <2>13. CASE CutOff(c)
    BY <2>13, CutOffKeeps
  <2>14. QED
    BY <1>1, <2>1, <2>2, <2>3, <2>4, <2>5, <2>6, <2>7, <2>8, <2>9, <2>10, <2>11, <2>12,
       <2>13 DEF CallStep
<1>2. CASE UNCHANGED ontologyVars
  <2>1. UNCHANGED <<linkTypes, entity, edges, stored, log, call, calm, hurt>>
    BY <1>2 DEF ontologyVars, registry
  <2>2. OntologyTyped' /\ Effects'
    BY <2>1 DEF LinkInv, OntologyTyped, Effects, Took
  <2>3. Unchanged'
    BY <2>1 DEF LinkInv, Unchanged, Knowing, Progress, Conforms, Nothing
  <2>4. QED BY <2>2, <2>3 DEF LinkInv
<1>3. QED BY <1>1, <1>2 DEF OntologyNext

(* The action log tells what happened (LogTellsEffects): whatever calls    *)
(* run together, and wherever a transaction fails or a call is cut off,    *)
(* what action_apply logged as applied is there, and what it logged as     *)
(* failed, or did not log, wrote nothing unless it was interrupted.        *)
THEOREM ActionLogTells == OntologySpec => []LogTellsEffects
<1>1. LinkInv => LogTellsEffects
  <2> SUFFICES ASSUME LinkInv, NEW c \in Calls
      PROVE  /\ log[c] = "applied" =>
                  IF call[c].content = Absent THEN edges[call[c].link] > 0
                                            ELSE call[c].content \in stored
             /\ log[c] = "failed" /\ Wrote(call[c]) => c \in hurt
             /\ call[c].action /\ call[c].pc \in Over /\ Wrote(call[c]) /\ log[c] = Absent
                  => c \in hurt
    BY DEF LogTellsEffects
  <2>1. PICK s \in LinkCall :
           /\ s = call[c] /\ InHand(s) /\ Took(s) /\ Accounts(s, log[c], c \in hurt)
           /\ c \in calm \ hurt => Knowing(s) /\ Progress(s)
    BY CallInHand
  <2>2. Absent # "applied" /\ Absent # "failed"
    BY OntologyAssumption
  <2>3. log[c] = "applied" => s.ok
    BY <2>1, <2>2 DEF Accounts
  <2>4. log[c] = "failed" => s.action /\ s.pc = "done" /\ ~ s.ok
    BY <2>1, <2>2 DEF Accounts
  <2>5. s.action /\ s.pc \in Over /\ log[c] = Absent => s.pc = "failed"
    BY <2>1, <2>2 DEF Accounts, Over
  <2>6. QED BY <2>1, <2>3, <2>4, <2>5 DEF Took, Accounts
<1>2. QED BY <1>1, InitLinkInv, NextLinkInv, PTL DEF OntologySpec

(* A link is written exactly if it conforms (LinkedIffConforms), for every *)
(* call during which the registry and the entities stay as they are and    *)
(* nothing fails: validate_link reads them in four transactions, and       *)
(* apply_autolink goes through the references one by one.                  *)
THEOREM LinksConform == OntologySpec => []LinkedIffConforms
<1>1. LinkInv => LinkedIffConforms
  <2> SUFFICES ASSUME LinkInv, NEW c \in calm \ hurt,
                      call[c].pc \in {"log", "done"}, call[c].content = Absent \/ call[c].new
      PROVE  call[c].made = {l \in Asked(call[c]) : Conforms(l)}
    BY DEF LinkedIffConforms
  <2>1. Progress(call[c])
    BY DEF LinkInv, Unchanged
  <2>2. QED BY <2>1 DEF Progress
<1>2. QED BY <1>1, InitLinkInv, NextLinkInv, PTL DEF OntologySpec
=============================================================================
