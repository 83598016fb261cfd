---------------------------- MODULE SharedFiles ----------------------------
(***************************************************************************)
(* One shared file: its row and version rows in Postgres                   *)
(* (memory/shared_files.py), its public mirror in the object bucket        *)
(* (storage/bucket.py), and the tool handlers that change both             *)
(* (the file_* methods of memory/facade.py).                               *)
(*                                                                         *)
(* A request is one handler call.  The store runs each operation in one    *)
(* READ COMMITTED transaction; an action here is one SQL statement, which  *)
(* sees what was committed when it starts, or one put to the bucket, which *)
(* happens after the commit.  The last statement that writes the file row  *)
(* is taken together with the commit: the row lock it holds until then     *)
(* makes every other writer of the row wait.  Uncommitted version rows     *)
(* live in the request that wrote them, and make others wait too.          *)
(***************************************************************************)
EXTENDS Naturals, FiniteSets

CONSTANTS Requests,    \* handler calls; also names the content, or the share
                       \* token, that the call brings
          None,        \* no share token
          Operations,  \* the operations the requests may be
          InFlight,    \* bound on the requests that run at a time
          Faults       \* "abort": a call may be cut off; "bucket": a put may fail

ASSUME RequestsAssumption ==
  /\ IsFiniteSet(Requests)
  /\ None \notin Requests
  /\ Requests \cap {"original", "blank", "absent", "slug"} = {}
ASSUME OperationsAssumption ==
  Operations \subseteq {"update", "publish", "unpublish", "archive", "delete"}
ASSUME InFlightAssumption == InFlight \in Nat \ {0}
ASSUME FaultsAssumption == Faults \subseteq {"abort", "bucket"}

VARIABLES file,      \* the committed row of shared_files
          versions,  \* the committed rows of shared_file_versions
          index,     \* {token}/index.html in the bucket
          snaps,     \* {token}/v{n}.html in the bucket
          req        \* each request: control state and locals

vars == <<file, versions, index, snaps, req>>
database == <<file, versions>>
bucket == <<index, snaps>>

----------------------------------------------------------------------------
Content == Requests \cup {"original", "blank"}
Tokens == Requests

File == [visibility: {"private", "published"}, status: {"active", "archived"},
         current: Nat, token: Tokens \cup {None}]

InTransaction == {"insert", "bump", "count", "delete", "max", "lower",
                  "publish", "archive"}
Mirroring == {"get", "put snapshot", "put index", "wipe"}
Ended == {"new", "done", "failed"}

(* n: the version to insert, to delete or to mirror; seen: the current     *)
(* version read, then MAX(version); token: the share token of the row the  *)
(* transaction returned; html: what goes to the bucket.                    *)
Local == [pc: InTransaction \cup Mirroring \cup Ended, op: Operations \cup {"none"},
          n: Nat, seen: Nat, token: Tokens \cup {None}, html: Content]

Fresh == [pc |-> "new", op |-> "none", n |-> 0, seen |-> 0, token |-> None,
          html |-> "blank"]

FileTypeOK ==
  /\ file \in File
  /\ DOMAIN versions \subseteq Nat /\ \A v \in DOMAIN versions : versions[v] \in Content
  /\ index \in [Tokens -> Content \cup {"absent"}]
  /\ snaps \in [Tokens -> SUBSET (Nat \X Content)]
  /\ req \in [Requests -> Local]
  /\ \A r \in Requests : req[r].pc \in Mirroring => req[r].token # None

(* create, by the tool, the upload or the form of a new file: the file row *)
(* and version 1, in one transaction.                                      *)
Created == [visibility |-> "private", status |-> "active", current |-> 1,
            token |-> None]
FirstVersion == [v \in {1} |-> "original"]

Init ==
  /\ file = Created
  /\ versions = FirstVersion
  /\ index = [t \in Tokens |-> "absent"]
  /\ snaps = [t \in Tokens |-> {}]
  /\ req = [r \in Requests |-> Fresh]

----------------------------------------------------------------------------
Active == file.status = "active"
Numbers == DOMAIN versions

With(n, c) == [v \in Numbers \cup {n} |-> IF v = n THEN c ELSE versions[v]]
Without(n) == [v \in Numbers \ {n} |-> versions[v]]

(* Version rows written by transactions that are still open.               *)
Inserted(n) == {r \in Requests : req[r].pc = "bump" /\ req[r].n = n}
Deleted(n) == {r \in Requests : req[r].pc \in {"max", "lower"} /\ req[r].n = n}

Become(r, local) == req' = [req EXCEPT ![r] = local]
Goto(r, pc) == Become(r, [req[r] EXCEPT !.pc = pc])

Start(r, op) ==
  /\ op \in Operations
  /\ req[r].pc = "new"
  /\ Cardinality({q \in Requests : req[q].pc \notin Ended}) < InFlight

----------------------------------------------------------------------------
(* update.                                                                 *)

(* SELECT current_version: the row is found whatever its status.           *)
UpdateRead(r) ==
  /\ Start(r, "update")
  /\ Become(r, [Fresh EXCEPT !.pc = "insert", !.op = "update",
                                             !.n = file.current + 1])
  /\ UNCHANGED <<database, bucket>>

(* Mutant: no UNIQUE (file_id, version).                                   *)
BugNotUnique(r) ==
  /\ req[r].pc = "insert"
  /\ Goto(r, "bump")
  /\ UNCHANGED <<database, bucket>>

(* INSERT: UNIQUE (file_id, version) waits for an open transaction that    *)
(* wrote the same key, and fails when the key is taken.                    *)
UpdateInsert(r) ==
  LET n == req[r].n
  IN  /\ req[r].pc = "insert"
      /\ Inserted(n) = {} /\ Deleted(n) = {}
      /\ Goto(r, IF n \in Numbers THEN "failed" ELSE "bump")
      /\ UNCHANGED <<database, bucket>>

(* UPDATE current_version and COMMIT; a published file is then mirrored,   *)
(* whatever its status.                                                    *)
UpdateCommit(r) ==
  /\ req[r].pc = "bump"
  /\ versions' = With(req[r].n, r)
  /\ file' = [file EXCEPT !.current = req[r].n]
  /\ Become(r, [req[r] EXCEPT !.pc =
               IF file.visibility = "published" /\ file.token # None
               THEN "put snapshot" ELSE "done",
               !.token = file.token, !.html = r])
  /\ UNCHANGED bucket

----------------------------------------------------------------------------
(* delete_version.                                                         *)

DeleteRead(r, v) ==
  /\ Start(r, "delete")
  /\ Become(r, [Fresh EXCEPT
               !.pc = IF Active THEN "count" ELSE "done",
               !.op = "delete", !.n = v, !.seen = file.current])
  /\ UNCHANGED <<database, bucket>>

(* SELECT COUNT: the only version is not deleted.                          *)
DeleteCount(r) ==
  /\ req[r].pc = "count"
  /\ Goto(r, IF Cardinality(Numbers) <= 1 THEN "done" ELSE "delete")
  /\ UNCHANGED <<database, bucket>>

(* Mutant: current_version is left alone.                                  *)
BugKeepCurrent(r) ==
  /\ req[r].pc = "delete"
  /\ Deleted(req[r].n) = {}
  /\ versions' = Without(req[r].n)
  /\ Goto(r, "done")
  /\ UNCHANGED <<file, bucket>>

(* DELETE: waits for another open delete of the row.  Unless the deleted   *)
(* version is the current one that was read, COMMIT follows.               *)
DeleteRow(r) ==
  LET n == req[r].n
  IN  /\ req[r].pc = "delete"
      /\ Deleted(n) = {}
      /\ \/ /\ n \notin Numbers
            /\ Goto(r, "done")
            /\ UNCHANGED versions
         \/ /\ n \in Numbers /\ n = req[r].seen
            /\ Goto(r, "max")
            /\ UNCHANGED versions
         \/ /\ n \in Numbers /\ n # req[r].seen
            /\ versions' = Without(n)
            /\ Goto(r, "done")
      /\ UNCHANGED <<file, bucket>>

(* SELECT COALESCE(MAX(version), 1) over what is left.                     *)
DeleteMax(r) ==
  LET left == Numbers \ {req[r].n}
  IN  /\ req[r].pc = "max"
      /\ \E m \in left \cup {1} :
           /\ \A v \in left : v <= m
           /\ m \in left \/ left = {}
           /\ Become(r, [req[r] EXCEPT !.pc = "lower", !.seen = m])
      /\ UNCHANGED <<database, bucket>>

(* UPDATE current_version and COMMIT.                                      *)
DeleteCommit(r) ==
  /\ req[r].pc = "lower"
  /\ versions' = Without(req[r].n)
  /\ file' = [file EXCEPT !.current = req[r].seen]
  /\ Become(r, [req[r] EXCEPT !.pc =
               IF file.visibility = "published" /\ file.token # None
               THEN "get" ELSE "done",
               !.token = file.token])
  /\ UNCHANGED bucket

----------------------------------------------------------------------------
(* publish.                                                                *)

(* SELECT share_token: only of an active file.  seen is 1 when a token     *)
(* must be stamped.                                                        *)
PublishRead(r) ==
  /\ Start(r, "publish")
  /\ Become(r, [Fresh EXCEPT
               !.pc = IF Active THEN "publish" ELSE "done", !.op = "publish",
               !.seen = IF file.token = None THEN 1 ELSE 0])
  /\ UNCHANGED <<database, bucket>>

(* UPDATE and COMMIT: no condition but the id.                             *)
PublishCommit(r) ==
  LET token == IF req[r].seen = 1 THEN r ELSE file.token
  IN  /\ req[r].pc = "publish"
      /\ file' = [file EXCEPT !.visibility = "published", !.token = token]
      /\ Become(r, [req[r] EXCEPT !.pc = IF token # None THEN "get" ELSE "done",
                                 !.token = token, !.n = file.current])
      /\ UNCHANGED <<versions, bucket>>

----------------------------------------------------------------------------
(* The mirror.                                                             *)

(* file_publish and file_version_delete read the file again (get: active   *)
(* only, the content of the current version or nothing) to mirror it.  The *)
(* former keeps the version number of its own row, the latter takes token  *)
(* and number from what it reads.  The two SELECTs of get are one step:    *)
(* version rows never change, so only a deletion could come between them.  *)
MirrorGet(r) ==
  LET again == req[r].op = "delete"
      token == IF again THEN file.token ELSE req[r].token
  IN  /\ req[r].pc = "get"
      /\ Become(r, [req[r] EXCEPT
           !.pc = IF Active /\ token # None THEN "put snapshot" ELSE "done",
           !.n = IF again THEN file.current ELSE @,
           !.token = token,
           !.html = IF file.current \in Numbers THEN versions[file.current]
                                                ELSE "blank"])
      /\ UNCHANGED <<database, bucket>>

(* publish_html, the snapshot of the version and then the index.           *)
PutSnapshot(r) ==
  LET entry == <<req[r].n, req[r].html>>
  IN  /\ req[r].pc = "put snapshot"
      /\ snaps' = [snaps EXCEPT ![req[r].token] =
                     {s \in @ : s[1] # req[r].n} \cup {entry}]
      /\ Goto(r, "put index")
      /\ UNCHANGED <<database, index>>

PutIndex(r) ==
  /\ req[r].pc = "put index"
  /\ index' = [index EXCEPT ![req[r].token] = req[r].html]
  /\ Goto(r, "done")
  /\ UNCHANGED <<database, snaps>>

(* FilePublisher.unpublish: every object under the token, listed and       *)
(* deleted as one step.                                                    *)
Wipe(r) ==
  /\ req[r].pc = "wipe"
  /\ index' = [index EXCEPT ![req[r].token] = "absent"]
  /\ snaps' = [snaps EXCEPT ![req[r].token] = {}]
  /\ Goto(r, "done")
  /\ UNCHANGED database

(* A bucket error is logged and swallowed.                                 *)
BucketFails(r) ==
  /\ "bucket" \in Faults
  /\ req[r].pc \in {"put snapshot", "put index", "wipe"}
  /\ Goto(r, "done")
  /\ UNCHANGED <<database, bucket>>

----------------------------------------------------------------------------
(* unpublish and archive.                                                  *)

(* UPDATE and COMMIT, whatever the status; the token stays.                *)
Unpublish(r) ==
  /\ Start(r, "unpublish")
  /\ file' = [file EXCEPT !.visibility = "private"]
  /\ Become(r, [Fresh EXCEPT
               !.pc = IF file.token # None THEN "wipe" ELSE "done",
               !.op = "unpublish", !.token = file.token])
  /\ UNCHANGED <<versions, bucket>>

(* file_archive reads the token first, in a transaction of its own.        *)
ArchiveRead(r) ==
  /\ Start(r, "archive")
  /\ Become(r, [Fresh EXCEPT !.pc = "archive", !.op = "archive",
               !.token = IF Active THEN file.token ELSE None])
  /\ UNCHANGED <<database, bucket>>

ArchiveCommit(r) ==
  /\ req[r].pc = "archive"
  /\ file' = [file EXCEPT !.status = "archived"]
  /\ Goto(r, IF Active /\ req[r].token # None THEN "wipe" ELSE "done")
  /\ UNCHANGED <<versions, bucket>>

(* The request is cut off: an open transaction is rolled back, and what    *)
(* follows the commit does not happen.                                     *)
Abort(r) ==
  /\ "abort" \in Faults
  /\ req[r].pc \notin Ended
  /\ Goto(r, "failed")
  /\ UNCHANGED <<database, bucket>>

----------------------------------------------------------------------------
(* The operations, each a tool and a form of the console.                  *)
Updating(r) == UpdateRead(r) \/ UpdateInsert(r) \/ UpdateCommit(r)
Deleting(r) ==
  \/ \E v \in Numbers : DeleteRead(r, v)
  \/ DeleteCount(r) \/ DeleteRow(r) \/ DeleteMax(r) \/ DeleteCommit(r)
Publishing(r) == PublishRead(r) \/ PublishCommit(r)
Archiving(r) == ArchiveRead(r) \/ ArchiveCommit(r)
Mirror(r) ==
  MirrorGet(r) \/ PutSnapshot(r) \/ PutIndex(r) \/ Wipe(r) \/ BucketFails(r)

Step(r) ==
  \/ Updating(r) \/ Deleting(r) \/ Publishing(r) \/ Unpublish(r) \/ Archiving(r)
  \/ Mirror(r) \/ Abort(r)

Next == \E r \in Requests : Step(r)

Spec == Init /\ [][Next]_vars

----------------------------------------------------------------------------
(* Properties.                                                             *)

(* The history has no gap, no duplicate, and ends at the current version   *)
(* ("UNIQUE (file_id, version) makes MAX(version)+1 safe").                *)
Gapless == Numbers = 1 .. file.current

(* An update that returned is in the history under the number it returned: *)
(* concurrent updates never overwrite each other.                          *)
Returned(r) == req[r].op = "update" /\ req[r].pc \in Mirroring \cup {"done"}
UpdatesKept ==
  \A r \in Requests : Returned(r) => req[r].n \in Numbers /\ versions[req[r].n] = r

(* What the updates hold between two statements: the number an update is   *)
(* about to insert is at most one ahead, the number it has inserted is the *)
(* next one, and it is the only one that has inserted it.                  *)
UpdatesInHand ==
  /\ \A r \in Requests : req[r].pc = "insert" =>
       req[r].op = "update" /\ req[r].n \in 1 .. file.current + 1
  /\ \A r \in Requests : req[r].pc = "bump" =>
       req[r].op = "update" /\ req[r].n = file.current + 1
  /\ \A q, r \in Requests : req[q].pc = "bump" /\ req[r].pc = "bump" => q = r
  /\ \A r \in Requests : req[r].pc \in {"get", "publish", "archive"} =>
       req[r].op # "update"
  /\ \A r \in Requests : req[r].pc \in {"count", "delete", "max", "lower"} =>
       req[r].op = "delete"

(* Until a deletion is asked for the history is without gap and keeps what *)
(* every update returned, whatever updates run at once or are cut off.     *)
Undeleted == \A r \in Requests : req[r].op # "delete"
VersionsNumbered == Undeleted => Gapless /\ UpdatesKept

(* current_version is the newest version there is, so that reading the     *)
(* file finds content and the next update finds a free number.             *)
CurrentIsNewest ==
  file.current \in Numbers /\ \A v \in Numbers : v <= file.current

(* The public page /s/{handle} asks for a published, active file by its    *)
(* token or by the slug, which is stamped with the token and, like it,     *)
(* never taken back.                                                       *)
Handles == Tokens \cup {"slug"}
Bears(handle) == IF handle = "slug" THEN file.token # None ELSE file.token = handle
Published(handle) == file.visibility = "published" /\ Active /\ Bears(handle)

(* ?v=n: one content, or nothing.                                          *)
PageOf(handle, n) == IF Published(handle) /\ n \in Numbers THEN {versions[n]} ELSE {}
Page(handle) == PageOf(handle, file.current)
Sidebar(handle) == IF Published(handle) THEN Numbers ELSE {}

(* The link the page gives to the mirror, whose keys are tokens.           *)
DirectUrl(handle) == IF handle = "slug" THEN file.token ELSE handle

(* With no request under way, the mirror behind a public page shows what   *)
(* the page does, of the versions it lists too, and the mirror of what has *)
(* no page is empty.                                                       *)
Quiet == \A r \in Requests : req[r].pc \in Ended
MirrorFollows ==
  Quiet =>
    /\ \A h \in Handles : Published(h) =>
         /\ Page(h) = {index[DirectUrl(h)]}
         /\ \A s \in snaps[DirectUrl(h)] :
              s[1] \in Sidebar(h) => PageOf(h, s[1]) = {s[2]}
    /\ \A t \in Tokens : ~ Published(t) => index[t] = "absent" /\ snaps[t] = {}

=============================================================================
