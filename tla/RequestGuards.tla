---------------------------- MODULE RequestGuards ----------------------------
(***************************************************************************)
(* What stands in Redis before a request of the REST API: the fixed-window *)
(* counter of a principal (server/rate_limit.py), the claim of an          *)
(* Idempotency-Key (server/idempotency.py, the middlewares of              *)
(* server/api/middleware.py) and the one-time grant of a file upload       *)
(* (server/shared_files_upload.py, memory/working.py).                     *)
(*                                                                         *)
(* Requests of any number of server processes run at once; a step is one   *)
(* Redis command or the handler's own transaction.  Both guards let a      *)
(* request through when Redis does not answer.                             *)
(***************************************************************************)
EXTENDS Naturals, FiniteSets

CONSTANTS
  Writes,    \* writes that carry an Idempotency-Key, all of one principal
  Uploads,   \* uploads, which a grant authorizes instead
  Keys,      \* idempotency keys
  Grants,    \* upload tokens
  Uses(_),   \* the key of a write, the grant of an upload
  Limit,     \* requests a window admits
  Mishaps,   \* bound: keys that expire, commands that fail, requests cut off
  None

ASSUME RequestsAreApart == Writes \cap Uploads = {} /\ IsFiniteSet(Writes \cup Uploads)
ASSUME KeysAreApart == Keys \cap Grants = {}
ASSUME EveryRequestUses ==
  /\ \A r \in Writes : Uses(r) \in Keys
  /\ \A r \in Uploads : Uses(r) \in Grants
ASSUME NumbersOfGuards == Limit \in Nat \ {0} /\ Mishaps \in Nat
ASSUME NobodyIsNone == None \notin Writes \cup Uploads

VARIABLES
  counter,   \* ratelimit:<bucket>, 0 when there is none
  windowed,  \* the counter has a TTL
  claim,     \* idempotency:<key>: None, or set; by whom is for the properties
  grant,     \* file upload grants: "none", what a live one is for, "gone"
  request,   \* the requests
  made,      \* the requests whose handler has committed its work
  mishaps,
  orphaned,  \* history: the counter's first request never got to set its TTL
  lapses     \* history, per key: claims that expired, commands that failed open

vars == <<counter, windowed, claim, grant, request, made, mishaps, orphaned, lapses>>
window == <<counter, windowed, orphaned>>
claims == <<claim, lapses>>

----------------------------------------------------------------------------
Requests == Writes \cup Uploads

Places == {"new", "expire", "claim", "handle", "release", "body", "find", "store",
           "publish", "done"}
Outcomes == {"none", "ok", "refused", "raised", "limited", "replayed", "cut"}

(* Whether an upload makes a file or appends a version to one.             *)
Modes == {"create", "update"}

Request == [pc: Places, outcome: Outcomes, mode: Modes \cup {"none"}]
Fresh == [pc |-> "new", outcome |-> "none", mode |-> "none"]

Init ==
  /\ counter = 0 /\ windowed = FALSE
  /\ claim = [k \in Keys |-> None]
  /\ grant = [g \in Grants |-> "none"]
  /\ request = [r \in Requests |-> Fresh]
  /\ made = {} /\ mishaps = 0
  /\ orphaned = FALSE
  /\ lapses = [k \in Keys |-> 0]

----------------------------------------------------------------------------
At(r, place) == request[r].pc = place
Goto(r, place) == request' = [request EXCEPT ![r].pc = place]
Answer(r, o) == request' = [request EXCEPT ![r].pc = "done", ![r].outcome = o]
Mishap == mishaps < Mishaps /\ mishaps' = mishaps + 1

(* The middlewares count the requests of a class that has a bucket; an     *)
(* upload, authorized by its grant alone, is of none.                      *)
Counted(r) == r \in Writes

(* The TTL is set by the request that reaches the limit.                   *)
BugExpireAtLimit(r) ==
  /\ Counted(r) /\ At(r, "new")
  /\ counter' = counter + 1
  /\ IF counter' > Limit
     THEN Answer(r, "limited")
     ELSE Goto(r, IF counter' = Limit THEN "expire" ELSE "claim")
  /\ UNCHANGED <<windowed, orphaned, claims, grant, made, mishaps>>

(* allow: INCR, and EXPIRE when this was the first hit; the TTL read after *)
(* that only says when to come back.                                       *)
Count(r) ==
  /\ Counted(r) /\ At(r, "new")
  /\ counter' = counter + 1
  /\ IF counter' > Limit
     THEN Answer(r, "limited")
     ELSE Goto(r, IF counter' = 1 THEN "expire" ELSE "claim")
  /\ UNCHANGED <<windowed, orphaned, claims, grant, made, mishaps>>

SetExpire(r) ==
  /\ At(r, "expire")
  /\ windowed' = TRUE
  /\ Goto(r, "claim")
  /\ UNCHANGED <<counter, orphaned, claims, grant, made, mishaps>>

WindowEnds ==
  /\ windowed
  /\ counter' = 0 /\ windowed' = FALSE /\ orphaned' = FALSE
  /\ UNCHANGED <<claims, grant, request, made, mishaps>>

(* A command of allow fails: the request goes on uncounted, or counted.    *)
LimiterFails(r, counts) ==
  /\ Counted(r) /\ (At(r, "new") \/ At(r, "expire"))
  /\ Mishap
  /\ counts => At(r, "new")
  /\ counter' = IF counts THEN counter + 1 ELSE counter
  /\ orphaned' = (orphaned \/ At(r, "expire") \/ (counts /\ counter = 0))
  /\ Goto(r, "claim")
  /\ UNCHANGED <<windowed, claims, grant, made>>

(* SET without NX.                                                         *)
BugNoNx(r) ==
  /\ At(r, "claim")
  /\ claim' = [claim EXCEPT ![Uses(r)] = r] /\ Goto(r, "handle")
  /\ UNCHANGED <<window, lapses, grant, made, mishaps>>

(* claim: SET NX EX.                                                       *)
Claim(r) ==
  LET k == Uses(r) IN
  /\ At(r, "claim")
  /\ IF claim[k] = None
     THEN claim' = [claim EXCEPT ![k] = r] /\ Goto(r, "handle")
     ELSE Answer(r, "replayed") /\ UNCHANGED claim
  /\ UNCHANGED <<window, lapses, grant, made, mishaps>>

Lapse(k) == lapses' = [lapses EXCEPT ![k] = @ + 1]

ClaimFailsOpen(r) ==
  /\ At(r, "claim") /\ Mishap
  /\ Lapse(Uses(r))
  /\ Goto(r, "handle")
  /\ UNCHANGED <<window, claim, grant, made>>

ClaimExpires(k) ==
  /\ claim[k] # None /\ Mishap
  /\ Lapse(k)
  /\ claim' = [claim EXCEPT ![k] = None]
  /\ UNCHANGED <<window, grant, request, made>>

(* call_next.  A handler that returns an answer with a status of 400 or    *)
(* more has done nothing and has its key released; one that raises, before *)
(* or after its work, passes the middleware as an exception: map_exception *)
(* makes an answer of 400, 403, 422 or 500 of it outside, and the key      *)
(* stays.                                                                  *)
Succeed(r) ==
  /\ At(r, "handle")
  /\ made' = made \cup {r}
  /\ Answer(r, "ok")
  /\ UNCHANGED <<window, claims, grant, mishaps>>

Refuse(r) ==
  /\ At(r, "handle")
  /\ request' = [request EXCEPT ![r].pc = "release", ![r].outcome = "refused"]
  /\ UNCHANGED <<window, claims, grant, made, mishaps>>

HandlerRaises(r, late) ==
  /\ At(r, "handle")
  /\ made' = IF late THEN made \cup {r} ELSE made
  /\ Answer(r, "raised")
  /\ UNCHANGED <<window, claims, grant, mishaps>>

(* release: DEL, whoever has claimed the key since.                        *)
Release(r) ==
  /\ At(r, "release")
  /\ claim' = [claim EXCEPT ![Uses(r)] = None]
  /\ Goto(r, "done")
  /\ UNCHANGED <<window, lapses, grant, made, mishaps>>

----------------------------------------------------------------------------
(* Uploads.  file_upload_request, with or without a file_id: the grant is  *)
(* stored with a TTL.                                                      *)
GrantFor(file) == IF file THEN "update" ELSE "create"
Live(g) == grant[g] \in Modes

Mint(g) ==
  /\ grant[g] = "none"
  /\ \E file \in BOOLEAN : grant' = [grant EXCEPT ![g] = GrantFor(file)]
  /\ UNCHANGED <<window, claims, request, made, mishaps>>

GrantExpires(g) ==
  /\ Live(g) /\ Mishap
  /\ grant' = [grant EXCEPT ![g] = "gone"]
  /\ UNCHANGED <<window, claims, request, made>>

(* handle_shared_file_upload: GETDEL comes first, so that whatever is      *)
(* wrong with the body costs the grant.                                    *)
Redeem(r) ==
  LET g == Uses(r) IN
  /\ r \in Uploads /\ At(r, "new")
  /\ IF Live(g)
     THEN /\ grant' = [grant EXCEPT ![g] = "gone"]
          /\ request' = [request EXCEPT ![r].pc = "body", ![r].mode = grant[g]]
     ELSE Answer(r, "refused") /\ UNCHANGED grant
  /\ UNCHANGED <<window, claims, made, mishaps>>

CheckBody(r, good) ==
  /\ At(r, "body")
  /\ IF ~good THEN Answer(r, "refused")
     ELSE Goto(r, IF request[r].mode = "update" THEN "find" ELSE "store")
  /\ UNCHANGED <<window, claims, grant, made, mishaps>>

(* An update asks for the file first: 404 when it was archived since.      *)
FindFile(r, found) ==
  /\ At(r, "find")
  /\ IF found THEN Goto(r, "store") ELSE Answer(r, "refused")
  /\ UNCHANGED <<window, claims, grant, made, mishaps>>

(* The file is created, or its next version is; a failure is an answer of  *)
(* 500.                                                                    *)
Store(r, stored) ==
  /\ At(r, "store")
  /\ IF stored THEN made' = made \cup {r} /\ Goto(r, "publish")
     ELSE Answer(r, "refused") /\ UNCHANGED made
  /\ UNCHANGED <<window, claims, grant, mishaps>>

(* A failure of the publication is logged.                                 *)
Publish(r) ==
  /\ At(r, "publish")
  /\ Answer(r, "ok")
  /\ UNCHANGED <<window, claims, grant, made, mishaps>>

(* But after an update the file is read once more, outside of any try: the *)
(* version is stored although the uploader is told otherwise.              *)
MirrorRaises(r) ==
  /\ At(r, "publish") /\ request[r].mode = "update" /\ Mishap
  /\ Answer(r, "raised")
  /\ UNCHANGED <<window, claims, grant, made>>

(* The process of a request ends, or DEL fails.                            *)
CutOff(r) ==
  /\ ~At(r, "new") /\ ~At(r, "done") /\ Mishap
  /\ orphaned' = (orphaned \/ At(r, "expire"))
  /\ Answer(r, "cut")
  /\ UNCHANGED <<counter, windowed, claims, grant, made>>

----------------------------------------------------------------------------
Guard(r) ==
  \/ Count(r) \/ SetExpire(r) \/ (\E counts \in BOOLEAN : LimiterFails(r, counts))
  \/ Claim(r) \/ ClaimFailsOpen(r) \/ Release(r)

Handle(r) == Succeed(r) \/ Refuse(r) \/ \E late \in BOOLEAN : HandlerRaises(r, late)

Upload(r) ==
  \/ Redeem(r) \/ Publish(r) \/ MirrorRaises(r)
  \/ \E fine \in BOOLEAN : CheckBody(r, fine) \/ FindFile(r, fine) \/ Store(r, fine)

Next ==
  \/ \E r \in Requests : Guard(r) \/ Handle(r) \/ Upload(r) \/ CutOff(r)
  \/ \E k \in Keys : ClaimExpires(k)
  \/ \E g \in Grants : Mint(g) \/ GrantExpires(g)
  \/ WindowEnds

Spec == Init /\ [][Next]_vars

----------------------------------------------------------------------------
(* A counter without a TTL is one whose first request is about to set it,  *)
(* or was cut off or failed before it did: nothing else leaves a bucket    *)
(* that stays closed once it is over the limit (allow).                    *)
CounterExpires ==
  counter > 0 /\ ~windowed => orphaned \/ \E r \in Requests : At(r, "expire")

(* The work of an idempotency key is done once, and once more for each     *)
(* time its claim expired or Redis failed: also when the handler outlives  *)
(* its claim, and when it releases the claim of another request; the work  *)
(* of an upload token is done at most once, however much at once it is     *)
(* presented (IdempotencyMiddleware, claim, release,                       *)
(* pop_file_upload_grant).                                                 *)
Done(x) == {r \in made : Uses(r) = x}
Under(g) == {r \in Uploads : Uses(r) = g /\ request[r].pc \in {"body", "find", "store"}}

ProcessedOnce ==
  /\ \A k \in Keys : Cardinality(Done(k)) <= 1 + lapses[k]
  /\ \A g \in Grants : Cardinality(Done(g) \cup Under(g)) <= IF grant[g] = "gone" THEN 1 ELSE 0

(* idempotency.py: "On handler failure (status >= 400) the key is deleted  *)
(* so clients may retry": a request that was answered with a failure, and  *)
(* is past its release, holds no key.  One whose handler raised does.      *)
Failed(r) == request[r].pc = "done" /\ request[r].outcome \in {"refused", "raised"}

FailuresFreeKeys == \A r \in Writes : Failed(r) => claim[Uses(r)] # r
=============================================================================
