------------------------- MODULE RequestGuardsProofs ------------------------
(***************************************************************************)
(* Theorems about RequestGuards for every set of writes, uploads, keys and *)
(* grants, every limit and any number of mishaps; and, in the second half, *)
(* about Members, where the roles the guards ask for come from: for every  *)
(* set of organisations, people and requests and any number of handlers    *)
(* cut short.                                                              *)
(***************************************************************************)
EXTENDS RequestGuards, Members, FiniteSetTheorems, TLAPS

TypeOK ==
  /\ counter \in Nat /\ windowed \in BOOLEAN /\ orphaned \in BOOLEAN
  /\ claim \in [Keys -> Writes \cup {None}]
  /\ grant \in [Grants -> Modes \cup {"none", "gone"}]
  /\ request \in [Requests -> Request]
  /\ made \subseteq Requests
  /\ mishaps \in Nat
  /\ lapses \in [Keys -> Nat]

(* Where the two kinds of requests may be, and that none has done its work *)
(* before its handler or its store has.                                    *)
WritePlaces == {"new", "expire", "claim", "handle", "release", "done"}
UploadPlaces == {"new", "body", "find", "store", "publish", "done"}
InPlace ==
  /\ \A r \in Writes : request[r].pc \in WritePlaces
  /\ \A r \in Uploads : request[r].pc \in UploadPlaces
  /\ \A r \in Requests : r \in made => request[r].pc \in {"publish", "done"}

(* One request moves on.                                                   *)
Moved(r, pc, o) ==
  /\ request' \in [Requests -> Request]
  /\ request'[r].pc = pc /\ request'[r].outcome = o
  /\ \A q \in Requests \ {r} : request'[q] = request[q]

LEMMA Movement ==
  ASSUME TypeOK, NEW r \in Requests, NEW pc \in Places, NEW o \in Outcomes, NEW m \in Modes
  PROVE  /\ Goto(r, pc) => Moved(r, pc, request[r].outcome)
         /\ Answer(r, o) => Moved(r, "done", o)
         /\ request' = [request EXCEPT ![r].pc = pc, ![r].outcome = o] => Moved(r, pc, o)
         /\ request' = [request EXCEPT ![r].pc = pc, ![r].mode = m]
              => Moved(r, pc, request[r].outcome)
<1>1. request[r] \in Request /\ request \in [Requests -> Request] /\ "done" \in Places
  BY DEF TypeOK, Places
<1>2. ASSUME NEW e \in Request, request' = [request EXCEPT ![r] = e]
      PROVE  Moved(r, e.pc, e.outcome)
  BY <1>1, <1>2 DEF Moved
<1>3. ASSUME NEW p \in Places
      PROVE  /\ [request[r] EXCEPT !.pc = p] \in Request
             /\ [request[r] EXCEPT !.pc = p, !.outcome = o] \in Request
             /\ [request[r] EXCEPT !.pc = p, !.mode = m] \in Request
             /\ [request[r] EXCEPT !.pc = p].pc = p
             /\ [request[r] EXCEPT !.pc = p].outcome = request[r].outcome
             /\ [request[r] EXCEPT !.pc = p, !.outcome = o].pc = p
             /\ [request[r] EXCEPT !.pc = p, !.outcome = o].outcome = o
             /\ [request[r] EXCEPT !.pc = p, !.mode = m].pc = p
             /\ [request[r] EXCEPT !.pc = p, !.mode = m].outcome = request[r].outcome
  BY <1>1 DEF Request
<1>4. Goto(r, pc) => Moved(r, pc, request[r].outcome)
  BY <1>2, <1>3 DEF Goto
<1>5. Answer(r, o) => Moved(r, "done", o)
  BY <1>1, <1>2, <1>3 DEF Answer
<1>6. ASSUME request' = [request EXCEPT ![r].pc = pc, ![r].outcome = o]
      PROVE  Moved(r, pc, o)
  <2>1. request' = [request EXCEPT ![r] = [request[r] EXCEPT !.pc = pc, !.outcome = o]]
    BY <1>1, <1>6
  <2>2. QED BY <1>2, <1>3, <2>1
<1>7. ASSUME request' = [request EXCEPT ![r].pc = pc, ![r].mode = m]
      PROVE  Moved(r, pc, request[r].outcome)
  <2>1. request' = [request EXCEPT ![r] = [request[r] EXCEPT !.pc = pc, !.mode = m]]
    BY <1>1, <1>7
  <2>2. QED BY <1>2, <1>3, <2>1
<1>8. QED BY <1>4, <1>5, <1>6, <1>7

(* What a step of a request does to keys, grants and work.                 *)
Still == UNCHANGED <<claims, grant, made>>
Works(r, before, after) ==
  /\ request[r].pc = before /\ Moved(r, after, request'[r].outcome)
  /\ made' = made \cup {r} /\ UNCHANGED <<claims, grant>>
Takes(r) ==
  /\ request[r].pc = "claim" /\ Moved(r, "handle", request[r].outcome)
  /\ UNCHANGED <<grant, made>>
  /\ \/ /\ claim[Uses(r)] = None /\ claim' = [claim EXCEPT ![Uses(r)] = r]
        /\ UNCHANGED lapses
     \/ Lapse(Uses(r)) /\ UNCHANGED claim
Frees(r) ==
  /\ request[r].pc = "release" /\ Moved(r, "done", request[r].outcome)
  /\ claim' = [claim EXCEPT ![Uses(r)] = None]
  /\ UNCHANGED <<grant, lapses, made>>
Redeems(r) ==
  /\ request[r].pc = "new" /\ r \in Uploads /\ Live(Uses(r))
  /\ Moved(r, "body", request[r].outcome)
  /\ grant' = [grant EXCEPT ![Uses(r)] = "gone"]
  /\ UNCHANGED <<claims, made>>
(* The rest leaves all of them alone.                                      *)
Onward(r, before, after) ==
  \/ before = "new" /\ after \in {"expire", "claim"} /\ r \in Writes
  \/ before = "expire" /\ after = "claim"
  \/ before = "handle" /\ after = "release"
  \/ before = "body" /\ after \in {"find", "store"}
  \/ before = "find" /\ after = "store"
  \/ after = "done"
Passes(r) ==
  \E after \in Places, o \in Outcomes :
    /\ request[r].pc # "done" /\ Onward(r, request[r].pc, after)
    /\ Moved(r, after, o) /\ Still
    /\ \/ o = request[r].outcome /\ after # "done"
       \/ o \in {"raised", "cut"} /\ after = "done"
       \/ o \in {"limited", "replayed", "refused"} /\ request[r].pc \notin {"handle", "release"}
       \/ o = "ok" /\ request[r].pc = "publish"
       \/ o = "refused" /\ request[r].pc = "handle" /\ after = "release"

RequestStep(r) == Guard(r) \/ Handle(r) \/ Upload(r) \/ CutOff(r)

LEMMA Table ==
  ASSUME TypeOK, NEW r \in Requests, RequestStep(r)
  PROVE  \/ Works(r, "handle", "done") /\ request'[r].outcome \in {"ok", "raised"}
         \/ Works(r, "store", "publish")
         \/ Takes(r) \/ Frees(r) \/ Redeems(r) \/ Passes(r)
<1> USE DEF Places, Outcomes, Modes, At, claims
<1>1. request[r].outcome \in Outcomes /\ request[r].pc \in Places
  BY DEF TypeOK, Request
<1>2. CASE Count(r)
  <2>1. Counted(r) /\ request[r].pc = "new" /\ Still
    BY <1>2 DEF Count, Still
  <2>2. Answer(r, "limited") \/ Goto(r, "expire") \/ Goto(r, "claim")
    BY <1>2 DEF Count
  <2>3. Moved(r, "done", "limited") \/ \E pc \in {"expire", "claim"} : Moved(r, pc, request[r].outcome)
    BY <2>2, Movement
  <2>4. QED BY <1>1, <2>1, <2>3 DEF Passes, Onward, Counted
<1>3. CASE SetExpire(r)
  <2>1. Moved(r, "claim", request[r].outcome)
    BY <1>3, Movement DEF SetExpire
  <2>2. QED BY <1>1, <1>3, <2>1 DEF SetExpire, Passes, Onward, Still
<1>4. ASSUME NEW counts \in BOOLEAN, LimiterFails(r, counts)
      PROVE  Passes(r)
  <2>1. Moved(r, "claim", request[r].outcome)
    BY <1>4, Movement DEF LimiterFails
  <2>2. QED BY <1>1, <1>4, <2>1 DEF LimiterFails, Passes, Onward, Still, Counted
<1>5. CASE Claim(r)
  <2>1. CASE claim[Uses(r)] = None
    <3>1. Moved(r, "handle", request[r].outcome)
      BY <1>5, <2>1, Movement DEF Claim
    <3>2. QED BY <1>5, <2>1, <3>1 DEF Claim, Takes
  <2>2. CASE claim[Uses(r)] # None
    <3>1. Moved(r, "done", "replayed")
      BY <1>5, <2>2, Movement DEF Claim
    <3>2. QED BY <1>5, <2>2, <3>1 DEF Claim, Passes, Onward, Still
  <2>3. QED BY <2>1, <2>2
<1>6. CASE ClaimFailsOpen(r)
  <2>1. Moved(r, "handle", request[r].outcome)
    BY <1>6, Movement DEF ClaimFailsOpen
  <2>2. QED BY <1>6, <2>1 DEF ClaimFailsOpen, Takes
<1>7. CASE Release(r)
  <2>1. Moved(r, "done", request[r].outcome)
    BY <1>7, Movement DEF Release
  <2>2. QED BY <1>7, <2>1 DEF Release, Frees
<1>8. CASE Succeed(r)
  <2>1. Moved(r, "done", "ok")
    BY <1>8, Movement DEF Succeed
  <2>2. QED BY <1>8, <2>1 DEF Succeed, Works, Moved
<1>9. CASE Refuse(r)
  <2>1. Moved(r, "release", "refused")
    BY <1>9, Movement DEF Refuse
  <2>2. QED BY <1>9, <2>1 DEF Refuse, Passes, Onward, Still
<1>10. ASSUME NEW late \in BOOLEAN, HandlerRaises(r, late)
       PROVE  Passes(r) \/ (Works(r, "handle", "done") /\ request'[r].outcome = "raised")
  <2>1. Moved(r, "done", "raised")
    BY <1>10, Movement DEF HandlerRaises
  <2>2. QED BY <1>10, <2>1 DEF HandlerRaises, Passes, Onward, Still, Works, Moved
<1>11. CASE Redeem(r)
  <2>1. CASE Live(Uses(r))
    <3>1. Moved(r, "body", request[r].outcome)
      BY <1>11, <2>1, Movement DEF Redeem, Live
    <3>2. QED BY <1>11, <2>1, <3>1 DEF Redeem, Redeems
  <2>2. CASE ~ Live(Uses(r))
    <3>1. Moved(r, "done", "refused")
      BY <1>11, <2>2, Movement DEF Redeem
    <3>2. QED BY <1>11, <2>2, <3>1 DEF Redeem, Passes, Onward, Still
  <2>3. QED BY <2>1, <2>2
<1>12. CASE Publish(r)
  <2>1. Moved(r, "done", "ok")
    BY <1>12, Movement DEF Publish
  <2>2. QED BY <1>12, <2>1 DEF Publish, Passes, Onward, Still
<1>13. CASE MirrorRaises(r)
  <2>1. Moved(r, "done", "raised")
    BY <1>13, Movement DEF MirrorRaises
  <2>2. QED BY <1>13, <2>1 DEF MirrorRaises, Passes, Onward, Still
<1>14. ASSUME NEW fine \in BOOLEAN, CheckBody(r, fine) \/ FindFile(r, fine)
       PROVE  Passes(r)
  <2>1. \/ Moved(r, "done", "refused")
        \/ \E pc \in {"find", "store"} : Moved(r, pc, request[r].outcome)
             /\ (request[r].pc = "find" => pc = "store")
    BY <1>14, Movement DEF CheckBody, FindFile
  <2>2. Still /\ request[r].pc \in {"body", "find"}
    BY <1>14 DEF CheckBody, FindFile, Still
  <2>3. QED BY <1>1, <2>1, <2>2 DEF Passes, Onward
<1>15. ASSUME NEW fine \in BOOLEAN, Store(r, fine)
       PROVE  Passes(r) \/ Works(r, "store", "publish")
  <2>1. CASE fine
    <3>1. Moved(r, "publish", request[r].outcome)
      BY <1>15, <2>1, Movement DEF Store
    <3>2. QED BY <1>15, <2>1, <3>1 DEF Store, Works, Moved
  <2>2. CASE ~ fine
    <3>1. Moved(r, "done", "refused")
      BY <1>15, <2>2, Movement DEF Store
    <3>2. QED BY <1>15, <2>2, <3>1 DEF Store, Passes, Onward, Still
  <2>3. QED BY <2>1, <2>2
<1>16. CASE CutOff(r)
  <2>1. Moved(r, "done", "cut")
    BY <1>16, Movement DEF CutOff
  <2>2. QED BY <1>16, <2>1 DEF CutOff, Passes, Onward, Still
<1>17. QED
  BY <1>2, <1>3, <1>4, <1>5, <1>6, <1>7, <1>8, <1>9, <1>10, <1>11, <1>12, <1>13, <1>14, <1>15, <1>16
  DEF RequestStep, Guard, Handle, Upload

----------------------------------------------------------------------------
(* The requests that hold a key or have done its work; at most one more    *)
(* than the claims on it that came to nothing, and one fewer while it is   *)
(* free.                                                                   *)
Holding(r) == r \in made \/ request[r].pc \in {"handle", "release"}
Holders(k) == {r \in Writes : Uses(r) = k /\ Holding(r)}
Free(k) == IF claim[k] = None THEN 1 ELSE 0

KeyInv == \A k \in Keys : Cardinality(Holders(k)) + Free(k) <= 1 + lapses[k]

(* An upload past its grant is the only one, and the grant is gone.        *)
Spending(g) == {r \in Uploads : Uses(r) = g /\ (r \in made \/ request[r].pc \in {"body", "find", "store"})}
GrantInv ==
  \A g \in Grants :
    /\ grant[g] # "gone" => Spending(g) = {}
    /\ \A q, r \in Spending(g) : q = r

IInv == TypeOK /\ InPlace /\ CounterExpires /\ KeyInv /\ GrantInv

(* What no request's step does.                                            *)
Elapse(k) ==
  /\ claim[k] # None /\ Lapse(k) /\ claim' = [claim EXCEPT ![k] = None]
  /\ UNCHANGED <<grant, request, made>>
MintOrExpire(g) ==
  /\ grant[g] # "gone"
  /\ \E to \in Modes \cup {"gone"} : grant' = [grant EXCEPT ![g] = to]
  /\ UNCHANGED <<claims, request, made>>

LEMMA Steps ==
  ASSUME Next
  PROVE  \/ \E r \in Requests : RequestStep(r)
         \/ \E k \in Keys : ClaimExpires(k) /\ Elapse(k)
         \/ \E g \in Grants : (Mint(g) \/ GrantExpires(g)) /\ MintOrExpire(g)
         \/ WindowEnds
<1>1. ASSUME NEW k \in Keys, ClaimExpires(k)
      PROVE  Elapse(k)
  BY <1>1 DEF ClaimExpires, Elapse
<1>2. ASSUME NEW g \in Grants, Mint(g) \/ GrantExpires(g)
      PROVE  MintOrExpire(g)
  BY <1>2 DEF Mint, GrantExpires, GrantFor, MintOrExpire, Modes, Live
<1>3. QED BY <1>1, <1>2 DEF Next, RequestStep

(* The counter's part of a step.                                           *)
LEMMA CounterSteps ==
  ASSUME TypeOK, Next
  PROVE  /\ counter' \in {counter, counter + 1, 0}
         /\ mishaps' \in {mishaps, mishaps + 1}
         /\ windowed' \in BOOLEAN
         /\ orphaned' \in BOOLEAN
<1> USE DEF window, Mishap
<1> DEFINE Good == /\ counter' \in {counter, counter + 1, 0}
                   /\ mishaps' \in {mishaps, mishaps + 1}
                   /\ windowed' \in BOOLEAN
                   /\ orphaned' \in BOOLEAN
<1>0. orphaned \in BOOLEAN /\ windowed \in BOOLEAN
  BY DEF TypeOK
<1>1. ASSUME NEW r \in Requests, Count(r) \/ SetExpire(r)
      PROVE  Good
  BY <1>0, <1>1 DEF Count, SetExpire
<1>2. ASSUME NEW r \in Requests, NEW counts \in BOOLEAN, LimiterFails(r, counts)
      PROVE  Good
  BY <1>0, <1>2 DEF LimiterFails
<1>3. ASSUME NEW r \in Requests, Claim(r) \/ ClaimFailsOpen(r) \/ Release(r) \/ Handle(r) \/ Upload(r)
      PROVE  Good
  <2>1. CASE Claim(r) \/ ClaimFailsOpen(r) \/ Release(r)
    BY <1>0, <2>1 DEF Claim, ClaimFailsOpen, Release
  <2>2. CASE Handle(r)
    BY <1>0, <2>2 DEF Handle, Succeed, Refuse, HandlerRaises
  <2>3. CASE Redeem(r) \/ Publish(r) \/ MirrorRaises(r)
    BY <1>0, <2>3 DEF Redeem, Publish, MirrorRaises
  <2>4. CASE \E fine \in BOOLEAN : CheckBody(r, fine) \/ FindFile(r, fine) \/ Store(r, fine)
    BY <1>0, <2>4 DEF CheckBody, FindFile, Store
  <2>5. QED BY <1>3, <2>1, <2>2, <2>3, <2>4 DEF Upload
<1>4. ASSUME NEW r \in Requests, CutOff(r)
      PROVE  Good
  BY <1>0, <1>4 DEF CutOff
<1>5. CASE WindowEnds
  BY <1>0, <1>5 DEF WindowEnds
<1>6. ASSUME NEW k \in Keys, ClaimExpires(k)
      PROVE  Good
  BY <1>0, <1>6 DEF ClaimExpires
<1>7. ASSUME NEW g \in Grants, Mint(g) \/ GrantExpires(g)
      PROVE  Good
  BY <1>0, <1>7 DEF Mint, GrantExpires
<1>8. QED BY <1>1, <1>2, <1>3, <1>4, <1>5, <1>6, <1>7 DEF Next, Guard

LEMMA WindowTyped ==
  ASSUME TypeOK, Next
  PROVE  /\ counter' \in Nat /\ windowed' \in BOOLEAN /\ orphaned' \in BOOLEAN
         /\ mishaps' \in Nat
BY CounterSteps DEF TypeOK

LEMMA RequestsTyped ==
  ASSUME TypeOK, InPlace, NEW r \in Requests, RequestStep(r)
  PROVE  /\ claim' \in [Keys -> Writes \cup {None}] /\ lapses' \in [Keys -> Nat]
         /\ grant' \in [Grants -> Modes \cup {"none", "gone"}]
         /\ request' \in [Requests -> Request]
         /\ made' \subseteq Requests
         /\ InPlace'
<1>1. r \in Writes \/ r \in Uploads
  BY DEF Requests
<1>2. r \in Writes => Uses(r) \in Keys
  BY EveryRequestUses
<1>3. request[r].pc \in {"claim", "release", "handle", "expire"} => r \in Writes
  BY <1>1 DEF InPlace, UploadPlaces
<1>4. request[r].pc \in {"store", "body", "find", "publish"} => r \in Uploads
  BY <1>1 DEF InPlace, WritePlaces
<1>5. CASE Works(r, "handle", "done") \/ Works(r, "store", "publish")
  BY <1>3, <1>4, <1>5, RequestsAreApart
  DEF Works, Moved, TypeOK, InPlace, WritePlaces, UploadPlaces, claims, Requests
<1>6. CASE Takes(r)
  BY <1>2, <1>3, <1>6, RequestsAreApart
  DEF Takes, Moved, TypeOK, InPlace, WritePlaces, UploadPlaces, claims, Lapse, Requests
<1>7. CASE Frees(r)
  BY <1>2, <1>3, <1>7, RequestsAreApart
  DEF Frees, Moved, TypeOK, InPlace, WritePlaces, UploadPlaces, claims, Requests
<1>8. CASE Redeems(r)
  BY <1>8, RequestsAreApart
  DEF Redeems, Moved, TypeOK, InPlace, WritePlaces, UploadPlaces, claims, Requests
<1>9. CASE Passes(r)
  <2>1. PICK after \in Places, o \in Outcomes :
          Onward(r, request[r].pc, after) /\ Moved(r, after, o) /\ Still
    BY <1>9 DEF Passes
  <2>2. r \in made => after = "done"
    BY <2>1 DEF InPlace, Onward
  <2>3. r \in Writes => after \in WritePlaces
    BY <2>1, <1>3, <1>4, RequestsAreApart DEF Onward, WritePlaces
  <2>4. r \in Uploads => after \in UploadPlaces
    BY <2>1, <1>3, <1>4, RequestsAreApart DEF Onward, UploadPlaces
  <2>5. QED BY <2>1, <2>2, <2>3, <2>4 DEF Moved, TypeOK, InPlace, Still, claims, Requests
<1>10. QED BY <1>5, <1>6, <1>7, <1>8, <1>9, Table

LEMMA Typed ==
  ASSUME TypeOK, InPlace, Next
  PROVE  TypeOK' /\ InPlace'
<1>1. CASE \E r \in Requests : RequestStep(r)
  BY <1>1, WindowTyped, RequestsTyped DEF TypeOK
<1>2. CASE \E k \in Keys : Elapse(k)
  BY <1>2, WindowTyped DEF TypeOK, InPlace, Elapse, Lapse
<1>3. CASE \E g \in Grants : MintOrExpire(g)
  BY <1>3, WindowTyped DEF TypeOK, InPlace, MintOrExpire, claims
<1>4. CASE WindowEnds
  BY <1>4, WindowTyped DEF TypeOK, InPlace, WindowEnds, claims
<1>5. QED BY <1>1, <1>2, <1>3, <1>4, Steps

(* A step keeps the account of keys, of grants and of claims.              *)
LEMMA KeysKept ==
  ASSUME TypeOK, InPlace, KeyInv, NEW r \in Requests, RequestStep(r)
  PROVE  KeyInv'
<1> SUFFICES ASSUME NEW k \in Keys
             PROVE  Cardinality(Holders(k)') + Free(k)' <= 1 + lapses'[k]
  BY DEF KeyInv
<1>1. Cardinality(Holders(k)) + Free(k) <= 1 + lapses[k] /\ lapses[k] \in Nat
  BY DEF KeyInv, TypeOK
<1>2. IsFiniteSet(Holders(k)) /\ Cardinality(Holders(k)) \in Nat
  <2>1. IsFiniteSet(Writes)
    BY RequestsAreApart, FS_Subset
  <2>2. Holders(k) \subseteq Writes
    BY DEF Holders
  <2>3. QED BY <2>1, <2>2, FS_Subset, FS_CardinalityType
<1>3. r \in Writes => Uses(r) \in Keys
  BY EveryRequestUses
<1>4. request[r].pc \in {"claim", "release", "handle"} => r \in Writes
  BY DEF InPlace, UploadPlaces, Requests
<1>5. request[r].pc \in {"store", "publish"} => r \notin Writes
  BY DEF InPlace, WritePlaces
<1>6. Free(k) \in {0, 1} /\ Free(k)' \in {0, 1}
  BY DEF Free
<1>7. CASE \/ Works(r, "handle", "done") \/ Works(r, "store", "publish") \/ Redeems(r)
           \/ (Takes(r) \/ Frees(r)) /\ Uses(r) # k
  <2>1. Holders(k)' = Holders(k)
    BY <1>4, <1>5, <1>7, RequestsAreApart
    DEF Works, Redeems, Takes, Frees, Moved, Holders, Holding, Requests
  <2>2. Free(k)' = Free(k) /\ lapses'[k] = lapses[k]
    BY <1>3, <1>4, <1>7 DEF Works, Redeems, Takes, Frees, claims, Free, TypeOK, Lapse
  <2>3. QED BY <1>1, <2>1, <2>2
<1>8. CASE Takes(r) /\ Uses(r) = k
  <2>1. Holders(k)' = Holders(k) \cup {r}
    BY <1>4, <1>8 DEF Takes, Moved, Holders, Holding, Requests
  <2>2. Cardinality(Holders(k)') \in Nat /\ Cardinality(Holders(k)') <= Cardinality(Holders(k)) + 1
    <3>1. /\ IsFiniteSet(Holders(k) \cup {r})
          /\ Cardinality(Holders(k) \cup {r}) \in {Cardinality(Holders(k)), Cardinality(Holders(k)) + 1}
      BY <1>2, FS_AddElement
    <3>2. QED BY <1>2, <2>1, <3>1
  <2>3. \/ Free(k) = 1 /\ Free(k)' = 0 /\ lapses'[k] = lapses[k]
        \/ Free(k)' = Free(k) /\ lapses'[k] = lapses[k] + 1
    <3>1. r \in Writes /\ r # None
      BY <1>4, <1>8, NobodyIsNone DEF Takes, TypeOK
    <3>2. CASE claim[k] = None /\ claim' = [claim EXCEPT ![k] = r] /\ lapses' = lapses
      BY <3>1, <3>2 DEF Free, TypeOK
    <3>3. CASE lapses' = [lapses EXCEPT ![k] = lapses[k] + 1] /\ claim' = claim
      BY <3>1, <3>3 DEF Free, TypeOK
    <3>4. QED BY <1>8, <3>2, <3>3 DEF Takes, Lapse
  <2>4. QED BY <1>1, <1>2, <1>6, <2>2, <2>3
<1>9. CASE Frees(r) /\ Uses(r) = k
  <2>1. r \in Holders(k)
    BY <1>4, <1>9 DEF Frees, Holders, Holding
  <2>2. Holders(k)' = Holders(k) \ {r}
    BY <1>4, <1>9 DEF Frees, Moved, Holders, Holding, Requests, InPlace
  <2>3. Cardinality(Holders(k)') = Cardinality(Holders(k)) - 1
    BY <1>2, <2>1, <2>2, FS_RemoveElement
  <2>4. lapses'[k] = lapses[k]
    BY <1>9 DEF Frees
  <2>5. QED BY <1>1, <1>2, <1>6, <2>3, <2>4
<1>10. CASE Passes(r)
  <2>1. Holders(k)' \subseteq Holders(k)
    BY <1>10 DEF Passes, Onward, Still, Moved, Holders, Holding, Requests
  <2>2. Cardinality(Holders(k)') \in Nat /\ Cardinality(Holders(k)') <= Cardinality(Holders(k))
    BY <1>2, <2>1, FS_Subset, FS_CardinalityType
  <2>3. Free(k)' = Free(k) /\ lapses'[k] = lapses[k]
    BY <1>10 DEF Passes, Still, claims, Free
  <2>4. QED BY <1>1, <1>2, <1>6, <2>2, <2>3
<1>11. QED BY <1>7, <1>8, <1>9, <1>10, Table

LEMMA GrantsKept ==
  ASSUME TypeOK, InPlace, GrantInv, NEW r \in Requests, RequestStep(r)
  PROVE  GrantInv'
<1> SUFFICES ASSUME NEW g \in Grants
             PROVE  /\ grant'[g] # "gone" => Spending(g)' = {}
                    /\ \A p, q \in Spending(g)' : p = q
  BY DEF GrantInv
<1>1. /\ grant[g] # "gone" => Spending(g) = {}
      /\ \A p, q \in Spending(g) : p = q
  BY DEF GrantInv
<1>2. request[r].pc \in {"claim", "release", "handle"} => r \notin Uploads
  BY DEF InPlace, UploadPlaces
<1>3. CASE \/ Works(r, "handle", "done") \/ Works(r, "store", "publish") \/ Takes(r)
           \/ Frees(r) \/ (Redeems(r) /\ Uses(r) # g)
  <2>1. Spending(g)' = Spending(g)
    BY <1>2, <1>3 DEF Works, Redeems, Takes, Frees, Moved, Spending, Requests
  <2>2. grant'[g] = grant[g]
    BY <1>3 DEF Works, Redeems, Takes, Frees, TypeOK
  <2>3. QED BY <1>1, <2>1, <2>2
<1>4. CASE Redeems(r) /\ Uses(r) = g
  <2>1. Spending(g) = {}
    BY <1>1, <1>4 DEF Redeems, Live, Modes
  <2>2. Spending(g)' \subseteq {r}
    BY <1>4, <2>1 DEF Redeems, Moved, Spending, Requests
  <2>3. grant'[g] = "gone"
    BY <1>4 DEF Redeems, TypeOK
  <2>4. QED BY <2>2, <2>3
<1>5. CASE Passes(r)
  <2>1. Spending(g)' \subseteq Spending(g)
    BY <1>5 DEF Passes, Onward, Still, Moved, Spending, Requests
  <2>2. QED BY <1>1, <1>5, <2>1 DEF Passes, Still
<1>6. QED BY <1>3, <1>4, <1>5, Table

LEMMA CounterKept ==
  ASSUME TypeOK, InPlace, CounterExpires, Next
  PROVE  CounterExpires'
<1> SUFFICES ASSUME counter' > 0, ~ windowed', ~ orphaned'
             PROVE  \E q \in Requests : request'[q].pc = "expire"
  BY DEF CounterExpires, At
<1>1. counter > 0 /\ ~ windowed => orphaned \/ \E q \in Requests : request[q].pc = "expire"
  BY DEF CounterExpires, At
<1>2. ASSUME NEW r \in Requests, RequestStep(r), request[r].pc # "expire",
             NEW q \in Requests, request[q].pc = "expire"
      PROVE  request'[q].pc = "expire"
  BY <1>2, Table DEF Works, Takes, Frees, Redeems, Passes, Moved
<1>3. ASSUME NEW r \in Requests, Count(r)
      PROVE  \E q \in Requests : request'[q].pc = "expire"
  <2>1. counter' = counter + 1 /\ windowed' = windowed /\ orphaned' = orphaned /\ counter \in Nat
    BY <1>3 DEF Count, window, TypeOK
  <2>2. CASE counter = 0
    <3>1. Goto(r, "expire")
      BY <1>3, <2>1, <2>2, NumbersOfGuards DEF Count
    <3>2. request'[r].pc = "expire"
      BY <3>1, Movement DEF Moved, Places, Outcomes, Modes
    <3>3. QED BY <3>2
  <2>3. CASE counter # 0
    <3>1. PICK q \in Requests : request[q].pc = "expire"
      BY <1>1, <2>1, <2>3
    <3>2. request[r].pc # "expire" /\ RequestStep(r)
      BY <1>3 DEF Count, At, RequestStep, Guard
    <3>3. QED BY <1>2, <3>1, <3>2
  <2>4. QED BY <2>2, <2>3
<1>4. ASSUME NEW r \in Requests, SetExpire(r)
      PROVE  FALSE
  BY <1>4 DEF SetExpire
<1>5. ASSUME NEW r \in Requests, NEW counts \in BOOLEAN, LimiterFails(r, counts)
      PROVE  \E q \in Requests : request'[q].pc = "expire"
  <2>1. request[r].pc # "expire" /\ ~ orphaned /\ ~ (counts /\ counter = 0) /\ windowed' = windowed
    BY <1>5 DEF LimiterFails, At
  <2>2. counter > 0
    BY <1>5, <2>1 DEF LimiterFails, TypeOK
  <2>3. RequestStep(r)
    BY <1>5 DEF RequestStep, Guard
  <2>4. QED BY <1>1, <1>2, <2>1, <2>2, <2>3
<1>6. ASSUME NEW r \in Requests, CutOff(r)
      PROVE  \E q \in Requests : request'[q].pc = "expire"
  <2>1. request[r].pc # "expire" /\ ~ orphaned /\ counter' = counter /\ windowed' = windowed
    BY <1>6 DEF CutOff, At
  <2>2. QED BY <1>1, <1>2, <1>6, <2>1 DEF RequestStep
<1>7. ASSUME NEW r \in Requests,
             Claim(r) \/ ClaimFailsOpen(r) \/ Release(r) \/ Handle(r) \/ Upload(r)
      PROVE  \E q \in Requests : request'[q].pc = "expire"
  <2>1. window' = window /\ request[r].pc # "expire"
    <3>1. CASE Claim(r) \/ ClaimFailsOpen(r) \/ Release(r)
      BY <3>1 DEF Claim, ClaimFailsOpen, Release, At
    <3>2. CASE Handle(r)
      BY <3>2 DEF Handle, Succeed, Refuse, HandlerRaises, At
    <3>3. CASE Redeem(r) \/ Publish(r) \/ MirrorRaises(r)
      BY <3>3 DEF Redeem, Publish, MirrorRaises, At
    <3>4. CASE \E fine \in BOOLEAN : CheckBody(r, fine) \/ FindFile(r, fine) \/ Store(r, fine)
      BY <3>4 DEF CheckBody, FindFile, Store, At
    <3>5. QED BY <1>7, <3>1, <3>2, <3>3, <3>4 DEF Upload
  <2>2. RequestStep(r)
    BY <1>7 DEF RequestStep, Guard
  <2>3. QED BY <1>1, <1>2, <2>1, <2>2 DEF window
<1>8. ASSUME NEW k \in Keys, ClaimExpires(k)
      PROVE  \E q \in Requests : request'[q].pc = "expire"
  BY <1>1, <1>8 DEF ClaimExpires, window
<1>9. ASSUME NEW g \in Grants, Mint(g) \/ GrantExpires(g)
      PROVE  \E q \in Requests : request'[q].pc = "expire"
  BY <1>1, <1>9 DEF Mint, GrantExpires, window
<1>10. CASE WindowEnds
  BY <1>10 DEF WindowEnds
<1>11. QED BY <1>3, <1>4, <1>5, <1>6, <1>7, <1>8, <1>9, <1>10 DEF Next, Guard

LEMMA ElapseKeeps ==
  ASSUME TypeOK, KeyInv, GrantInv, NEW e \in Keys, Elapse(e)
  PROVE  KeyInv' /\ GrantInv'
<1>1. GrantInv'
  BY DEF GrantInv, Spending, Elapse
<1>2. ASSUME NEW k \in Keys
      PROVE  Cardinality(Holders(k)') + Free(k)' <= 1 + lapses'[k]
  <2>1. Holders(k)' = Holders(k)
    BY DEF Holders, Holding, Elapse
  <2>2. Cardinality(Holders(k)) \in Nat
    <3>1. IsFiniteSet(Writes)
      BY RequestsAreApart, FS_Subset
    <3>2. Holders(k) \subseteq Writes
      BY DEF Holders
    <3>3. QED BY <3>1, <3>2, FS_Subset, FS_CardinalityType
  <2>3. Cardinality(Holders(k)) + Free(k) <= 1 + lapses[k] /\ lapses[k] \in Nat
    BY DEF KeyInv, TypeOK
  <2>4. CASE k = e
    BY <2>1, <2>2, <2>3, <2>4 DEF Elapse, Lapse, Free, TypeOK
  <2>5. CASE k # e
    <3>1. Free(k)' = Free(k) /\ lapses'[k] = lapses[k]
      BY <2>5 DEF Elapse, Lapse, Free, TypeOK
    <3>2. QED BY <2>1, <2>3, <3>1
  <2>6. QED BY <2>4, <2>5
<1>3. QED BY <1>1, <1>2 DEF KeyInv

LEMMA MintKeeps ==
  ASSUME TypeOK, KeyInv, GrantInv, NEW g \in Grants, MintOrExpire(g)
  PROVE  KeyInv' /\ GrantInv'
<1>1. KeyInv'
  BY DEF KeyInv, Holders, Holding, Free, MintOrExpire, claims
<1>2. \A h \in Grants : grant'[h] # "gone" => grant[h] # "gone"
  BY DEF MintOrExpire, TypeOK
<1>3. QED BY <1>1, <1>2 DEF GrantInv, Spending, MintOrExpire

(* Nobody has begun in the beginning.                                      *)
LEMMA Starts ==
  ASSUME Init
  PROVE  IInv
<1>1. TypeOK /\ InPlace
  BY DEF Init, TypeOK, InPlace, WritePlaces, UploadPlaces, Fresh, Request, Places, Outcomes, Requests
<1>2. CounterExpires
  BY DEF Init, CounterExpires
<1>3. ASSUME NEW k \in Keys
      PROVE  Cardinality(Holders(k)) + Free(k) <= 1 + lapses[k]
  <2>1. Holders(k) = {}
    BY DEF Init, Holders, Holding, Fresh, Requests
  <2>2. Cardinality(Holders(k)) = 0
    BY <2>1, FS_EmptySet
  <2>3. QED BY <2>2 DEF Init, Free
<1>4. GrantInv
  BY DEF Init, GrantInv, Spending, Fresh, Requests
<1>5. QED BY <1>1, <1>2, <1>3, <1>4 DEF IInv, KeyInv

LEMMA Continues ==
  ASSUME IInv, [Next]_vars
  PROVE  IInv'
<1>1. ASSUME Next
      PROVE  KeyInv' /\ GrantInv'
  <2>1. CASE \E r \in Requests : RequestStep(r)
    BY <2>1, KeysKept, GrantsKept DEF IInv
  <2>2. CASE \E k \in Keys : Elapse(k)
    BY <2>2, ElapseKeeps DEF IInv
  <2>3. CASE \E g \in Grants : MintOrExpire(g)
    BY <2>3, MintKeeps DEF IInv
  <2>4. CASE WindowEnds
    BY <2>4 DEF IInv, WindowEnds, claims, KeyInv, Holders, Holding, Free, GrantInv, Spending
  <2>5. QED BY <1>1, <2>1, <2>2, <2>3, <2>4, Steps
<1>2. CASE Next
  BY <1>1, <1>2, Typed, CounterKept DEF IInv
<1>3. CASE UNCHANGED vars
  BY <1>3 DEF IInv, vars, TypeOK, InPlace, CounterExpires, At, KeyInv, Holders, Holding, Free,
     GrantInv, Spending
<1>4. QED BY <1>2, <1>3

(* The three guards of a request keep what they claim together: the typed  *)
(* state, and the account of every key and every grant.                    *)
THEOREM GuardsHold == Spec => []IInv
BY Starts, Continues, PTL DEF Spec

(* allow: whatever fails or is cut off, a counter that stays is one whose  *)
(* first request never got to set its window.                              *)
THEOREM GuardCounters == Spec => []CounterExpires
<1>1. IInv => CounterExpires
  BY DEF IInv
<1>2. QED BY <1>1, GuardsHold, PTL

(* One more time than its claims came to nothing, and once for a token:    *)
(* for any number of requests at once, of keys and of tokens.              *)
THEOREM GuardWork == Spec => []ProcessedOnce
<1>1. ASSUME IInv
      PROVE  ProcessedOnce
  <2>0. IsFiniteSet(Writes) /\ IsFiniteSet(Uploads) /\ TypeOK
    BY <1>1, RequestsAreApart, FS_Subset DEF IInv
  <2>1. ASSUME NEW k \in Keys
        PROVE  Cardinality(Done(k)) <= 1 + lapses[k]
    <3>1. Done(k) \subseteq Holders(k) /\ Holders(k) \subseteq Writes
      BY <2>0, EveryRequestUses, KeysAreApart DEF Done, Holders, Holding, TypeOK, Requests
    <3>2. /\ Cardinality(Done(k)) <= Cardinality(Holders(k))
          /\ Cardinality(Done(k)) \in Nat /\ Cardinality(Holders(k)) \in Nat
      <4>1. IsFiniteSet(Holders(k))
        BY <2>0, <3>1, FS_Subset
      <4>2. QED BY <3>1, <4>1, FS_Subset, FS_CardinalityType
    <3>3. Cardinality(Holders(k)) + Free(k) <= 1 + lapses[k] /\ lapses[k] \in Nat
      BY <1>1, <2>0 DEF IInv, KeyInv, TypeOK
    <3>4. QED BY <3>2, <3>3 DEF Free
  <2>2. ASSUME NEW g \in Grants
        PROVE  Cardinality(Done(g) \cup Under(g)) <= IF grant[g] = "gone" THEN 1 ELSE 0
    <3>1. Done(g) \cup Under(g) = Spending(g)
      BY <2>0, EveryRequestUses, KeysAreApart DEF Done, Under, Spending, TypeOK, Requests
    <3>2. /\ grant[g] # "gone" => Spending(g) = {}
          /\ \A q, r \in Spending(g) : q = r
      BY <1>1 DEF IInv, GrantInv
    <3>3. CASE Spending(g) = {}
      BY <3>1, <3>3, FS_EmptySet
    <3>4. CASE Spending(g) # {}
      <4>1. PICK r \in Spending(g) : Spending(g) = {r}
        BY <3>2, <3>4
      <4>2. QED BY <3>1, <3>2, <4>1, FS_Singleton
    <3>5. QED BY <3>3, <3>4
  <2>3. QED BY <2>1, <2>2 DEF ProcessedOnce
<1>2. QED BY <1>1, GuardsHold, PTL

----------------------------------------------------------------------------
(* Members.  The types, and what is so at each place of a handler.         *)
MemberPlaces == {"idle", "done", "list", "org", "user", "membership", "look", "bind", "key",
           "cookie", "require", "join", "snapshot", "swap", "mirror", "unbind", "unkey"}
Operations == {"login", "create", "switch", "add", "grant", "revoke", "mint", "unkey",
               "redeem"}
Bound == [org : Orgs, who : Principals, role : Roles, by : Calls \cup {Nobody}]
Handlers ==
  [pc : MemberPlaces, op : Operations \cup {Nobody}, as : Emails \cup {Nobody},
   org : Orgs \cup {Nobody}, who : Principals \cup {Nobody}, role : Roles \cup {Nobody},
   seen : SUBSET Bound]

MembersTyped ==
  /\ orgs \in Seq(Orgs) /\ users \in SUBSET (Created \X Emails)
  /\ member \in [Orgs \X Emails -> Roles \cup {Nobody}]
  /\ bindings \in SUBSET Bound
  /\ keys \in SUBSET [org : Orgs, who : Principals, by : Calls]
  /\ uses \in Nat /\ cached \in SUBSET Orgs /\ sessions \in SUBSET (Emails \X Orgs)
  /\ call \in [Calls -> Handlers] /\ cuts \in Nat
  /\ own \in [Emails -> SUBSET Orgs]

(* The operations that may be at a place, and what they are about there.   *)
Passing(pc) ==
  CASE pc = "list" -> {"login", "switch"}
    [] pc \in {"org", "user", "membership"} -> {"login", "create"}
    [] pc \in {"look", "bind"} -> {"login", "create", "add", "mint", "redeem"}
    [] pc = "key" -> {"login", "create", "mint", "redeem"}
    [] pc = "cookie" -> {"login", "create", "switch"}
    [] pc = "require" -> {"add", "grant", "revoke", "mint", "unkey"}
    [] pc = "join" -> {"add"}
    [] pc \in {"snapshot", "swap", "mirror"} -> {"grant"}
    [] pc = "unbind" -> {"revoke"}
    [] pc = "unkey" -> {"unkey"}

Joined == {"membership", "look", "bind", "key"}

Placed(s) ==
  /\ s.op \in Passing(s.pc)
  /\ s.pc \in {"list", "org"} => s.as \in Emails /\ s.who = Nobody
  /\ s.pc \in {"user"} \cup Joined /\ s.op \in {"login", "create"} =>
       s.as \in Emails /\ s.org \in Created /\ s.who = s.as /\ s.role = "org_owner"
  /\ s.op \in {"add", "grant"} =>
       s.org \in Created /\ s.who \in Emails /\ s.role \in Roles
  /\ s.op = "revoke" => <<s.org, s.who>> \in crossed
  /\ s.op \in {"mint", "redeem"} => s.org \in Orgs /\ s.who = Agent /\ s.role = "agent"
  /\ s.op = "unkey" => s.who = Nobody
  /\ s.pc \in Joined /\ s.who # Agent => <<s.org, s.who>> \in users
  /\ s.pc = "cookie" => <<s.org, s.as>> \in users
  /\ \A b \in s.seen : b.org = s.org /\ b.who = s.who

(* Whoever has a cookie is a member, and a key is a member's or an agent's.*)
Admitted ==
  /\ \A s \in sessions : <<s[2], s[1]>> \in users
  /\ \A k \in keys : k.who = Agent \/ <<k.org, k.who>> \in users

(* A person signs in once at a time, and the organisation the sign-in has  *)
(* made is found by the next one, or the sign-in goes on.                  *)
SignsIn(c, e) == Busy(c) /\ call[c].op = "login" /\ call[c].as = e
OwnKept(e) ==
  e \notin doubled =>
    /\ \A c, d \in Calls : SignsIn(c, e) /\ SignsIn(d, e) => c = d
    /\ \A o, p \in own[e] : o = p
    /\ \A o \in own[e] : \/ <<o, e>> \in users
                         \/ \E c \in Calls : SignsIn(c, e) /\ call[c].pc = "user"
                                             /\ call[c].org = o
    /\ \A c \in Calls : SignsIn(c, e) /\ call[c].pc = "org" => own[e] = {}

(* Of two grants for a person the second leaves its mark.                  *)
Granting(c, pair) == Busy(c) /\ call[c].op = "grant" /\ Target(c) = pair
OneGrant(pair) ==
  pair \notin crossed => \A c, d \in Calls : Granting(c, pair) /\ Granting(d, pair) => c = d

(* A handler that is to bind the role it has written into the membership.  *)
Stands(c, pair, pc) == call[c].pc = pc /\ Target(c) = pair
WillBind(c, pair) ==
  /\ call[c].role = member[pair]
  /\ \/ Stands(c, pair, "look")
     \/ Stands(c, pair, "bind") /\ \A b \in call[c].seen : b.role # member[pair]

(* The role in the membership is bound, or a handler is about to bind it,  *)
(* or to write another into the membership that is.                        *)
RoleKept(pair) ==
  pair \notin crossed =>
    /\ \A c \in Calls : Stands(c, pair, "mirror") => call[c].role \in RolesOf(pair[1], pair[2])
    /\ pair \in users /\ member[pair] = Nobody => \E c \in Calls : Stands(c, pair, "membership")
    /\ member[pair] # Nobody =>
         \/ member[pair] \in RolesOf(pair[1], pair[2])
         \/ \E c \in Calls : Stands(c, pair, "mirror") \/ WillBind(c, pair)

(* Where the agents of an organisation are known, they have a role.        *)
AgentKept(o) ==
  <<o, Agent>> \notin crossed =>
    /\ o \in cached => RowsOf(o, Agent) # {}
    /\ \A k \in keys : k.org = o /\ k.who = Agent => RowsOf(o, Agent) # {}
    /\ \A c \in Calls : Stands(c, <<o, Agent>>, "key") => RowsOf(o, Agent) # {}
    /\ \A c \in Calls : Stands(c, <<o, Agent>>, "bind") => call[c].seen \subseteq bindings

MembersKept ==
  /\ \A c \in Calls : Busy(c) => Placed(call[c])
  /\ Admitted
  /\ \A e \in Emails : OwnKept(e)
  /\ \A pair \in Orgs \X Emails : OneGrant(pair) /\ RoleKept(pair)
  /\ \A o \in Orgs : AgentKept(o)
----------------------------------------------------------------------------
(* How a handler moves.                                                    *)
Moves(c) ==
  /\ call' \in [Calls -> Handlers]
  /\ \A d \in Calls : d # c => call'[d] = call[d]

Goes(c, pc) ==
  /\ Moves(c) /\ call'[c].pc = pc /\ call'[c].op = call[c].op /\ call'[c].as = call[c].as
  /\ call'[c].org = call[c].org /\ call'[c].who = call[c].who
  /\ call'[c].role = call[c].role

Ends(c) == Moves(c) /\ call'[c].pc = "done"

LEMMA HandlerIs ==
  ASSUME MembersTyped, NEW c \in Calls
  PROVE  /\ call[c] \in Handlers /\ call[c].pc \in MemberPlaces
         /\ call[c].op \in Operations \cup {Nobody} /\ call[c].as \in Emails \cup {Nobody}
         /\ call[c].org \in Orgs \cup {Nobody} /\ call[c].who \in Principals \cup {Nobody}
         /\ call[c].role \in Roles \cup {Nobody} /\ call[c].seen \in SUBSET Bound
BY DEF MembersTyped, Handlers

LEMMA NobodyElse ==
  Nobody \notin Orgs /\ Nobody \notin Emails /\ Nobody \notin Calls /\ Nobody \notin Roles
  /\ Agent \notin Emails /\ Nobody # Agent /\ Home \in Orgs /\ Founder \in Emails
  /\ Nobody \notin Principals
BY NobodyIsNothing, HomeIsAnOrg DEF Roles, Principals

LEMMA GoOnGoes ==
  ASSUME MembersTyped, NEW c \in Calls, NEW pc \in MemberPlaces, GoOn(c, pc)
  PROVE  Goes(c, pc) /\ call'[c].seen = call[c].seen
<1>1. PICK s \in Handlers : s = call[c]
  BY HandlerIs
<1>2. [s EXCEPT !.pc = pc] \in Handlers
  BY <1>1 DEF Handlers
<1>3. call' = [call EXCEPT ![c] = [s EXCEPT !.pc = pc]] /\ call \in [Calls -> Handlers]
  BY <1>1 DEF GoOn, MembersTyped
<1>4. Moves(c) /\ call'[c] = [s EXCEPT !.pc = pc]
  BY <1>2, <1>3 DEF Moves
<1>5. QED BY <1>1, <1>4 DEF Goes, Handlers

LEMMA SeenGoes ==
  ASSUME MembersTyped, NEW c \in Calls, NEW pc \in MemberPlaces, NEW S \in SUBSET Bound,
         call' = [call EXCEPT ![c].pc = pc, ![c].seen = S]
  PROVE  Goes(c, pc) /\ call'[c].seen = S
<1>1. PICK s \in Handlers : s = call[c]
  BY HandlerIs
<1>2. PICK t : t = [s EXCEPT !.pc = pc, !.seen = S]
  OBVIOUS
<1>3. /\ t \in Handlers /\ t.pc = pc /\ t.seen = S /\ t.op = s.op /\ t.as = s.as
      /\ t.org = s.org /\ t.who = s.who /\ t.role = s.role
  BY <1>1, <1>2 DEF Handlers
<1>4. call' = [call EXCEPT ![c] = t] /\ call \in [Calls -> Handlers]
  BY <1>1, <1>2 DEF MembersTyped
<1>5. Moves(c) /\ call'[c] = t
  BY <1>3, <1>4 DEF Moves
<1>6. QED BY <1>1, <1>3, <1>5 DEF Goes

LEMMA AskedIs ==
  ASSUME NEW pc \in MemberPlaces, NEW op \in Operations \cup {Nobody}, NEW as \in Emails \cup {Nobody},
         NEW org \in Orgs \cup {Nobody}, NEW who \in Principals \cup {Nobody},
         NEW role \in Roles \cup {Nobody}
  PROVE  Asked(pc, op, as, org, who, role) \in Handlers
BY DEF Asked, Handlers

LEMMA ReturnEnds ==
  ASSUME MembersTyped, NEW c \in Calls, Return(c)
  PROVE  Ends(c)
<1>1. PICK s : s = Resting("done")
  OBVIOUS
<1>2. s \in Handlers /\ s.pc = "done"
  BY <1>1, AskedIs DEF Resting, Asked, MemberPlaces
<1>3. call' = [call EXCEPT ![c] = s] /\ call \in [Calls -> Handlers]
  BY <1>1 DEF Return, MembersTyped
<1>4. QED BY <1>2, <1>3 DEF Ends, Moves

(* A handler that has ended, and one that is elsewhere.                    *)
LEMMA EndedIs ==
  ASSUME NEW c, Ends(c)
  PROVE  /\ ~ Busy(c)' /\ \A e : ~ SignsIn(c, e)'
         /\ \A pair : ~ Granting(c, pair)'
         /\ \A pair, pc : pc # "done" => ~ Stands(c, pair, pc)'
BY DEF Ends, Busy, SignsIn, Granting, Stands

----------------------------------------------------------------------------
(* What stays as it is.                                                    *)
Grown ==
  /\ Created \subseteq Created' /\ crossed \subseteq crossed' /\ users \subseteq users'

LEMMA PlacedStays ==
  ASSUME NEW s, Placed(s), Grown
  PROVE  Placed(s)'
BY DEF Placed, Grown

LEMMA AllPlaced ==
  ASSUME NEW c \in Calls, Moves(c), Grown, \A d \in Calls : Busy(d) => Placed(call[d]),
         Busy(c)' => Placed(call[c])'
  PROVE  (\A d \in Calls : Busy(d) => Placed(call[d]))'
<1>1. ASSUME NEW d \in Calls, Busy(d)', d # c
      PROVE  Placed(call[d])'
  <2>1. PICK s : s = call[d] /\ call'[d] = s
    BY <1>1 DEF Moves
  <2>2. Placed(s)
    BY <1>1, <2>1 DEF Busy
  <2>3. Placed(s)'
    BY <2>2, PlacedStays
  <2>4. QED BY <2>1, <2>3 DEF Placed
<1>2. QED BY <1>1

LEMMA OwnStays ==
  ASSUME NEW e, OwnKept(e), doubled \subseteq doubled', users \subseteq users',
         own'[e] = own[e],
         \A d \in Calls : SignsIn(d, e)' =>
           SignsIn(d, e) /\ (call'[d].pc = "org" => call[d].pc = "org" \/ own[e] = {}),
         \A d \in Calls : e \notin doubled' /\ SignsIn(d, e) /\ call[d].pc = "user" =>
           \/ SignsIn(d, e)' /\ call'[d].pc = "user" /\ call'[d].org = call[d].org
           \/ <<call[d].org, e>> \in users'
  PROVE  OwnKept(e)'
BY DEF OwnKept

LEMMA GrantStays ==
  ASSUME NEW pair, OneGrant(pair), crossed \subseteq crossed',
         \A d \in Calls : Granting(d, pair)' => Granting(d, pair)
  PROVE  OneGrant(pair)'
BY DEF OneGrant

(* A handler that has to do with the role of a member.                     *)
Bears(d, pair) == Target(d) = pair /\ call[d].pc \in {"membership", "look", "bind", "mirror"}

LEMMA RoleStays ==
  ASSUME NEW pair, RoleKept(pair), crossed \subseteq crossed',
         pair \in users' => pair \in users,
         member'[pair] = member[pair],
         RolesOf(pair[1], pair[2])' = RolesOf(pair[1], pair[2]),
         \A d \in Calls : pair \notin crossed' =>
           \/ call'[d] = call[d]
           \/ ~ Bears(d, pair) /\ ~ Stands(d, pair, "mirror")'
  PROVE  RoleKept(pair)'
<1>1. SUFFICES ASSUME pair \notin crossed'
               PROVE  RoleKept(pair)'
  BY DEF RoleKept
<1>2. /\ \A c \in Calls : Stands(c, pair, "mirror") => call[c].role \in RolesOf(pair[1], pair[2])
      /\ pair \in users /\ member[pair] = Nobody => \E c \in Calls : Stands(c, pair, "membership")
      /\ member[pair] # Nobody =>
           \/ member[pair] \in RolesOf(pair[1], pair[2])
           \/ \E c \in Calls : Stands(c, pair, "mirror") \/ WillBind(c, pair)
  BY <1>1 DEF RoleKept
<1>3. \A c \in Calls : Bears(c, pair) => call'[c] = call[c]
  BY <1>1
<1>4. \A c \in Calls : Stands(c, pair, "mirror")' => Stands(c, pair, "mirror") /\ call'[c] = call[c]
  BY <1>1 DEF Stands, Target
<1>5. \A c \in Calls : Stands(c, pair, "membership") => Stands(c, pair, "membership")'
  BY <1>3 DEF Stands, Bears, Target
<1>6. \A c \in Calls : Stands(c, pair, "mirror") => Stands(c, pair, "mirror")'
  BY <1>3 DEF Stands, Bears, Target
<1>7. \A c \in Calls : WillBind(c, pair) => WillBind(c, pair)'
  BY <1>3 DEF WillBind, Stands, Bears, Target
<1>8. \A c \in Calls : Stands(c, pair, "mirror")' => call'[c].role \in RolesOf(pair[1], pair[2])'
  BY <1>2, <1>4
<1>9. QED BY <1>2, <1>5, <1>6, <1>7, <1>8 DEF RoleKept

LEMMA AgentStays ==
  ASSUME NEW o, AgentKept(o), crossed \subseteq crossed',
         RowsOf(o, Agent) \subseteq bindings',
         o \in cached' => o \in cached \/ RowsOf(o, Agent)' # {},
         \A k \in keys' : k \in keys \/ RowsOf(o, Agent)' # {}
                          \/ ~ (k.org = o /\ k.who = Agent),
         \A d \in Calls : Stands(d, <<o, Agent>>, "key")' =>
           Stands(d, <<o, Agent>>, "key") \/ RowsOf(o, Agent)' # {},
         \A d \in Calls : Stands(d, <<o, Agent>>, "bind")' =>
           \/ call'[d].seen \subseteq bindings'
           \/ /\ Stands(d, <<o, Agent>>, "bind") /\ call'[d].seen = call[d].seen
              /\ call[d].seen \subseteq bindings => call[d].seen \subseteq RowsOf(o, Agent)
  PROVE  AgentKept(o)'
<1>1. SUFFICES ASSUME <<o, Agent>> \notin crossed'
               PROVE  AgentKept(o)'
  BY DEF AgentKept
<1>2. /\ o \in cached => RowsOf(o, Agent) # {}
      /\ \A k \in keys : k.org = o /\ k.who = Agent => RowsOf(o, Agent) # {}
      /\ \A c \in Calls : Stands(c, <<o, Agent>>, "key") => RowsOf(o, Agent) # {}
      /\ \A c \in Calls : Stands(c, <<o, Agent>>, "bind") => call[c].seen \subseteq bindings
  BY <1>1 DEF AgentKept
<1>3. RowsOf(o, Agent) # {} => RowsOf(o, Agent)' # {}
  BY DEF RowsOf
<1>4. \A c \in Calls : Stands(c, <<o, Agent>>, "bind")' => call'[c].seen \subseteq bindings'
  BY <1>2
<1>5. QED BY <1>2, <1>3, <1>4 DEF AgentKept

----------------------------------------------------------------------------
(* What each step does.                                                    *)
LEMMA CreatedIs ==
  ASSUME MembersTyped
  PROVE  /\ Created \subseteq Orgs
         /\ orgs' = orgs => Created' = Created
         /\ \A e : OrgsOf(e) = {} => \A o : <<o, e>> \notin users
<1>1. Created \subseteq Orgs
  BY DEF MembersTyped, Created
<1>2. orgs' = orgs => Created' = Created
  BY DEF Created
<1>3. ASSUME NEW e, OrgsOf(e) = {}, NEW o, <<o, e>> \in users
      PROVE  FALSE
  <2>1. PICK i \in DOMAIN orgs : orgs[i] = o
    BY <1>3 DEF MembersTyped, Created
  <2>2. i \in OrgsOf(e)
    BY <1>3, <2>1 DEF OrgsOf
  <2>3. QED BY <1>3, <2>2
<1>4. QED BY <1>1, <1>2, <1>3

LEMMA ListIs ==
  ASSUME MembersTyped, NEW c \in Calls, List(c), Placed(call[c])
  PROVE  /\ call[c].pc = "list"
         /\ UNCHANGED <<orgs, users, member, bindings, keys, uses, cached, sessions, cuts, own,
                        crossed, doubled>>
         /\ \/ Ends(c)
            \/ /\ call[c].op = "login" /\ Goes(c, "org") /\ OrgsOf(call[c].as) = {}
               /\ call'[c].seen = call[c].seen
            \/ /\ Moves(c) /\ call'[c].pc = "cookie" /\ call'[c].op = call[c].op
               /\ call'[c].as = call[c].as /\ call'[c].who = call[c].who
               /\ <<call'[c].org, call'[c].as>> \in users
               /\ call'[c].seen = {}
<1>1. /\ call[c].pc = "list"
      /\ UNCHANGED <<orgs, users, member, bindings, keys, uses, cached, sessions, cuts, own,
                     crossed, doubled>>
  BY DEF List, rows, history
<1>2. CASE call[c].op = "login" /\ OrgsOf(call[c].as) = {} /\ GoOn(c, "org")
  BY <1>1, <1>2, GoOnGoes DEF MemberPlaces
<1>3. CASE \E first \in OrgsOf(call[c].as) :
             call' = [call EXCEPT ![c].pc = "cookie", ![c].org = orgs[first]]
  <2>1. PICK first \in OrgsOf(call[c].as) :
               call' = [call EXCEPT ![c].pc = "cookie", ![c].org = orgs[first]]
    BY <1>3
  <2>2. PICK s \in Handlers : s = call[c]
    BY HandlerIs
  <2>3. PICK o : o = orgs[first]
    OBVIOUS
  <2>4. o \in Orgs /\ <<o, s.as>> \in users
    BY <2>1, <2>2, <2>3 DEF OrgsOf, MembersTyped
  <2>5. PICK t : t = [s EXCEPT !.pc = "cookie", !.org = o]
    OBVIOUS
  <2>6. t \in Handlers /\ t.pc = "cookie" /\ t.op = s.op /\ t.as = s.as /\ t.who = s.who
        /\ t.org = o /\ t.seen = s.seen
    BY <2>2, <2>4, <2>5 DEF Handlers, MemberPlaces
  <2>7. call' = [call EXCEPT ![c] = t] /\ call \in [Calls -> Handlers]
    BY <2>1, <2>2, <2>3, <2>5 DEF MembersTyped
  <2>8. Moves(c) /\ call'[c] = t
    BY <2>6, <2>7 DEF Moves
  <2>9. s.seen = {}
    <3>1. \A b \in s.seen : b.who = Nobody
      BY <1>1, <2>2 DEF Placed
    <3>2. s.seen \subseteq Bound
      BY <2>2 DEF Handlers
    <3>3. QED BY <3>1, <3>2, NobodyElse DEF Bound
  <2>10. QED BY <1>1, <2>2, <2>4, <2>6, <2>8, <2>9
<1>4. CASE call[c].op # "login" /\ (\E i \in OrgsOf(call[c].as) : orgs[i] = call[c].org)
           /\ GoOn(c, "cookie")
  <2>1. Goes(c, "cookie") /\ call'[c].seen = call[c].seen
    BY <1>4, GoOnGoes DEF MemberPlaces
  <2>2. <<call[c].org, call[c].as>> \in users
    BY <1>4 DEF OrgsOf
  <2>3. call[c].seen = {}
    <3>1. \A b \in call[c].seen : b.who = Nobody
      BY <1>1 DEF Placed
    <3>2. QED BY <3>1, HandlerIs, NobodyElse DEF Bound
  <2>4. QED BY <1>1, <2>1, <2>2, <2>3 DEF Goes
<1>5. CASE Return(c)
  BY <1>1, <1>5, ReturnEnds
<1>6. QED BY <1>2, <1>3, <1>4, <1>5 DEF List

LEMMA NewOrgIs ==
  ASSUME MembersTyped, NEW c \in Calls, NewOrg(c), Placed(call[c])
  PROVE  /\ call[c].pc = "org"
         /\ UNCHANGED <<users, member, bindings, keys, uses, cached, sessions, cuts,
                        crossed, doubled>>
         /\ Moves(c) /\ call'[c].pc = "user" /\ call'[c].op = call[c].op
         /\ call'[c].as = call[c].as /\ call'[c].who = call[c].as
         /\ call'[c].role = "org_owner" /\ call'[c].seen = {}
         /\ orgs' \in Seq(Orgs) /\ call'[c].org \in Created' /\ Created \subseteq Created'
         /\ own' = IF call[c].op = "login"
                   THEN [own EXCEPT ![call[c].as] = @ \cup {call'[c].org}] ELSE own
<1>1. PICK s \in Handlers : s = call[c]
  BY HandlerIs
<1>2. PICK o \in Orgs :
        /\ orgs' = Append(orgs, o)
        /\ call' = [call EXCEPT ![c].pc = "user", ![c].org = o, ![c].who = call[c].as,
                                ![c].role = "org_owner"]
        /\ own' = IF call[c].op = "login" THEN [own EXCEPT ![call[c].as] = @ \cup {o}] ELSE own
  BY DEF NewOrg
<1>3. PICK t : t = [s EXCEPT !.pc = "user", !.org = o, !.who = s.as, !.role = "org_owner"]
  OBVIOUS
<1>4. call[c].pc = "org" /\ s.as \in Emails
  BY <1>1 DEF NewOrg, Placed
<1>5. t \in Handlers /\ t.pc = "user" /\ t.op = s.op /\ t.as = s.as /\ t.who = s.as
      /\ t.org = o /\ t.role = "org_owner" /\ t.seen = s.seen
  BY <1>1, <1>2, <1>3, <1>4 DEF Handlers, MemberPlaces, Principals, Roles
<1>6. call' = [call EXCEPT ![c] = t] /\ call \in [Calls -> Handlers]
  BY <1>1, <1>2, <1>3 DEF MembersTyped
<1>7. Moves(c) /\ call'[c] = t
  BY <1>5, <1>6 DEF Moves
<1>8. s.seen = {}
  <2>1. \A b \in s.seen : b.who = Nobody
    BY <1>1, <1>4 DEF Placed
  <2>2. s.seen \subseteq Bound
    BY <1>1 DEF Handlers
  <2>3. QED BY <2>1, <2>2, NobodyElse DEF Bound
<1>9. orgs' \in Seq(Orgs) /\ o \in Created' /\ Created \subseteq Created'
  <2>1. PICK L : L = orgs /\ L \in Seq(Orgs)
    BY DEF MembersTyped
  <2>2. PICK M : M = Append(L, o)
    OBVIOUS
  <2>3. /\ M \in Seq(Orgs) /\ M[Len(L) + 1] = o /\ Len(L) + 1 \in DOMAIN M
        /\ \A i \in DOMAIN L : i \in DOMAIN M /\ M[i] = L[i]
    BY <2>1, <2>2
  <2>4. orgs' = M
    BY <1>2, <2>1, <2>2
  <2>5. QED BY <2>1, <2>3, <2>4 DEF Created
<1>10. UNCHANGED <<users, member, bindings, keys, uses, cached, sessions, cuts, crossed, doubled>>
  BY DEF NewOrg
<1>11. QED BY <1>1, <1>2, <1>4, <1>5, <1>7, <1>8, <1>9, <1>10

(* The steps that go from one place to the next, with what they write.     *)
LEMMA NewUserIs ==
  ASSUME MembersTyped, NEW c \in Calls, NewUser(c)
  PROVE  /\ call[c].pc = "user" /\ Goes(c, "membership") /\ call'[c].seen = call[c].seen
         /\ users' = users \cup {Target(c)}
         /\ UNCHANGED <<orgs, member, bindings, keys, uses, cached, sessions, cuts, own,
                        crossed, doubled>>
BY GoOnGoes DEF NewUser, MemberPlaces, history

LEMMA NewMembershipIs ==
  ASSUME MembersTyped, NEW c \in Calls, NewMembership(c)
  PROVE  /\ call[c].pc = "membership" /\ Goes(c, "look") /\ call'[c].seen = call[c].seen
         /\ member' = [member EXCEPT ![Target(c)] = call[c].role]
         /\ UNCHANGED <<orgs, users, bindings, keys, uses, cached, sessions, cuts, own,
                        crossed, doubled>>
BY GoOnGoes DEF NewMembership, MemberPlaces, history

LEMMA JoinIs ==
  ASSUME MembersTyped, NEW c \in Calls, Join(c)
  PROVE  /\ call[c].pc = "join" /\ Goes(c, "look") /\ call'[c].seen = call[c].seen
         /\ users' = users \cup {Target(c)}
         /\ member' = [member EXCEPT ![Target(c)] = call[c].role]
         /\ UNCHANGED <<orgs, bindings, keys, uses, cached, sessions, cuts, own, crossed,
                        doubled>>
BY GoOnGoes DEF Join, MemberPlaces, history

LEMMA LookIs ==
  ASSUME MembersTyped, NEW c \in Calls, Look(c) \/ Snapshot(c)
  PROVE  /\ Look(c) => call[c].pc = "look" /\ Goes(c, "bind")
         /\ Snapshot(c) => call[c].pc = "snapshot" /\ Goes(c, "swap")
         /\ call'[c].seen = RowsOf(call[c].org, call[c].who)
         /\ UNCHANGED <<orgs, users, member, bindings, keys, uses, cached, sessions,
                        cuts, own, crossed, doubled>>
<1>1. PICK S : S = RowsOf(call[c].org, call[c].who)
  OBVIOUS
<1>2. S \in SUBSET Bound
  BY <1>1 DEF RowsOf, MembersTyped
<1>3. CASE Look(c)
  <2>1. Goes(c, "bind") /\ call'[c].seen = S
    BY <1>1, <1>2, <1>3, SeenGoes DEF Look, MemberPlaces
  <2>2. call[c].pc = "look"
    BY <1>3 DEF Look
  <2>3. QED BY <1>1, <1>3, <2>1, <2>2 DEF Look, Snapshot, rows, history
<1>4. CASE Snapshot(c)
  <2>1. Goes(c, "swap") /\ call'[c].seen = S
    <3>1. call' = [call EXCEPT ![c].pc = "swap", ![c].seen = S]
      BY <1>1, <1>4 DEF Snapshot
    <3>2. "swap" \in MemberPlaces
      BY DEF MemberPlaces
    <3>3. QED BY <1>2, <3>1, <3>2, SeenGoes
  <2>2. call[c].pc = "snapshot"
    BY <1>4 DEF Snapshot
  <2>3. QED BY <1>1, <1>4, <2>1, <2>2 DEF Look, Snapshot, rows, history
<1>5. QED BY <1>3, <1>4

LEMMA BindIs ==
  ASSUME MembersTyped, NEW c \in Calls, Bind(c)
  PROVE  /\ call[c].pc = "bind"
         /\ \/ call[c].op = "add" /\ Ends(c)
            \/ call[c].op # "add" /\ Goes(c, "key") /\ call'[c].seen = {}
         /\ bindings' = IF \E b \in call[c].seen : b.role = call[c].role
                        THEN bindings ELSE bindings \cup {Row(c)}
         /\ cached' = IF call[c].op = "redeem" THEN cached \cup {call[c].org} ELSE cached
         /\ UNCHANGED <<orgs, users, member, keys, uses, sessions, cuts, own, crossed, doubled>>
<1>1. CASE call[c].op = "add"
  BY <1>1, ReturnEnds DEF Bind, history
<1>2. CASE call[c].op # "add"
  <2>1. call' = [call EXCEPT ![c].pc = "key", ![c].seen = {}]
    BY <1>2 DEF Bind
  <2>2. Goes(c, "key") /\ call'[c].seen = {}
    BY <2>1, SeenGoes DEF MemberPlaces
  <2>3. QED BY <1>2, <2>2 DEF Bind, history
<1>3. QED BY <1>1, <1>2

LEMMA SwapIs ==
  ASSUME MembersTyped, NEW c \in Calls, Swap(c)
  PROVE  /\ call[c].pc = "swap" /\ Goes(c, "mirror") /\ call'[c].seen = {}
         /\ bindings' = (bindings \ call[c].seen) \cup {Row(c)}
         /\ UNCHANGED <<orgs, users, member, keys, uses, cached, sessions, cuts, own, crossed,
                        doubled>>
<1>1. Goes(c, "mirror") /\ call'[c].seen = {}
  BY SeenGoes DEF Swap, MemberPlaces
<1>2. QED BY <1>1 DEF Swap, history

LEMMA RequireIs ==
  ASSUME MembersTyped, NEW c \in Calls, Require(c), Placed(call[c])
  PROVE  /\ call[c].pc = "require"
         /\ \/ Ends(c)
            \/ /\ Goes(c, AfterCheck(call[c].op)) /\ call'[c].seen = call[c].seen
               /\ AfterCheck(call[c].op) \in {"join", "snapshot", "unbind", "look", "unkey"}
               /\ AfterCheck(call[c].op) = "look" <=> call[c].op = "mint"
               /\ call[c].op \in Passing(AfterCheck(call[c].op))
         /\ UNCHANGED <<orgs, users, member, bindings, keys, uses, cached, sessions, cuts, own,
                        crossed, doubled>>
<1>1. call[c].pc = "require"
  BY DEF Require
<1>2. call[c].op \in {"add", "grant", "revoke", "mint", "unkey"}
  BY <1>1 DEF Placed, Passing
<1>3. PICK pc : pc = AfterCheck(call[c].op)
  OBVIOUS
<1>4. /\ pc \in {"join", "snapshot", "unbind", "look", "unkey"}
      /\ pc = "look" <=> call[c].op = "mint"
      /\ call[c].op \in Passing(pc)
  BY <1>2, <1>3 DEF AfterCheck, Passing
<1>5. GoOn(c, pc) \/ Return(c)
  BY <1>3 DEF Require
<1>6. GoOn(c, pc) => Goes(c, pc) /\ call'[c].seen = call[c].seen
  BY <1>4, GoOnGoes DEF MemberPlaces
<1>7. Ends(c) \/ (Goes(c, pc) /\ call'[c].seen = call[c].seen)
  <2>1. CASE Return(c)
    BY <2>1, ReturnEnds
  <2>2. QED BY <1>5, <1>6, <2>1
<1>8. QED BY <1>1, <1>3, <1>4, <1>7 DEF Require, rows, history

LEMMA CookieIs ==
  ASSUME MembersTyped, NEW c \in Calls, Cookie(c)
  PROVE  /\ call[c].pc = "cookie" /\ Ends(c)
         /\ sessions' = sessions \cup {<<call[c].as, call[c].org>>}
         /\ UNCHANGED <<orgs, users, member, bindings, keys, uses, cached, cuts, own,
                        crossed, doubled>>
BY ReturnEnds DEF Cookie, rows, history

LEMMA MirrorIs ==
  ASSUME MembersTyped, NEW c \in Calls, Mirror(c)
  PROVE  /\ call[c].pc = "mirror" /\ Ends(c)
         /\ member' = [member EXCEPT ![Target(c)] =
                         IF @ = Nobody THEN Nobody ELSE call[c].role]
         /\ UNCHANGED <<orgs, users, bindings, keys, uses, cached, sessions, cuts, own,
                        crossed, doubled>>
BY ReturnEnds DEF Mirror, history

LEMMA UnbindIs ==
  ASSUME MembersTyped, NEW c \in Calls, Unbind(c)
  PROVE  /\ call[c].pc = "unbind" /\ Ends(c)
         /\ bindings' = {b \in bindings : ~(b.org = call[c].org /\ b.who = call[c].who
                                            /\ b.role = call[c].role)}
         /\ UNCHANGED <<orgs, users, member, keys, uses, cached, sessions, cuts, own,
                        crossed, doubled>>
BY ReturnEnds DEF Unbind, history

LEMMA UnkeyIs ==
  ASSUME MembersTyped, NEW c \in Calls, Unkey(c)
  PROVE  /\ call[c].pc = "unkey" /\ Ends(c) /\ keys' \subseteq keys
         /\ UNCHANGED <<orgs, users, member, bindings, uses, cached, sessions, cuts, own,
                        crossed, doubled>>
BY ReturnEnds DEF Unkey, history

LEMMA NewKeyIs ==
  ASSUME MembersTyped, NEW c \in Calls, NewKey(c)
  PROVE  /\ call[c].pc = "key"
         /\ Ends(c) \/ (/\ call[c].op \in {"login", "create"} /\ Goes(c, "cookie")
                        /\ call'[c].seen = call[c].seen)
         /\ keys' = keys \cup {[org |-> call[c].org, who |-> call[c].who, by |-> c]}
         /\ UNCHANGED <<orgs, users, member, bindings, uses, cached, sessions, cuts, own,
                        crossed, doubled>>
BY GoOnGoes, ReturnEnds DEF NewKey, MemberPlaces, history

----------------------------------------------------------------------------
(* A request that begins.                                                  *)
Arrival(s) ==
  /\ s.seen = {}
  /\ \/ s.pc = "list" /\ s.op \in {"login", "switch"} /\ s.as \in Emails /\ s.who = Nobody
     \/ s.pc = "org" /\ s.op = "create" /\ s.as \in Emails /\ s.who = Nobody
     \/ /\ s.pc = "require" /\ s.op \in {"add", "grant"}
        /\ s.org \in Created /\ s.who \in Emails /\ s.role \in Roles
     \/ s.pc = "require" /\ s.op = "revoke"
     \/ /\ s.pc = "require" /\ s.op = "mint"
        /\ s.org \in Orgs /\ s.who = Agent /\ s.role = "agent"
     \/ s.pc = "require" /\ s.op = "unkey" /\ s.who = Nobody
     \/ /\ s.pc \in {"look", "key"} /\ s.op = "redeem"
        /\ s.org = Home /\ s.who = Agent /\ s.role = "agent"
        /\ s.pc = "key" => Home \in cached

LEMMA Arrives ==
  ASSUME MembersTyped, Admitted, NEW c \in Calls, Arrive(c)
  PROVE  \E s \in Handlers : Begin(c, s) /\ Arrival(s) /\ uses' \in Nat
<1> DEFINE Goal(s) == s \in Handlers /\ Begin(c, s) /\ Arrival(s) /\ uses' \in Nat
<1>1. uses \in Nat /\ sessions \in SUBSET (Emails \X Orgs)
  BY DEF MembersTyped
<1>2. ASSUME NEW pc \in MemberPlaces, NEW op \in Operations, NEW as \in Emails \cup {Nobody},
             NEW org \in Orgs \cup {Nobody}, NEW who \in Principals \cup {Nobody},
             NEW role \in Roles \cup {Nobody},
             Begin(c, Asked(pc, op, as, org, who, role)), uses' \in Nat,
             \/ pc = "list" /\ op \in {"login", "switch"} /\ as \in Emails /\ who = Nobody
             \/ pc = "org" /\ op = "create" /\ as \in Emails /\ who = Nobody
             \/ /\ pc = "require" /\ op \in {"add", "grant"}
                /\ org \in Created /\ who \in Emails /\ role \in Roles
             \/ pc = "require" /\ op = "revoke"
             \/ /\ pc = "require" /\ op = "mint"
                /\ org \in Orgs /\ who = Agent /\ role = "agent"
             \/ pc = "require" /\ op = "unkey" /\ who = Nobody
             \/ /\ pc \in {"look", "key"} /\ op = "redeem"
                /\ org = Home /\ who = Agent /\ role = "agent"
                /\ pc = "key" => Home \in cached
      PROVE  \E s : Goal(s)
  <2>1. PICK s : s = Asked(pc, op, as, org, who, role)
    OBVIOUS
  <2>2. /\ s.pc = pc /\ s.op = op /\ s.as = as /\ s.org = org /\ s.who = who /\ s.role = role
        /\ s.seen = {}
    BY <2>1 DEF Asked
  <2>3. s \in Handlers
    BY <2>1, AskedIs
  <2>4. Arrival(s)
    BY <1>2, <2>2 DEF Arrival
  <2>5. QED BY <1>2, <2>1, <2>3, <2>4
<1>3. CASE \E e \in Emails : Login(c, e)
  <2>1. PICK e \in Emails :
          Begin(c, Asked("list", "login", e, Nobody, Nobody, Nobody)) /\ uses' = uses
    BY <1>3 DEF Login
  <2>2. QED BY <1>1, <1>2, <2>1 DEF MemberPlaces, Operations
<1>4. CASE \E s \in sessions : CreateOrg(c, s)
  <2>1. PICK s \in sessions :
          Begin(c, Asked("org", "create", s[1], Nobody, Nobody, Nobody)) /\ uses' = uses
    BY <1>4 DEF CreateOrg
  <2>2. s[1] \in Emails
    BY <1>1
  <2>3. QED BY <1>1, <1>2, <2>1, <2>2 DEF MemberPlaces, Operations
<1>5. CASE \E s \in sessions, o \in Orgs : Switch(c, s, o)
  <2>1. PICK s \in sessions, o \in Orgs :
          Begin(c, Asked("list", "switch", s[1], o, Nobody, Nobody)) /\ uses' = uses
    BY <1>5 DEF Switch
  <2>2. s[1] \in Emails
    BY <1>1
  <2>3. QED BY <1>1, <1>2, <2>1, <2>2 DEF MemberPlaces, Operations
<1>6. CASE \E s \in sessions, e \in Emails, r \in Given : AddPerson(c, s, e, r) \/ GrantRole(c, s, e, r)
  <2>1. PICK s \in sessions, e \in Emails, r \in Given, op \in {"add", "grant"} :
          Begin(c, Asked("require", op, s[1], s[2], e, r)) /\ uses' = uses
    BY <1>6 DEF AddPerson, GrantRole
  <2>2. s[1] \in Emails /\ s[2] \in Orgs /\ s[2] \in Created
    BY <1>1 DEF Admitted, MembersTyped
  <2>3. e \in Principals /\ r \in Roles
    BY DEF Principals, Roles
  <2>4. QED BY <1>1, <1>2, <2>1, <2>2, <2>3 DEF MemberPlaces, Operations
<1>7. CASE \E s \in sessions, w \in Principals, r \in Roles : RevokeRole(c, s, w, r)
  <2>1. PICK s \in sessions, w \in Principals, r \in Roles :
          Begin(c, Asked("require", "revoke", s[1], s[2], w, r)) /\ uses' = uses
    BY <1>7 DEF RevokeRole
  <2>2. s[1] \in Emails /\ s[2] \in Orgs
    BY <1>1
  <2>3. QED BY <1>1, <1>2, <2>1, <2>2 DEF MemberPlaces, Operations
<1>8. CASE \E s \in sessions : MintKey(c, s)
  <2>1. PICK s \in sessions :
          Begin(c, Asked("require", "mint", s[1], s[2], Agent, "agent")) /\ uses' = uses
    BY <1>8 DEF MintKey
  <2>2. s[1] \in Emails /\ s[2] \in Orgs /\ Agent \in Principals /\ "agent" \in Roles
    BY <1>1 DEF Principals, Roles
  <2>3. QED BY <1>1, <1>2, <2>1, <2>2 DEF MemberPlaces, Operations
<1>9. CASE \E s \in sessions : RevokeKey(c, s)
  <2>1. PICK s \in sessions :
          Begin(c, Asked("require", "unkey", s[1], s[2], Nobody, Nobody)) /\ uses' = uses
    BY <1>9 DEF RevokeKey
  <2>2. s[1] \in Emails /\ s[2] \in Orgs
    BY <1>1
  <2>3. QED BY <1>1, <1>2, <2>1, <2>2 DEF MemberPlaces, Operations
<1>10. CASE RedeemInvite(c)
  <2>1. PICK pc \in {"look", "key"} :
          /\ Begin(c, Asked(pc, "redeem", Nobody, Home, Agent, "agent"))
          /\ pc = "key" => Home \in cached
    BY <1>10 DEF RedeemInvite
  <2>2. uses' \in Nat
    BY <1>1, <1>10 DEF RedeemInvite
  <2>3. Home \in Orgs /\ Agent \in Principals /\ "agent" \in Roles
    BY NobodyElse DEF Principals, Roles
  <2>4. QED BY <1>2, <2>1, <2>2, <2>3 DEF MemberPlaces, Operations
<1>11. QED BY <1>3, <1>4, <1>5, <1>6, <1>7, <1>8, <1>9, <1>10 DEF Arrive

LEMMA BeginIs ==
  ASSUME MembersTyped, NEW c \in Calls, NEW s \in Handlers, Begin(c, s)
  PROVE  /\ call[c].pc = "idle" /\ Moves(c) /\ call'[c] = s
         /\ UNCHANGED <<orgs, users, member, bindings, keys, cached, sessions, cuts, own>>
         /\ crossed \subseteq crossed' /\ doubled \subseteq doubled'
         /\ s.op = "revoke" => <<s.org, s.who>> \in crossed'
         /\ s.op = "grant" => \/ <<s.org, s.who>> \in crossed'
                              \/ \A d \in Calls : ~ Granting(d, <<s.org, s.who>>)
         /\ s.op = "login" => s.as \in doubled' \/ \A d \in Calls : ~ SignsIn(d, s.as)
<1>1. call' = [call EXCEPT ![c] = s] /\ call \in [Calls -> Handlers] /\ call[c].pc = "idle"
  BY DEF Begin, MembersTyped
<1>2. Moves(c) /\ call'[c] = s
  BY <1>1 DEF Moves
<1>3. UNCHANGED <<orgs, users, member, bindings, keys, cached, sessions, cuts, own>>
  BY DEF Begin, rows
<1>4. /\ crossed \subseteq crossed'
      /\ s.op = "revoke" => <<s.org, s.who>> \in crossed'
  BY DEF Begin
<1>5. s.op = "grant" => \/ <<s.org, s.who>> \in crossed'
                        \/ \A d \in Calls : ~ Granting(d, <<s.org, s.who>>)
  <2>1. SUFFICES ASSUME s.op = "grant", NEW d \in Calls, Granting(d, <<s.org, s.who>>)
                 PROVE  <<s.org, s.who>> \in crossed'
    OBVIOUS
  <2>2. d \in Changing(<<s.org, s.who>>) /\ call[d].op = "grant"
    BY <2>1 DEF Granting, Changing
  <2>3. QED BY <2>1, <2>2 DEF Begin
<1>6. /\ doubled \subseteq doubled'
      /\ s.op = "login" => s.as \in doubled' \/ \A d \in Calls : ~ SignsIn(d, s.as)
  BY DEF Begin, SignsIn
<1>7. QED BY <1>1, <1>2, <1>3, <1>4, <1>5, <1>6

LEMMA ArrivalPlaced ==
  ASSUME NEW s, Arrival(s), s.op = "revoke" => <<s.org, s.who>> \in crossed'
  PROVE  UNCHANGED <<orgs, users>> => Placed(s)'
<1>1. SUFFICES ASSUME UNCHANGED <<orgs, users>>
               PROVE  Placed(s)'
  OBVIOUS
<1>2. Created' = Created /\ "org_owner" # "agent"
  BY <1>1 DEF Created
<1>3. s.op \in Passing(s.pc)
  BY DEF Arrival, Passing
<1>4. QED BY <1>1, <1>2, <1>3, HomeIsAnOrg DEF Arrival, Placed, Joined

(* Handlers that are cut short.                                            *)
LEMMA CutIs ==
  ASSUME MembersTyped, NEW cs \in SUBSET Calls, CutShort(cs)
  PROVE  /\ call' \in [Calls -> Handlers]
         /\ \A d \in cs : call'[d].pc = "done"
         /\ \A d \in Calls \ cs : call'[d] = call[d]
         /\ UNCHANGED <<orgs, users, member, bindings, keys, uses, sessions, own>>
         /\ cuts' \in Nat
         /\ crossed \subseteq crossed' /\ doubled \subseteq doubled'
         /\ \A d \in cs : /\ call[d].who \in Emails => Target(d) \in crossed'
                          /\ call[d].op = "login" => call[d].as \in doubled'
<1>1. PICK s : s = Resting("done")
  OBVIOUS
<1>2. s \in Handlers /\ s.pc = "done"
  BY <1>1, AskedIs DEF Resting, Asked, MemberPlaces
<1>3. call' = [c \in Calls |-> IF c \in cs THEN s ELSE call[c]] /\ call \in [Calls -> Handlers]
  BY <1>1 DEF CutShort, MembersTyped
<1>4. /\ call' \in [Calls -> Handlers]
      /\ \A d \in cs : call'[d].pc = "done"
      /\ \A d \in Calls \ cs : call'[d] = call[d]
  BY <1>2, <1>3
<1>5. /\ UNCHANGED <<orgs, users, member, bindings, keys, uses, sessions, own>>
      /\ cuts' \in Nat
  BY DEF CutShort, MembersTyped, rows
<1>6. /\ crossed \subseteq crossed' /\ doubled \subseteq doubled'
      /\ \A d \in cs : /\ call[d].who \in Emails => Target(d) \in crossed'
                       /\ call[d].op = "login" => call[d].as \in doubled'
  BY DEF CutShort
<1>7. QED BY <1>4, <1>5, <1>6

----------------------------------------------------------------------------
(* Types and places.                                                       *)
Steady ==
  /\ MembersTyped /\ Admitted /\ \A c \in Calls : Busy(c) => Placed(call[c])

LEMMA AtWork ==
  ASSUME NEW c \in Calls, Step(c)
  PROVE  Busy(c)
BY DEF Step, Busy, List, NewOrg, NewUser, NewMembership, Look, Bind, Cookie, Require, Join,
       Snapshot, Swap, Mirror, Unbind, NewKey, Unkey

LEMMA StepTyped ==
  ASSUME Steady, NEW c \in Calls, Step(c)
  PROVE  MembersTyped' /\ Grown /\ Moves(c)
<1>1. MembersTyped /\ Placed(call[c]) /\ call[c] \in Handlers
  BY AtWork, HandlerIs DEF Steady
<1>2. /\ orgs \in Seq(Orgs) /\ users \in SUBSET (Created \X Emails)
      /\ member \in [Orgs \X Emails -> Roles \cup {Nobody}] /\ bindings \in SUBSET Bound
      /\ keys \in SUBSET [org : Orgs, who : Principals, by : Calls]
      /\ uses \in Nat /\ cached \in SUBSET Orgs /\ sessions \in SUBSET (Emails \X Orgs)
      /\ cuts \in Nat /\ own \in [Emails -> SUBSET Orgs] /\ Created \subseteq Orgs
  BY <1>1, CreatedIs DEF MembersTyped
<1>3. (Bound = Bound)' /\ Bound' = Bound /\ Handlers' = Handlers
  BY DEF Bound, Handlers, Roles, Principals
<1>4. CASE List(c) \/ Look(c) \/ Snapshot(c) \/ Require(c)
  <2>1. /\ UNCHANGED <<orgs, users, member, bindings, keys, uses, cached, sessions, cuts, own,
                       crossed, doubled>>
        /\ Moves(c)
    BY <1>1, <1>4, ListIs, LookIs, RequireIs DEF Ends, Goes
  <2>2. QED BY <1>2, <1>3, <2>1 DEF MembersTyped, Grown, Moves, Created
<1>5. CASE NewOrg(c)
  <2>1. /\ UNCHANGED <<users, member, bindings, keys, uses, cached, sessions, cuts, crossed>>
        /\ Moves(c) /\ orgs' \in Seq(Orgs) /\ Created \subseteq Created'
        /\ call'[c].org \in Created' /\ call[c].pc = "org"
        /\ own' = IF call[c].op = "login"
                  THEN [own EXCEPT ![call[c].as] = @ \cup {call'[c].org}] ELSE own
    BY <1>1, <1>5, NewOrgIs
  <2>2. own' \in [Emails -> SUBSET Orgs]
    <3>1. call'[c].org \in Orgs
      BY <2>1 DEF Created
    <3>2. QED BY <1>2, <2>1, <3>1
  <2>3. QED BY <1>2, <1>3, <2>1, <2>2 DEF MembersTyped, Grown, Moves
<1>6. CASE NewUser(c) \/ Join(c) \/ NewMembership(c) \/ Mirror(c)
  <2>1. call[c].org \in Created /\ call[c].who \in Emails /\ call[c].role \in Roles
    BY <1>1, <1>2, <1>6, NobodyElse DEF NewUser, Join, NewMembership, Mirror, Placed, Passing,
       Joined, Roles
  <2>2. Target(c) \in Created \X Emails /\ Target(c) \in Orgs \X Emails
    BY <1>2, <2>1 DEF Target
  <2>3. users' \in SUBSET (Created \X Emails) /\ users \subseteq users' /\ orgs' = orgs
    BY <1>1, <1>2, <1>6, <2>2, NewUserIs, JoinIs, NewMembershipIs, MirrorIs
  <2>4. member' \in [Orgs \X Emails -> Roles \cup {Nobody}]
    BY <1>1, <1>2, <1>6, <2>1, NewUserIs, JoinIs, NewMembershipIs, MirrorIs
  <2>5. /\ UNCHANGED <<bindings, keys, uses, cached, sessions, cuts, own, crossed, doubled>>
        /\ Moves(c)
    BY <1>1, <1>6, NewUserIs, JoinIs, NewMembershipIs, MirrorIs DEF Goes, Ends
  <2>6. QED BY <1>2, <1>3, <2>3, <2>4, <2>5 DEF MembersTyped, Grown, Moves, Created
<1>7. CASE Bind(c) \/ Swap(c) \/ Unbind(c)
  <2>1. Bind(c) \/ Swap(c) => Row(c) \in Bound
    <3>1. ASSUME Bind(c) \/ Swap(c)
          PROVE  call[c].org \in Orgs /\ call[c].who \in Principals /\ call[c].role \in Roles
      BY <1>1, <1>2, <3>1 DEF Bind, Swap, Placed, Passing, Joined, Roles, Principals
    <3>2. QED BY <3>1 DEF Row, Bound
  <2>2. bindings' \in SUBSET Bound
    <3>1. CASE Bind(c)
      BY <1>1, <1>2, <2>1, <3>1, BindIs
    <3>2. CASE Swap(c)
      BY <1>1, <1>2, <2>1, <3>2, SwapIs
    <3>3. CASE Unbind(c)
      BY <1>1, <1>2, <3>3, UnbindIs
    <3>4. QED BY <1>7, <3>1, <3>2, <3>3
  <2>3. cached' \in SUBSET Orgs
    <3>1. call[c].pc = "bind" /\ call[c].op = "redeem" => call[c].org \in Orgs
      BY <1>1 DEF Placed
    <3>2. QED BY <1>1, <1>2, <1>7, <3>1, BindIs, SwapIs, UnbindIs
  <2>4. /\ UNCHANGED <<orgs, users, member, keys, uses, sessions, cuts, own, crossed, doubled>>
        /\ Moves(c)
    BY <1>1, <1>7, BindIs, SwapIs, UnbindIs DEF Goes, Ends
  <2>5. QED BY <1>2, <1>3, <2>2, <2>3, <2>4 DEF MembersTyped, Grown, Moves, Created
<1>8. CASE Cookie(c)
  <2>1. <<call[c].org, call[c].as>> \in users
    BY <1>1, <1>8 DEF Cookie, Placed
  <2>2. call[c].as \in Emails /\ call[c].org \in Orgs
    BY <1>2, <2>1
  <2>3. /\ UNCHANGED <<orgs, users, member, bindings, keys, uses, cached, cuts, own, crossed>>
        /\ Moves(c) /\ sessions' \in SUBSET (Emails \X Orgs)
    BY <1>1, <1>2, <1>8, <2>2, CookieIs DEF Ends
  <2>4. QED BY <1>2, <1>3, <2>3 DEF MembersTyped, Grown, Moves, Created
<1>9. CASE NewKey(c) \/ Unkey(c)
  <2>1. call[c].pc = "key" => call[c].org \in Orgs /\ call[c].who \in Principals
    BY <1>1, <1>2 DEF Placed, Passing, Joined, Principals
  <2>2. keys' \in SUBSET [org : Orgs, who : Principals, by : Calls]
    BY <1>1, <1>2, <1>9, <2>1, NewKeyIs, UnkeyIs
  <2>3. /\ UNCHANGED <<orgs, users, member, bindings, uses, cached, sessions, cuts, own, crossed>>
        /\ Moves(c)
    BY <1>1, <1>9, NewKeyIs, UnkeyIs DEF Ends, Goes
  <2>4. QED BY <1>2, <1>3, <2>2, <2>3 DEF MembersTyped, Grown, Moves, Created
<1>10. QED BY <1>4, <1>5, <1>6, <1>7, <1>8, <1>9 DEF Step

(* The place a handler has come to.                                        *)
LEMMA StepPlaced ==
  ASSUME Steady, NEW c \in Calls, Step(c), Busy(c)'
  PROVE  Placed(call[c])'
<1>1. MembersTyped /\ Placed(call[c]) /\ Grown
  BY AtWork, StepTyped DEF Steady
<1>2. PICK s, t : s = call[c] /\ t = call'[c]
  OBVIOUS
<1>3. \A b \in s.seen : b.org = s.org /\ b.who = s.who
  BY <1>1, <1>2 DEF Placed
<1>4. Target(c) = <<s.org, s.who>>
  BY <1>2 DEF Target
<1>5. Ends(c) => FALSE
  BY EndedIs
<1> DEFINE Stays == t.op = s.op /\ t.as = s.as /\ t.org = s.org /\ t.who = s.who /\ t.role = s.role
<1>6. \A pc : Goes(c, pc) => Stays /\ t.pc = pc
  BY <1>2 DEF Goes
<1>7. Placed(s) /\ s.op \in Passing(s.pc)
  BY <1>1, <1>2 DEF Placed
<1>8. /\ s.op = "revoke" => <<s.org, s.who>> \in crossed'
      /\ s.op \in {"add", "grant"} => s.org \in Created'
      /\ s.pc \in {"user"} \cup Joined /\ s.op \in {"login", "create"} => s.org \in Created'
  BY <1>1, <1>7 DEF Placed, Grown
<1>9. CASE List(c)
  <2>1. s.pc = "list"
    BY <1>1, <1>2, <1>9, ListIs
  <2>2. /\ UNCHANGED <<orgs, users, crossed>>
        /\ \/ s.op = "login" /\ Stays /\ t.pc = "org" /\ t.seen = s.seen
           \/ t.pc = "cookie" /\ t.op = s.op /\ t.as = s.as /\ t.who = s.who
              /\ <<t.org, t.as>> \in users /\ t.seen = {}
    BY <1>1, <1>2, <1>5, <1>6, <1>9, ListIs
  <2>3. Placed(t)'
    BY <1>3, <1>7, <2>1, <2>2, NobodyElse DEF Placed, Passing, Joined
  <2>4. QED BY <1>2, <2>3 DEF Placed
<1>10. CASE NewOrg(c)
  <2>1. s.pc = "org" /\ t.pc = "user" /\ t.op = s.op /\ t.as = s.as /\ t.who = s.as
        /\ t.role = "org_owner" /\ t.seen = {} /\ t.org \in Created'
    BY <1>1, <1>2, <1>10, NewOrgIs
  <2>2. Placed(t)'
    BY <1>7, <2>1 DEF Placed, Passing, Joined
  <2>3. QED BY <1>2, <2>2 DEF Placed
<1>11. CASE NewUser(c) \/ Join(c) \/ NewMembership(c) \/ Look(c) \/ Snapshot(c) \/ Swap(c)
  <2>1. /\ Stays
        /\ <<s.pc, t.pc>> \in {<<"user", "membership">>, <<"join", "look">>,
                               <<"membership", "look">>, <<"look", "bind">>,
                               <<"snapshot", "swap">>, <<"swap", "mirror">>}
        /\ s.pc \in {"user", "join"} => <<s.org, s.who>> \in users'
    BY <1>1, <1>2, <1>4, <1>6, <1>11, NewUserIs, JoinIs, NewMembershipIs, LookIs, SwapIs
  <2>2. \A b \in t.seen : b.org = s.org /\ b.who = s.who
    BY <1>1, <1>2, <1>3, <1>11, NewUserIs, JoinIs, NewMembershipIs, LookIs, SwapIs DEF RowsOf
  <2>3. t.op \in Passing(t.pc)
    BY <1>7, <2>1 DEF Passing
  <2>4. s.pc \in Joined /\ s.who # Agent => <<s.org, s.who>> \in users'
    BY <1>1, <1>7 DEF Placed, Grown
  <2>5. s.op \in Passing(s.pc) /\ s.pc \in {"user", "membership", "look"} \cup {"join", "snapshot", "swap"}
    BY <1>7, <2>1
  <2>6. Placed(t)'
    BY <1>7, <1>8, <2>1, <2>2, <2>3, <2>4, <2>5 DEF Placed, Joined, Passing
  <2>7. QED BY <1>2, <2>6 DEF Placed
<1>12. CASE Bind(c) \/ NewKey(c)
  <2>1. /\ Stays
        /\ \/ s.pc = "bind" /\ s.op # "add" /\ t.pc = "key"
           \/ s.pc = "key" /\ s.op \in {"login", "create"} /\ t.pc = "cookie"
        /\ \A b \in t.seen : b.org = s.org /\ b.who = s.who
        /\ users' = users
    BY <1>1, <1>2, <1>3, <1>5, <1>6, <1>12, BindIs, NewKeyIs
  <2>2. t.op \in Passing(t.pc)
    BY <1>7, <2>1 DEF Passing
  <2>3. t.pc = "cookie" => <<t.org, t.as>> \in users'
    BY <1>7, <2>1, NobodyElse DEF Placed, Joined
  <2>4. Placed(t)'
    BY <1>7, <1>8, <2>1, <2>2, <2>3 DEF Placed, Joined, Passing
  <2>5. QED BY <1>2, <2>4 DEF Placed
<1>13. CASE Require(c)
  <2>1. /\ Stays /\ s.pc = "require" /\ t.seen = s.seen /\ t.op \in Passing(t.pc)
        /\ t.pc \in {"join", "snapshot", "unbind", "look", "unkey"}
        /\ t.pc = "look" <=> s.op = "mint"
    BY <1>1, <1>2, <1>5, <1>6, <1>13, RequireIs
  <2>2. Placed(t)'
    BY <1>3, <1>7, <1>8, <2>1 DEF Placed, Joined
  <2>3. QED BY <1>2, <2>2 DEF Placed
<1>14. CASE Cookie(c) \/ Mirror(c) \/ Unbind(c) \/ Unkey(c)
  BY <1>1, <1>5, <1>14, CookieIs, MirrorIs, UnbindIs, UnkeyIs
<1>15. QED BY <1>9, <1>10, <1>11, <1>12, <1>13, <1>14 DEF Step

LEMMA StepAdmits ==
  ASSUME Steady, NEW c \in Calls, Step(c)
  PROVE  Admitted'
<1>1. MembersTyped /\ Placed(call[c]) /\ users \subseteq users' /\ Admitted
  BY AtWork, StepTyped DEF Steady, Grown
<1>2. CASE Cookie(c)
  BY <1>1, <1>2, CookieIs DEF Admitted, Placed
<1>3. CASE NewKey(c)
  BY <1>1, <1>3, NewKeyIs DEF Admitted, Placed, Joined
<1>4. CASE sessions' = sessions /\ keys' \subseteq keys
  BY <1>1, <1>4 DEF Admitted
<1>5. Cookie(c) \/ NewKey(c) \/ (sessions' = sessions /\ keys' \subseteq keys)
  BY <1>1, ListIs, NewOrgIs, NewUserIs, NewMembershipIs, LookIs, BindIs, RequireIs, JoinIs,
     SwapIs, MirrorIs, UnbindIs, UnkeyIs DEF Step
<1>6. QED BY <1>2, <1>3, <1>4, <1>5

----------------------------------------------------------------------------
(* Sign-ins.                                                               *)
LEMMA StepOwn ==
  ASSUME Steady, NEW c \in Calls, Step(c), NEW e \in Emails, OwnKept(e)
  PROVE  OwnKept(e)'
<1>1. MembersTyped /\ Placed(call[c]) /\ users \subseteq users' /\ Moves(c) /\ Busy(c)
  BY AtWork, StepTyped DEF Steady, Grown
<1>2. \A d \in Calls : d # c => call'[d] = call[d]
  BY <1>1 DEF Moves
<1>3. \A d \in Calls : d # c => (SignsIn(d, e)' <=> SignsIn(d, e))
  BY <1>2 DEF SignsIn, Busy
<1>4. CASE List(c)
  <2>1. call[c].pc = "list" /\ UNCHANGED <<users, own, doubled>>
    BY <1>1, <1>4, ListIs
  <2>2. SignsIn(c, e)' => SignsIn(c, e) /\ (call'[c].pc = "org" => OrgsOf(e) = {})
    <3>1. CASE Ends(c)
      BY <3>1, EndedIs
    <3>2. CASE Goes(c, "org") /\ OrgsOf(call[c].as) = {}
      BY <1>1, <3>2 DEF Goes, SignsIn
    <3>3. CASE call'[c].pc = "cookie" /\ call'[c].op = call[c].op /\ call'[c].as = call[c].as
      BY <1>1, <3>3 DEF SignsIn
    <3>4. QED BY <1>1, <1>4, <3>1, <3>2, <3>3, ListIs
  <2>3. ASSUME SignsIn(c, e)', call'[c].pc = "org", e \notin doubled
        PROVE  own[e] = {}
    <3>1. \A o : <<o, e>> \notin users
      BY <1>1, <2>2, <2>3, CreatedIs
    <3>2. \A d \in Calls : SignsIn(d, e) => d = c
      BY <2>2, <2>3 DEF OwnKept
    <3>3. QED BY <2>1, <2>3, <3>1, <3>2 DEF OwnKept
  <2>4. CASE e \in doubled
    BY <2>1, <2>4 DEF OwnKept
  <2>5. CASE e \notin doubled
    <3>1. \A d \in Calls : SignsIn(d, e)' =>
            SignsIn(d, e) /\ (call'[d].pc = "org" => call[d].pc = "org" \/ own[e] = {})
      BY <1>2, <1>3, <2>2, <2>3, <2>5
    <3>2. \A d \in Calls : SignsIn(d, e) /\ call[d].pc = "user" =>
            SignsIn(d, e)' /\ call'[d].pc = "user" /\ call'[d].org = call[d].org
      BY <1>2, <1>3, <2>1
    <3>3. QED BY <2>1, <3>1, <3>2, OwnStays
  <2>6. QED BY <2>4, <2>5
<1>5. CASE NewOrg(c)
  <2>1. /\ call[c].pc = "org" /\ UNCHANGED <<users, doubled>>
        /\ call'[c].pc = "user" /\ call'[c].op = call[c].op /\ call'[c].as = call[c].as
    BY <1>1, <1>5, NewOrgIs
  <2>2. SignsIn(c, e)' <=> SignsIn(c, e)
    BY <2>1 DEF SignsIn, Busy
  <2>3. CASE SignsIn(c, e)
    <3>1. own'[e] = own[e] \cup {call'[c].org}
      BY <1>1, <1>5, <2>3, NewOrgIs DEF SignsIn, MembersTyped
    <3>2. CASE e \in doubled
      BY <2>1, <3>2 DEF OwnKept
    <3>3. CASE e \notin doubled
      <4>1. /\ own[e] = {} /\ own'[e] = {call'[c].org}
            /\ \A d \in Calls : SignsIn(d, e) => d = c
        BY <2>1, <2>3, <3>1, <3>3 DEF OwnKept
      <4>2. \A d \in Calls : SignsIn(d, e)' => d = c
        BY <1>3, <4>1
      <4>3. SignsIn(c, e)' /\ call'[c].pc = "user"
        BY <2>1, <2>2, <2>3
      <4>4. QED BY <4>1, <4>2, <4>3 DEF OwnKept
    <3>4. QED BY <3>2, <3>3
  <2>4. CASE ~ SignsIn(c, e)
    <3>1. own'[e] = own[e]
      BY <1>1, <1>5, <2>1, <2>4, NewOrgIs DEF SignsIn, Busy, MembersTyped
    <3>2. \A d \in Calls : SignsIn(d, e)' => SignsIn(d, e) /\ d # c
      BY <1>3, <2>2, <2>4
    <3>3. \A d \in Calls : SignsIn(d, e) => SignsIn(d, e)' /\ d # c
      BY <1>3, <2>2, <2>4
    <3>4. QED BY <1>2, <2>1, <3>1, <3>2, <3>3, OwnStays
  <2>5. QED BY <2>3, <2>4
<1>6. CASE ~ List(c) /\ ~ NewOrg(c)
  <2>1. UNCHANGED <<own, doubled>> /\ call[c].pc \notin {"list", "org"}
    BY <1>1, <1>6, NewUserIs, NewMembershipIs, LookIs, BindIs, CookieIs, RequireIs, JoinIs,
       SwapIs, MirrorIs, UnbindIs, NewKeyIs, UnkeyIs DEF Step
  <2>2. Ends(c) \/ \E pc : Goes(c, pc) /\ pc # "org"
    <3>1. CASE Require(c)
      BY <1>1, <3>1, RequireIs
    <3>2. CASE NewUser(c) \/ NewMembership(c) \/ Look(c) \/ Snapshot(c) \/ Swap(c) \/ Join(c)
      <4>1. \E pc \in {"membership", "look", "bind", "swap", "mirror"} : Goes(c, pc)
        BY <1>1, <3>2, NewUserIs, NewMembershipIs, LookIs, SwapIs, JoinIs
      <4>2. QED BY <4>1
    <3>3. CASE Bind(c) \/ NewKey(c)
      <4>1. Ends(c) \/ Goes(c, "key") \/ Goes(c, "cookie")
        BY <1>1, <3>3, BindIs, NewKeyIs
      <4>2. QED BY <4>1
    <3>4. CASE Cookie(c) \/ Mirror(c) \/ Unbind(c) \/ Unkey(c)
      BY <1>1, <3>4, CookieIs, MirrorIs, UnbindIs, UnkeyIs
    <3>5. QED BY <1>6, <3>1, <3>2, <3>3, <3>4 DEF Step
  <2>3. SignsIn(c, e)' => SignsIn(c, e) /\ call'[c].pc # "org"
    <3>1. CASE Ends(c)
      BY <3>1, EndedIs
    <3>2. CASE \E pc : Goes(c, pc) /\ pc # "org"
      BY <1>1, <3>2 DEF Goes, SignsIn
    <3>3. QED BY <2>2, <3>1, <3>2
  <2>4. SignsIn(c, e) /\ call[c].pc = "user" => <<call[c].org, e>> \in users'
    <3>1. SUFFICES ASSUME SignsIn(c, e), call[c].pc = "user"
                   PROVE  <<call[c].org, e>> \in users'
      OBVIOUS
    <3>2. NewUser(c)
      BY <1>1, <1>6, <3>1 DEF Step, NewMembership, Look, Bind, Cookie, Require, Join, Snapshot,
         Swap, Mirror, Unbind, NewKey, Unkey
    <3>3. call[c].who = e
      BY <1>1, <3>1 DEF SignsIn, Placed
    <3>4. QED BY <1>1, <3>2, <3>3, NewUserIs DEF Target
  <2>5. \A d \in Calls : SignsIn(d, e)' =>
          SignsIn(d, e) /\ (call'[d].pc = "org" => call[d].pc = "org")
    BY <1>2, <1>3, <2>3
  <2>6. \A d \in Calls : SignsIn(d, e) /\ call[d].pc = "user" =>
          \/ SignsIn(d, e)' /\ call'[d].pc = "user" /\ call'[d].org = call[d].org
          \/ <<call[d].org, e>> \in users'
    BY <1>2, <1>3, <2>4
  <2>7. QED BY <1>1, <2>1, <2>5, <2>6, OwnStays
<1>7. QED BY <1>4, <1>5, <1>6

----------------------------------------------------------------------------
(* Roles.                                                                  *)
LEMMA StepGrant ==
  ASSUME Steady, NEW c \in Calls, Step(c), NEW pair, OneGrant(pair)
  PROVE  OneGrant(pair)'
<1>1. MembersTyped /\ Placed(call[c]) /\ crossed \subseteq crossed' /\ Moves(c) /\ Busy(c)
  BY AtWork, StepTyped DEF Steady, Grown
<1>2. \A d \in Calls : d # c => (Granting(d, pair)' => Granting(d, pair))
  BY <1>1 DEF Moves, Granting, Busy, Target
<1>3. Granting(c, pair)' => Granting(c, pair)
  <2>1. SUFFICES ASSUME Granting(c, pair)'
                 PROVE  Granting(c, pair)
    OBVIOUS
  <2>2. ~ Ends(c) /\ call'[c].op = "grant" /\ Target(c)' = pair
    BY <2>1, EndedIs DEF Granting
  <2>3. CASE List(c)
    <3>1. call[c].op \in {"login", "switch"} /\ call'[c].op = call[c].op
      BY <1>1, <2>2, <2>3, ListIs DEF Placed, Passing, Goes
    <3>2. QED BY <2>2, <3>1
  <2>4. CASE NewOrg(c)
    <3>1. call[c].op \in {"login", "create"} /\ call'[c].op = call[c].op
      BY <1>1, <2>4, NewOrgIs DEF Placed, Passing
    <3>2. QED BY <2>2, <3>1
  <2>5. CASE ~ List(c) /\ ~ NewOrg(c)
    <3>1. \E pc : Goes(c, pc)
      BY <1>1, <2>2, <2>5, NewUserIs, NewMembershipIs, LookIs, BindIs, CookieIs, RequireIs,
         JoinIs, SwapIs, MirrorIs, UnbindIs, NewKeyIs, UnkeyIs DEF Step
    <3>2. QED BY <1>1, <2>2, <3>1 DEF Goes, Granting, Target
  <2>6. QED BY <2>3, <2>4, <2>5
<1>4. QED BY <1>1, <1>2, <1>3, GrantStays

(* A step of a handler about somebody else.                                *)
LEMMA OthersRole ==
  ASSUME Steady, NEW c \in Calls, Step(c), NEW pair \in Orgs \X Emails, RoleKept(pair),
         Target(c) # pair \/ List(c) \/ NewOrg(c) \/ Require(c) \/ Snapshot(c) \/ Cookie(c)
           \/ NewKey(c) \/ Unkey(c)
  PROVE  RoleKept(pair)'
<1>1. MembersTyped /\ Placed(call[c]) /\ crossed \subseteq crossed' /\ Moves(c)
  BY AtWork, StepTyped DEF Steady, Grown
<1>2. PICK o \in Orgs, e \in Emails : pair = <<o, e>>
  OBVIOUS
<1>3. \A d \in Calls : d # c => call'[d] = call[d]
  BY <1>1 DEF Moves
<1>4. CASE List(c) \/ NewOrg(c) \/ Require(c) \/ Snapshot(c) \/ Cookie(c) \/ NewKey(c) \/ Unkey(c)
  <2>1. UNCHANGED <<users, member, bindings>>
    BY <1>1, <1>4, ListIs, NewOrgIs, RequireIs, LookIs, CookieIs, NewKeyIs, UnkeyIs
  <2>2. RolesOf(o, e)' = RolesOf(o, e)
    BY <2>1 DEF RolesOf, RowsOf
  <2>3. ~ Bears(c, pair)
    BY <1>4 DEF Bears, List, NewOrg, Require, Snapshot, Cookie, NewKey, Unkey
  <2>4. call'[c].pc # "mirror"
    <3>1. CASE List(c) \/ NewOrg(c) \/ Cookie(c) \/ NewKey(c) \/ Unkey(c) \/ Snapshot(c)
      BY <1>1, <3>1, ListIs, NewOrgIs, LookIs, CookieIs, NewKeyIs, UnkeyIs DEF Goes, Ends
    <3>2. CASE Require(c)
      BY <1>1, <3>2, RequireIs DEF Goes, Ends
    <3>3. QED BY <1>4, <3>1, <3>2
  <2>5. ~ Stands(c, pair, "mirror")'
    BY <2>4 DEF Stands
  <2>6. RolesOf(pair[1], pair[2])' = RolesOf(pair[1], pair[2])
    BY <1>2, <2>2
  <2>7. QED BY <1>1, <1>3, <2>1, <2>3, <2>5, <2>6, RoleStays
<1>5. CASE Target(c) # pair /\ ~ (List(c) \/ NewOrg(c) \/ Require(c) \/ Snapshot(c) \/ Cookie(c)
                                  \/ NewKey(c) \/ Unkey(c))
  <2>1. ~ Bears(c, pair)
    BY <1>5 DEF Bears
  <2>2. ~ Stands(c, pair, "mirror")'
    <3>1. CASE Ends(c)
      BY <3>1, EndedIs
    <3>2. CASE \E pc : Goes(c, pc)
      BY <1>5, <3>2 DEF Stands, Goes, Target
    <3>3. QED
      BY <1>1, <1>5, <3>1, <3>2, NewUserIs, NewMembershipIs, LookIs, BindIs, JoinIs, SwapIs,
         MirrorIs, UnbindIs DEF Step
  <2>3. pair \in users' => pair \in users
    BY <1>1, <1>5, NewUserIs, NewMembershipIs, LookIs, BindIs, JoinIs, SwapIs, MirrorIs,
       UnbindIs DEF Step
  <2>4. member'[pair] = member[pair]
    BY <1>1, <1>5, NewUserIs, NewMembershipIs, LookIs, BindIs, JoinIs, SwapIs, MirrorIs,
       UnbindIs DEF Step, MembersTyped
  <2>5. RolesOf(o, e)' = RolesOf(o, e)
    <3>1. CASE bindings' = bindings
      BY <3>1 DEF RolesOf, RowsOf
    <3>2. CASE Bind(c) \/ Swap(c)
      <4>1. Row(c).org = call[c].org /\ Row(c).who = call[c].who
        BY DEF Row
      <4>2. Row(c) \notin RowsOf(o, e)' /\ <<o, e>> # <<call[c].org, call[c].who>>
        BY <1>2, <1>5, <4>1 DEF RowsOf, Target
      <4>3. \A b \in call[c].seen : b.org = call[c].org /\ b.who = call[c].who
        BY <1>1 DEF Placed
      <4>4. RowsOf(o, e)' = RowsOf(o, e)
        <5>1. CASE Bind(c)
          BY <1>1, <4>2, <5>1, BindIs DEF RowsOf
        <5>2. CASE Swap(c)
          <6>1. bindings' = (bindings \ call[c].seen) \cup {Row(c)}
            BY <1>1, <5>2, SwapIs
          <6>2. \A b \in call[c].seen : ~ (b.org = o /\ b.who = e)
            BY <4>2, <4>3
          <6>3. QED BY <4>2, <6>1, <6>2 DEF RowsOf
        <5>3. QED BY <3>2, <5>1, <5>2
      <4>5. QED BY <4>4 DEF RolesOf
    <3>3. CASE Unbind(c)
      <4>1. bindings' = {b \in bindings : ~(b.org = call[c].org /\ b.who = call[c].who
                                            /\ b.role = call[c].role)}
        BY <1>1, <3>3, UnbindIs
      <4>2. <<o, e>> # <<call[c].org, call[c].who>>
        BY <1>2, <1>5 DEF Target
      <4>3. RowsOf(o, e)' = RowsOf(o, e)
        BY <4>1, <4>2 DEF RowsOf
      <4>4. QED BY <4>3 DEF RolesOf
    <3>4. bindings' = bindings \/ Bind(c) \/ Swap(c) \/ Unbind(c)
      BY <1>1, <1>5, NewUserIs, NewMembershipIs, LookIs, JoinIs, MirrorIs DEF Step
    <3>5. QED BY <3>1, <3>2, <3>3, <3>4
  <2>6. RolesOf(pair[1], pair[2])' = RolesOf(pair[1], pair[2])
    BY <1>2, <2>5
  <2>7. QED BY <1>1, <1>3, <2>1, <2>2, <2>3, <2>4, <2>6, RoleStays
<1>6. QED BY <1>4, <1>5

(* A step of a handler about this member.                                  *)
LEMMA OwnRole ==
  ASSUME Steady, NEW c \in Calls, NEW pair \in Orgs \X Emails, Target(c) = pair,
         RoleKept(pair), OneGrant(pair),
         NewUser(c) \/ NewMembership(c) \/ Join(c) \/ Look(c) \/ Bind(c) \/ Swap(c) \/ Mirror(c)
  PROVE  RoleKept(pair)'
<1>1. MembersTyped /\ Step(c) /\ Placed(call[c]) /\ Moves(c) /\ Busy(c)
  BY AtWork, StepTyped DEF Steady, Step
<1>2. PICK o \in Orgs, e \in Emails : pair = <<o, e>>
  OBVIOUS
<1>3. \A d \in Calls : d # c => call'[d] = call[d]
  BY <1>1 DEF Moves
<1>4. crossed' = crossed
  BY <1>1, NewUserIs, NewMembershipIs, JoinIs, LookIs, BindIs, SwapIs, MirrorIs
<1>5. SUFFICES ASSUME pair \notin crossed
               PROVE  RoleKept(pair)'
  BY <1>4 DEF RoleKept
<1>6. /\ \A d \in Calls : Stands(d, pair, "mirror") => call[d].role \in RolesOf(o, e)
      /\ pair \in users /\ member[pair] = Nobody => \E d \in Calls : Stands(d, pair, "membership")
      /\ member[pair] # Nobody =>
           \/ member[pair] \in RolesOf(o, e)
           \/ \E d \in Calls : Stands(d, pair, "mirror") \/ WillBind(d, pair)
  BY <1>2, <1>5 DEF RoleKept
<1>7. \A d \in Calls : d # c =>
        /\ \A pc : Stands(d, pair, pc)' <=> Stands(d, pair, pc)
        /\ member'[pair] = member[pair] => (WillBind(d, pair)' <=> WillBind(d, pair))
  BY <1>3 DEF Stands, Target, WillBind
<1>8. call[c].role # Nobody
  BY <1>1, NobodyElse DEF NewUser, NewMembership, Join, Look, Bind, Swap, Mirror, Placed,
     Passing, Joined, Roles
<1>9. call[c].org = o /\ call[c].who = e
  BY <1>2 DEF Target
<1>10. ASSUME NEW pc, Goes(c, pc)
       PROVE  /\ Stands(c, pair, pc)' /\ \A to : to # pc => ~ Stands(c, pair, to)'
              /\ call'[c].role = call[c].role
  BY <1>10 DEF Goes, Stands, Target
<1> DEFINE Kept ==
      /\ \A d \in Calls : Stands(d, pair, "mirror")' => call'[d].role \in RolesOf(o, e)'
      /\ pair \in users' /\ member'[pair] = Nobody => \E d \in Calls : Stands(d, pair, "membership")'
      /\ member'[pair] # Nobody =>
           \/ member'[pair] \in RolesOf(o, e)'
           \/ \E d \in Calls : Stands(d, pair, "mirror")' \/ WillBind(d, pair)'
<1>11. CASE NewUser(c)
  <2>1. /\ call[c].pc = "user" /\ Goes(c, "membership") /\ UNCHANGED <<member, bindings>>
    BY <1>1, <1>11, NewUserIs
  <2>2. RolesOf(o, e)' = RolesOf(o, e)
    BY <2>1 DEF RolesOf, RowsOf
  <2>3. ~ Stands(c, pair, "mirror") /\ ~ WillBind(c, pair)
    BY <2>1 DEF Stands, WillBind
  <2>4. Kept
    BY <1>3, <1>6, <1>7, <1>10, <2>1, <2>2, <2>3
  <2>5. QED BY <1>2, <2>4 DEF RoleKept
<1>12. CASE NewMembership(c) \/ Join(c)
  <2>1. /\ call[c].pc \in {"membership", "join"} /\ Goes(c, "look") /\ bindings' = bindings
        /\ member' = [member EXCEPT ![pair] = call[c].role]
    BY <1>1, <1>12, NewMembershipIs, JoinIs
  <2>2. RolesOf(o, e)' = RolesOf(o, e)
    BY <2>1 DEF RolesOf, RowsOf
  <2>3. member'[pair] = call[c].role
    BY <1>1, <2>1 DEF MembersTyped
  <2>4. WillBind(c, pair)'
    BY <1>10, <2>1, <2>3 DEF WillBind
  <2>5. ~ Stands(c, pair, "mirror")
    BY <2>1 DEF Stands
  <2>6. Kept
    BY <1>3, <1>6, <1>7, <1>8, <1>10, <2>1, <2>2, <2>3, <2>4, <2>5
  <2>7. QED BY <1>2, <2>6 DEF RoleKept
<1>13. CASE Look(c)
  <2>1. /\ call[c].pc = "look" /\ Goes(c, "bind") /\ UNCHANGED <<users, member, bindings>>
        /\ call'[c].seen = RowsOf(o, e)
    BY <1>1, <1>9, <1>13, LookIs
  <2>2. RolesOf(o, e)' = RolesOf(o, e)
    BY <2>1 DEF RolesOf, RowsOf
  <2>3. WillBind(c, pair) => member[pair] \in RolesOf(o, e) \/ WillBind(c, pair)'
    <3>1. SUFFICES ASSUME WillBind(c, pair), member[pair] \notin RolesOf(o, e)
                   PROVE  WillBind(c, pair)'
      OBVIOUS
    <3>2. \A b \in call'[c].seen : b.role # member[pair]
      BY <2>1, <3>1 DEF RolesOf
    <3>3. QED BY <1>10, <2>1, <3>1, <3>2 DEF WillBind
  <2>4. ~ Stands(c, pair, "mirror") /\ ~ Stands(c, pair, "membership")
    BY <2>1 DEF Stands
  <2>5. Kept
    BY <1>3, <1>6, <1>7, <1>10, <2>1, <2>2, <2>3, <2>4
  <2>6. QED BY <1>2, <2>5 DEF RoleKept
<1>14. CASE Bind(c)
  <2>1. /\ call[c].pc = "bind" /\ UNCHANGED <<users, member>>
        /\ bindings' = IF \E b \in call[c].seen : b.role = call[c].role
                       THEN bindings ELSE bindings \cup {Row(c)}
        /\ Ends(c) \/ Goes(c, "key")
    BY <1>1, <1>14, BindIs
  <2>2. RolesOf(o, e) \subseteq RolesOf(o, e)'
    BY <2>1 DEF RolesOf, RowsOf
  <2>3. WillBind(c, pair) => member[pair] \in RolesOf(o, e)'
    <3>1. SUFFICES ASSUME WillBind(c, pair)
                   PROVE  member[pair] \in RolesOf(o, e)'
      OBVIOUS
    <3>2. call[c].role = member[pair] /\ bindings' = bindings \cup {Row(c)}
      BY <2>1, <3>1 DEF WillBind, Stands
    <3>3. Row(c).org = o /\ Row(c).who = e /\ Row(c).role = member[pair]
      BY <1>9, <3>2 DEF Row
    <3>4. QED BY <3>2, <3>3 DEF RolesOf, RowsOf
  <2>4. ~ Stands(c, pair, "mirror") /\ ~ Stands(c, pair, "membership")
        /\ ~ Stands(c, pair, "mirror")'
    BY <1>10, <2>1, EndedIs DEF Stands
  <2>5. \A d \in Calls : Stands(d, pair, "mirror")' => call'[d].role \in RolesOf(o, e)'
    BY <1>3, <1>6, <1>7, <2>2, <2>4
  <2>6. pair \in users' /\ member'[pair] = Nobody => \E d \in Calls : Stands(d, pair, "membership")'
    BY <1>6, <1>7, <2>1, <2>4
  <2>7. ASSUME NEW d \in Calls, Stands(d, pair, "mirror") \/ WillBind(d, pair)
        PROVE  \/ member'[pair] \in RolesOf(o, e)'
               \/ Stands(d, pair, "mirror")' \/ WillBind(d, pair)'
    <3>1. CASE d = c
      BY <2>1, <2>3, <2>4, <2>7, <3>1
    <3>2. CASE d # c
      BY <1>7, <2>1, <2>7, <3>2
    <3>3. QED BY <3>1, <3>2
  <2>8. member'[pair] # Nobody =>
           \/ member'[pair] \in RolesOf(o, e)'
           \/ \E d \in Calls : Stands(d, pair, "mirror")' \/ WillBind(d, pair)'
    BY <1>6, <2>1, <2>2, <2>7
  <2>9. QED BY <1>2, <2>5, <2>6, <2>8 DEF RoleKept
<1>15. CASE Swap(c)
  <2>1. /\ call[c].pc = "swap" /\ Goes(c, "mirror") /\ UNCHANGED <<users, member>>
        /\ bindings' = (bindings \ call[c].seen) \cup {Row(c)}
    BY <1>1, <1>15, SwapIs
  <2>2. Row(c).org = o /\ Row(c).who = e /\ Row(c).role = call[c].role
    BY <1>9 DEF Row
  <2>3. call[c].role \in RolesOf(o, e)'
    BY <2>1, <2>2 DEF RolesOf, RowsOf
  <2>4. \A d \in Calls : Stands(d, pair, "mirror")' => d = c
    <3>1. ASSUME NEW d \in Calls, d # c, Stands(d, pair, "mirror")
          PROVE  FALSE
      <4>1. Busy(d) /\ Placed(call[d])
        BY <3>1 DEF Stands, Busy, Steady
      <4>2. Granting(d, pair)
        BY <3>1, <4>1 DEF Placed, Passing, Stands, Granting
      <4>3. Granting(c, pair)
        BY <1>1, <2>1 DEF Placed, Passing, Granting
      <4>4. QED BY <1>5, <3>1, <4>2, <4>3 DEF OneGrant
    <3>2. QED BY <1>7, <3>1
  <2>5. ~ Stands(c, pair, "membership")
    BY <2>1 DEF Stands
  <2>6. Kept
    BY <1>3, <1>6, <1>7, <1>10, <2>1, <2>3, <2>4, <2>5
  <2>7. QED BY <1>2, <2>6 DEF RoleKept
<1>16. CASE Mirror(c)
  <2>1. /\ call[c].pc = "mirror" /\ Ends(c) /\ UNCHANGED <<users, bindings>>
        /\ member' = [member EXCEPT ![pair] = IF @ = Nobody THEN Nobody ELSE call[c].role]
    BY <1>1, <1>16, MirrorIs
  <2>2. RolesOf(o, e)' = RolesOf(o, e)
    BY <2>1 DEF RolesOf, RowsOf
  <2>3. member'[pair] = IF member[pair] = Nobody THEN Nobody ELSE call[c].role
    BY <1>1, <2>1 DEF MembersTyped
  <2>4. call[c].role \in RolesOf(o, e)
    BY <1>6, <2>1 DEF Stands
  <2>5. ~ Stands(c, pair, "membership") /\ ~ Stands(c, pair, "mirror")'
    BY <2>1, EndedIs DEF Stands
  <2>6. \A d \in Calls : Stands(d, pair, "mirror")' => call'[d].role \in RolesOf(o, e)'
    BY <1>3, <1>6, <1>7, <2>2, <2>5
  <2>7. member'[pair] = Nobody => member[pair] = Nobody
    BY <1>8, <2>3
  <2>8. pair \in users' /\ member'[pair] = Nobody => \E d \in Calls : Stands(d, pair, "membership")'
    BY <1>6, <1>7, <2>1, <2>5, <2>7
  <2>9. member'[pair] # Nobody => member'[pair] \in RolesOf(o, e)'
    BY <2>2, <2>3, <2>4
  <2>10. QED BY <1>2, <2>6, <2>8, <2>9 DEF RoleKept
<1>17. QED BY <1>11, <1>12, <1>13, <1>14, <1>15, <1>16

LEMMA StepRole ==
  ASSUME Steady, NEW c \in Calls, Step(c), NEW pair \in Orgs \X Emails, RoleKept(pair),
         OneGrant(pair)
  PROVE  RoleKept(pair)'
<1>1. CASE Unbind(c) /\ Target(c) = pair
  <2>1. pair \in crossed'
    BY <1>1, AtWork, StepTyped DEF Steady, Grown, Placed, Passing, Unbind, Target
  <2>2. QED BY <2>1 DEF RoleKept
<1>2. QED BY <1>1, OthersRole, OwnRole DEF Step

----------------------------------------------------------------------------
(* Agents.                                                                 *)
LEMMA SeenRows ==
  ASSUME NEW o, NEW c, Placed(call[c]), Target(c) = <<o, Agent>>, call[c].seen \subseteq bindings
  PROVE  call[c].seen \subseteq RowsOf(o, Agent)
BY DEF Placed, Target, RowsOf

LEMMA AgentRows ==
  ASSUME Steady, NEW c \in Calls, Step(c), NEW o, <<o, Agent>> \notin crossed'
  PROVE  RowsOf(o, Agent) \subseteq bindings'
<1>1. MembersTyped /\ Placed(call[c]) /\ crossed \subseteq crossed'
  BY AtWork, StepTyped DEF Steady, Grown
<1>2. CASE bindings \subseteq bindings'
  BY <1>2 DEF RowsOf
<1>3. CASE Swap(c)
  <2>1. call[c].who \in Emails /\ \A b \in call[c].seen : b.who = call[c].who
    BY <1>1, <1>3 DEF Swap, Placed, Passing
  <2>2. bindings' = (bindings \ call[c].seen) \cup {Row(c)}
    BY <1>1, <1>3, SwapIs
  <2>3. QED BY <2>1, <2>2, NobodyElse DEF RowsOf
<1>4. CASE Unbind(c)
  <2>1. <<call[c].org, call[c].who>> # <<o, Agent>>
    BY <1>1, <1>4 DEF Unbind, Placed, Passing
  <2>2. QED BY <1>1, <1>4, <2>1, UnbindIs DEF RowsOf
<1>5. Bind(c) => bindings \subseteq bindings'
  BY <1>1, BindIs
<1>6. QED
  BY <1>1, <1>2, <1>3, <1>4, <1>5, ListIs, NewOrgIs, NewUserIs, NewMembershipIs, LookIs,
     CookieIs, RequireIs, JoinIs, MirrorIs, NewKeyIs, UnkeyIs DEF Step

LEMMA BindRows ==
  ASSUME Steady, NEW c \in Calls, Bind(c), NEW o, AgentKept(o), <<o, Agent>> \notin crossed,
         Target(c) = <<o, Agent>>
  PROVE  RowsOf(o, Agent)' # {}
<1>1. MembersTyped /\ Placed(call[c]) /\ call[c].pc = "bind"
  BY AtWork DEF Steady, Step, Bind
<1>2. call[c].seen \subseteq RowsOf(o, Agent)
  <2>1. Stands(c, <<o, Agent>>, "bind")
    BY <1>1 DEF Stands
  <2>2. QED BY <1>1, <2>1, SeenRows DEF AgentKept
<1>3. call[c].org = o /\ call[c].who = Agent
  BY DEF Target
<1>4. CASE \E b \in call[c].seen : b.role = call[c].role
  <2>1. bindings' = bindings
    BY <1>1, <1>4, BindIs
  <2>2. QED BY <1>2, <1>4, <2>1 DEF RowsOf
<1>5. CASE ~ \E b \in call[c].seen : b.role = call[c].role
  <2>1. Row(c) \in bindings' /\ Row(c).org = o /\ Row(c).who = Agent
    BY <1>1, <1>3, <1>5, BindIs DEF Row
  <2>2. QED BY <2>1 DEF RowsOf
<1>6. QED BY <1>4, <1>5

LEMMA StepAgent ==
  ASSUME Steady, NEW c \in Calls, Step(c), NEW o, AgentKept(o)
  PROVE  AgentKept(o)'
<1>1. MembersTyped /\ Placed(call[c]) /\ crossed \subseteq crossed' /\ Moves(c) /\ Busy(c)
  BY AtWork, StepTyped DEF Steady, Grown
<1>2. SUFFICES ASSUME <<o, Agent>> \notin crossed'
               PROVE  AgentKept(o)'
  BY DEF AgentKept
<1>3. <<o, Agent>> \notin crossed /\ RowsOf(o, Agent) \subseteq bindings'
  BY <1>1, <1>2, AgentRows
<1>4. \A d \in Calls : d # c => call'[d] = call[d]
  BY <1>1 DEF Moves
<1>5. o \in cached' => o \in cached \/ RowsOf(o, Agent)' # {}
  <2>1. ASSUME o \in cached', o \notin cached
        PROVE  Bind(c) /\ call[c].op = "redeem" /\ call[c].org = o
    BY <1>1, <2>1, ListIs, NewOrgIs, NewUserIs, NewMembershipIs, LookIs, BindIs, CookieIs,
       RequireIs, JoinIs, SwapIs, MirrorIs, UnbindIs, NewKeyIs, UnkeyIs DEF Step
  <2>2. call[c].op = "redeem" => call[c].who = Agent
    BY <1>1 DEF Placed
  <2>3. QED BY <1>3, <2>1, <2>2, BindRows DEF Target
<1>6. \A k \in keys' : k \in keys \/ RowsOf(o, Agent)' # {} \/ ~ (k.org = o /\ k.who = Agent)
  <2>1. CASE NewKey(c)
    <3>1. /\ call[c].pc = "key"
          /\ keys' = keys \cup {[org |-> call[c].org, who |-> call[c].who, by |-> c]}
      BY <1>1, <2>1, NewKeyIs
    <3>2. SUFFICES ASSUME call[c].org = o, call[c].who = Agent
                   PROVE  RowsOf(o, Agent)' # {}
      BY <3>1
    <3>3. RowsOf(o, Agent) # {}
      BY <1>3, <3>1, <3>2 DEF AgentKept, Stands, Target
    <3>4. QED BY <1>3, <3>3 DEF RowsOf
  <2>2. CASE ~ NewKey(c)
    BY <1>1, <2>2, ListIs, NewOrgIs, NewUserIs, NewMembershipIs, LookIs, BindIs, CookieIs,
       RequireIs, JoinIs, SwapIs, MirrorIs, UnbindIs, UnkeyIs DEF Step
  <2>3. QED BY <2>1, <2>2
<1>7. call'[c].pc = "key" => Bind(c)
  <2>1. CASE List(c) \/ NewOrg(c)
    BY <1>1, <2>1, ListIs, NewOrgIs DEF Ends, Goes
  <2>2. CASE Require(c)
    BY <1>1, <2>2, RequireIs DEF Ends, Goes
  <2>3. CASE ~ (List(c) \/ NewOrg(c) \/ Require(c))
    BY <1>1, <2>3, NewUserIs, NewMembershipIs, LookIs, CookieIs, JoinIs,
       SwapIs, MirrorIs, UnbindIs, NewKeyIs, UnkeyIs DEF Step, Ends, Goes
  <2>4. QED BY <2>1, <2>2, <2>3
<1>8. call'[c].pc = "bind" => Look(c)
  <2>1. CASE List(c) \/ NewOrg(c)
    BY <1>1, <2>1, ListIs, NewOrgIs DEF Ends, Goes
  <2>2. CASE Require(c)
    BY <1>1, <2>2, RequireIs DEF Ends, Goes
  <2>3. CASE ~ (List(c) \/ NewOrg(c) \/ Require(c))
    BY <1>1, <2>3, NewUserIs, NewMembershipIs, BindIs, CookieIs, JoinIs, LookIs,
       SwapIs, MirrorIs, UnbindIs, NewKeyIs, UnkeyIs DEF Step, Ends, Goes
  <2>4. QED BY <2>1, <2>2, <2>3
<1>9. \A d \in Calls : Stands(d, <<o, Agent>>, "key")' =>
        Stands(d, <<o, Agent>>, "key") \/ RowsOf(o, Agent)' # {}
  <2>1. ASSUME Stands(c, <<o, Agent>>, "key")'
        PROVE  RowsOf(o, Agent)' # {}
    <3>1. Bind(c)
      BY <1>7, <2>1 DEF Stands
    <3>2. Goes(c, "key")
      BY <1>1, <2>1, <3>1, BindIs, EndedIs
    <3>3. Target(c) = <<o, Agent>>
      BY <2>1, <3>2 DEF Goes, Stands, Target
    <3>4. QED BY <1>3, <3>1, <3>3, BindRows
  <2>2. QED BY <1>4, <2>1 DEF Stands, Target
<1>10. \A d \in Calls : Stands(d, <<o, Agent>>, "bind")' =>
           \/ call'[d].seen \subseteq bindings'
           \/ /\ Stands(d, <<o, Agent>>, "bind") /\ call'[d].seen = call[d].seen
              /\ call[d].seen \subseteq bindings => call[d].seen \subseteq RowsOf(o, Agent)
  <2>1. ASSUME NEW d \in Calls, Stands(d, <<o, Agent>>, "bind")', d # c
        PROVE  /\ Stands(d, <<o, Agent>>, "bind") /\ call'[d].seen = call[d].seen
               /\ call[d].seen \subseteq bindings => call[d].seen \subseteq RowsOf(o, Agent)
    <3>1. Stands(d, <<o, Agent>>, "bind") /\ call'[d].seen = call[d].seen
      BY <1>4, <2>1 DEF Stands, Target
    <3>2. Placed(call[d]) /\ Target(d) = <<o, Agent>>
      BY <3>1 DEF Steady, Busy, Stands
    <3>3. QED BY <3>1, <3>2, SeenRows
  <2>2. ASSUME Stands(c, <<o, Agent>>, "bind")'
        PROVE  call'[c].seen \subseteq bindings'
    <3>1. Look(c)
      BY <1>8, <2>2 DEF Stands
    <3>2. call'[c].seen = RowsOf(call[c].org, call[c].who) /\ bindings' = bindings
      BY <1>1, <3>1, LookIs
    <3>3. QED BY <3>2 DEF RowsOf
  <2>3. QED BY <2>1, <2>2
<1>11. QED BY <1>1, <1>3, <1>5, <1>6, <1>9, <1>10, AgentStays

----------------------------------------------------------------------------
(* Requests that begin, handlers that are cut short.                       *)
LEMMA StepKeeps ==
  ASSUME MembersTyped, MembersKept, NEW c \in Calls, Step(c)
  PROVE  MembersTyped' /\ MembersKept'
<1>1. Steady
  BY DEF Steady, MembersKept
<1>2. MembersTyped' /\ Grown /\ Moves(c)
  BY <1>1, StepTyped
<1>3. (\A d \in Calls : Busy(d) => Placed(call[d]))'
  BY <1>1, <1>2, StepPlaced, AllPlaced DEF MembersKept
<1>4. Admitted'
  BY <1>1, StepAdmits
<1>5. \A e \in Emails : OwnKept(e)'
  BY <1>1, StepOwn DEF MembersKept
<1>6. \A pair \in Orgs \X Emails : OneGrant(pair)' /\ RoleKept(pair)'
  BY <1>1, StepGrant, StepRole DEF MembersKept
<1>7. \A o \in Orgs : AgentKept(o)'
  BY <1>1, StepAgent DEF MembersKept
<1>8. QED BY <1>2, <1>3, <1>4, <1>5, <1>6, <1>7 DEF MembersKept

LEMMA ArriveKeeps ==
  ASSUME MembersTyped, MembersKept, NEW c \in Calls, Arrive(c)
  PROVE  MembersTyped' /\ MembersKept'
<1>1. PICK s \in Handlers : Begin(c, s) /\ Arrival(s) /\ uses' \in Nat
  BY Arrives DEF MembersKept
<1>2. /\ call[c].pc = "idle" /\ Moves(c) /\ call'[c] = s
      /\ UNCHANGED <<orgs, users, member, bindings, keys, cached, sessions, cuts, own>>
      /\ crossed \subseteq crossed' /\ doubled \subseteq doubled'
      /\ s.op = "revoke" => <<s.org, s.who>> \in crossed'
      /\ s.op = "grant" => \/ <<s.org, s.who>> \in crossed'
                           \/ \A d \in Calls : ~ Granting(d, <<s.org, s.who>>)
      /\ s.op = "login" => s.as \in doubled' \/ \A d \in Calls : ~ SignsIn(d, s.as)
  BY <1>1, BeginIs
<1>3. \A d \in Calls : d # c => call'[d] = call[d]
  BY <1>2 DEF Moves
<1>4. MembersTyped' /\ Grown
  BY <1>1, <1>2 DEF MembersTyped, Moves, Grown, Created, Bound, Handlers
<1>5. (\A d \in Calls : Busy(d) => Placed(call[d]))'
  <2>1. Placed(s)'
    BY <1>1, <1>2, ArrivalPlaced
  <2>2. Placed(call[c])'
    BY <1>2, <2>1 DEF Placed
  <2>3. QED BY <1>2, <1>4, <2>2, AllPlaced DEF MembersKept
<1>6. Admitted'
  BY <1>2 DEF MembersKept, Admitted
<1>7. ASSUME NEW e \in Emails
      PROVE  OwnKept(e)'
  <2>1. OwnKept(e) /\ ~ SignsIn(c, e)
    BY <1>2 DEF MembersKept, SignsIn, Busy
  <2>2. \A d \in Calls : d # c => (SignsIn(d, e)' <=> SignsIn(d, e))
    BY <1>3 DEF SignsIn, Busy
  <2>3. CASE SignsIn(c, e)'
    <3>1. SUFFICES ASSUME e \notin doubled'
                   PROVE  OwnKept(e)'
      BY DEF OwnKept
    <3>2. s.op = "login" /\ s.as = e
      BY <1>2, <2>3 DEF SignsIn
    <3>3. \A d \in Calls : ~ SignsIn(d, e)
      BY <1>2, <3>1, <3>2
    <3>4. \A d \in Calls : SignsIn(d, e)' => d = c
      BY <2>2, <3>3
    <3>5. s.pc = "list"
      BY <1>1, <3>2 DEF Arrival
    <3>6. e \notin doubled
      BY <1>2, <3>1
    <3>7. (\A o, p \in own[e] : o = p) /\ (\A o \in own[e] : <<o, e>> \in users)
      BY <2>1, <3>3, <3>6 DEF OwnKept
    <3>8. QED BY <1>2, <3>4, <3>5, <3>7 DEF OwnKept
  <2>4. CASE ~ SignsIn(c, e)'
    BY <1>2, <1>3, <2>1, <2>2, <2>4, OwnStays
  <2>5. QED BY <2>3, <2>4
<1>8. ASSUME NEW pair \in Orgs \X Emails
      PROVE  OneGrant(pair)'
  <2>1. OneGrant(pair)
    BY DEF MembersKept
  <2>2. \A d \in Calls : d # c => (Granting(d, pair)' => Granting(d, pair))
    BY <1>3 DEF Granting, Busy, Target
  <2>3. CASE Granting(c, pair)'
    <3>1. s.op = "grant" /\ <<s.org, s.who>> = pair
      BY <1>2, <2>3 DEF Granting, Target
    <3>2. pair \in crossed' \/ \A d \in Calls : ~ Granting(d, pair)
      BY <1>2, <3>1
    <3>3. pair \in crossed' \/ \A d \in Calls : Granting(d, pair)' => d = c
      BY <2>2, <3>2
    <3>4. QED BY <3>3 DEF OneGrant
  <2>4. CASE ~ Granting(c, pair)'
    BY <1>2, <2>1, <2>2, <2>4, GrantStays
  <2>5. QED BY <2>3, <2>4
<1>9. ASSUME NEW pair \in Orgs \X Emails
      PROVE  RoleKept(pair)'
  <2>1. RoleKept(pair) /\ ~ Bears(c, pair)
    BY <1>2 DEF MembersKept, Bears
  <2>2. ~ Stands(c, pair, "mirror")'
    BY <1>1, <1>2 DEF Arrival, Stands
  <2>3. PICK o \in Orgs, e \in Emails : pair = <<o, e>>
    OBVIOUS
  <2>4. RolesOf(o, e)' = RolesOf(o, e)
    BY <1>2 DEF RolesOf, RowsOf
  <2>5. RolesOf(pair[1], pair[2])' = RolesOf(pair[1], pair[2])
    BY <2>3, <2>4
  <2>6. QED BY <1>2, <1>3, <2>1, <2>2, <2>5, RoleStays
<1>10. ASSUME NEW o \in Orgs
       PROVE  AgentKept(o)'
  <2>1. AgentKept(o) /\ RowsOf(o, Agent)' = RowsOf(o, Agent)
    BY <1>2 DEF MembersKept, RowsOf
  <2>2. SUFFICES ASSUME <<o, Agent>> \notin crossed'
                 PROVE  AgentKept(o)'
    BY DEF AgentKept
  <2>3. \A d \in Calls : d # c => (\A pc : Stands(d, <<o, Agent>>, pc)' <=> Stands(d, <<o, Agent>>, pc))
    BY <1>3 DEF Stands, Target
  <2>4. ~ Stands(c, <<o, Agent>>, "bind")'
    BY <1>1, <1>2 DEF Arrival, Stands
  <2>5. Stands(c, <<o, Agent>>, "key")' => o \in cached
    BY <1>1, <1>2 DEF Arrival, Stands, Target
  <2>6. <<o, Agent>> \notin crossed
    BY <1>2, <2>2
  <2>7. QED BY <1>2, <1>3, <2>1, <2>3, <2>4, <2>5, <2>6 DEF AgentKept
<1>11. QED BY <1>4, <1>5, <1>6, <1>7, <1>8, <1>9, <1>10 DEF MembersKept

LEMMA CutKeeps ==
  ASSUME MembersTyped, MembersKept, NEW cs \in SUBSET Calls, CutShort(cs),
         cached' = cached \/ cached' = {}
  PROVE  MembersTyped' /\ MembersKept'
<1>1. /\ call' \in [Calls -> Handlers]
      /\ \A d \in cs : call'[d].pc = "done"
      /\ \A d \in Calls \ cs : call'[d] = call[d]
      /\ UNCHANGED <<orgs, users, member, bindings, keys, uses, sessions, own>>
      /\ cuts' \in Nat
      /\ crossed \subseteq crossed' /\ doubled \subseteq doubled'
      /\ \A d \in cs : /\ call[d].who \in Emails => Target(d) \in crossed'
                       /\ call[d].op = "login" => call[d].as \in doubled'
  BY CutIs
<1>2. MembersTyped' /\ Grown
  BY <1>1 DEF MembersTyped, Grown, Created, Bound, Handlers
<1>3. (\A d \in Calls : Busy(d) => Placed(call[d]))'
  <2>1. ASSUME NEW d \in Calls, Busy(d)'
        PROVE  Placed(call[d])'
    <3>1. d \notin cs
      BY <1>1, <2>1 DEF Busy
    <3>2. PICK s : s = call[d] /\ call'[d] = s
      BY <1>1, <3>1
    <3>3. Placed(s)
      BY <2>1, <3>2 DEF Busy, MembersKept
    <3>4. Placed(s)'
      BY <1>2, <3>3, PlacedStays
    <3>5. QED BY <3>2, <3>4 DEF Placed
  <2>2. QED BY <2>1
<1>4. Admitted'
  BY <1>1 DEF MembersKept, Admitted
<1>5. ASSUME NEW e \in Emails
      PROVE  OwnKept(e)'
  <2>1. OwnKept(e)
    BY DEF MembersKept
  <2>2. \A d \in Calls : SignsIn(d, e)' => SignsIn(d, e) /\ call'[d] = call[d]
    BY <1>1 DEF SignsIn, Busy
  <2>3. \A d \in Calls : e \notin doubled' /\ SignsIn(d, e) =>
          SignsIn(d, e)' /\ call'[d] = call[d]
    BY <1>1 DEF SignsIn, Busy
  <2>4. QED BY <1>1, <2>1, <2>2, <2>3, OwnStays
<1>6. ASSUME NEW pair \in Orgs \X Emails
      PROVE  OneGrant(pair)'
  <2>1. \A d \in Calls : Granting(d, pair)' => Granting(d, pair)
    BY <1>1 DEF Granting, Busy, Target
  <2>2. QED BY <1>1, <2>1, GrantStays DEF MembersKept
<1>7. ASSUME NEW pair \in Orgs \X Emails
      PROVE  RoleKept(pair)'
  <2>1. PICK o \in Orgs, e \in Emails : pair = <<o, e>>
    OBVIOUS
  <2>2. RolesOf(o, e)' = RolesOf(o, e)
    BY <1>1 DEF RolesOf, RowsOf
  <2>3. \A d \in Calls : pair \notin crossed' =>
           \/ call'[d] = call[d]
           \/ ~ Bears(d, pair) /\ ~ Stands(d, pair, "mirror")'
    BY <1>1, <2>1 DEF Bears, Stands, Target
  <2>4. RolesOf(pair[1], pair[2])' = RolesOf(pair[1], pair[2])
    BY <2>1, <2>2
  <2>5. QED BY <1>1, <2>3, <2>4, RoleStays DEF MembersKept
<1>8. ASSUME NEW o \in Orgs
      PROVE  AgentKept(o)'
  <2>1. AgentKept(o) /\ RowsOf(o, Agent) \subseteq bindings'
    BY <1>1 DEF MembersKept, RowsOf
  <2>2. \A d \in Calls, pc \in {"key", "bind"} :
          Stands(d, <<o, Agent>>, pc)' => Stands(d, <<o, Agent>>, pc) /\ call'[d] = call[d]
    BY <1>1 DEF Stands, Target
  <2>3. \A d \in Calls : Stands(d, <<o, Agent>>, "bind") =>
          (call[d].seen \subseteq bindings => call[d].seen \subseteq RowsOf(o, Agent))
    BY SeenRows DEF MembersKept, Stands, Busy
  <2>4. QED BY <1>1, <2>1, <2>2, <2>3, AgentStays
<1>9. QED BY <1>2, <1>3, <1>4, <1>5, <1>6, <1>7, <1>8 DEF MembersKept

LEMMA StutterKeeps ==
  ASSUME MembersTyped, MembersKept, UNCHANGED membersVars
  PROVE  MembersTyped' /\ MembersKept'
<1>1. /\ UNCHANGED <<orgs, users, member, bindings, keys, uses, cached, sessions, call, cuts>>
      /\ UNCHANGED <<own, crossed, doubled>>
  BY DEF membersVars, rows, history
<1>2. MembersTyped'
  BY <1>1 DEF MembersTyped, Created, Bound, Handlers
<1>3. (\A c \in Calls : Busy(c) => Placed(call[c]))' /\ Admitted'
  BY <1>1 DEF MembersKept, Busy, Placed, Created, Admitted
<1>4. (\A e \in Emails : OwnKept(e))'
  BY <1>1 DEF MembersKept, OwnKept, SignsIn, Busy
<1>5. (\A pair \in Orgs \X Emails : OneGrant(pair) /\ RoleKept(pair))'
  BY <1>1 DEF MembersKept, OneGrant, Granting, RoleKept, Stands, WillBind, RolesOf, RowsOf, Busy, Target
<1>6. (\A o \in Orgs : AgentKept(o))'
  BY <1>1 DEF MembersKept, AgentKept, Stands, RowsOf, Target
<1>7. QED BY <1>2, <1>3, <1>4, <1>5, <1>6 DEF MembersKept

LEMMA MembersStart ==
  ASSUME MembersInit
  PROVE  MembersTyped /\ MembersKept
<1>1. PICK s : s = Resting("idle")
  OBVIOUS
<1>2. s \in Handlers /\ s.pc = "idle"
  BY <1>1, AskedIs DEF Resting, Asked, MemberPlaces
<1>3. call = [c \in Calls |-> s]
  BY <1>1 DEF MembersInit
<1>4. \A c \in Calls : call[c].pc = "idle"
  BY <1>2, <1>3
<1>5. MembersTyped
  <2>1. orgs \in Seq(Orgs) /\ Created = {Home}
    BY NobodyElse DEF MembersInit, Created
  <2>2. bindings \in SUBSET Bound
    BY NobodyElse DEF MembersInit, Bound, Principals, Roles
  <2>3. member \in [Orgs \X Emails -> Roles \cup {Nobody}]
    BY DEF MembersInit, Roles
  <2>4. QED BY <1>2, <1>3, <2>1, <2>2, <2>3, NobodyElse, BoundsAreNumbers DEF MembersInit, MembersTyped
<1>6. \A c \in Calls : ~ Busy(c)
  BY <1>4 DEF Busy
<1>7. Admitted
  BY DEF MembersInit, Admitted
<1>8. \A e \in Emails : OwnKept(e)
  BY <1>6 DEF OwnKept, SignsIn, MembersInit
<1>9. ASSUME NEW pair \in Orgs \X Emails
      PROVE  OneGrant(pair) /\ RoleKept(pair)
  <2>1. OneGrant(pair)
    BY <1>6 DEF OneGrant, Granting
  <2>2. \A c \in Calls : ~ Stands(c, pair, "mirror")
    BY <1>4 DEF Stands
  <2>3. member[<<Home, Founder>>] = "org_owner" /\ "org_owner" # Nobody
    BY NobodyIsNothing, NobodyElse DEF MembersInit
  <2>4. pair # <<Home, Founder>> => member[pair] = Nobody /\ pair \notin users
    BY DEF MembersInit
  <2>5. "org_owner" \in RolesOf(Home, Founder)
    <3>1. PICK b \in bindings : b.org = Home /\ b.who = Founder /\ b.role = "org_owner"
      BY DEF MembersInit
    <3>2. b \in RowsOf(Home, Founder)
      BY <3>1 DEF RowsOf
    <3>3. QED BY <3>1, <3>2 DEF RolesOf
  <2>6. CASE pair = <<Home, Founder>>
    <3>1. RolesOf(pair[1], pair[2]) = RolesOf(Home, Founder)
      BY <2>6
    <3>2. member[pair] # Nobody /\ member[pair] \in RolesOf(pair[1], pair[2])
      BY <2>3, <2>5, <2>6, <3>1
    <3>3. QED BY <2>1, <2>2, <3>2 DEF RoleKept
  <2>7. CASE pair # <<Home, Founder>>
    <3>1. member[pair] = Nobody /\ pair \notin users
      BY <2>4, <2>7
    <3>2. QED BY <2>1, <2>2, <3>1 DEF RoleKept
  <2>8. QED BY <2>1, <2>6, <2>7
<1>10. \A o \in Orgs : AgentKept(o)
  BY <1>4 DEF AgentKept, Stands, MembersInit
<1>11. QED BY <1>5, <1>6, <1>7, <1>8, <1>9, <1>10 DEF MembersKept

LEMMA MembersAlways == MembersSpec => [](MembersTyped /\ MembersKept)
<1>1. ASSUME MembersTyped /\ MembersKept, [MembersNext]_membersVars
      PROVE  (MembersTyped /\ MembersKept)'
  <2>1. CASE \E c \in Calls : Arrive(c) \/ Step(c)
    BY <1>1, <2>1, ArriveKeeps, StepKeeps
  <2>2. CASE \E c \in Calls : Raise(c)
    <3>1. PICK c \in Calls : CutShort({c}) /\ cached' = cached
      BY <2>2 DEF Raise
    <3>2. {c} \in SUBSET Calls
      OBVIOUS
    <3>3. QED BY <1>1, <3>1, <3>2, CutKeeps
  <2>3. CASE Restart
    <3>1. PICK cs \in SUBSET Calls : CutShort(cs) /\ cached' = {}
      BY <2>3 DEF Restart
    <3>2. QED BY <1>1, <3>1, CutKeeps
  <2>4. CASE UNCHANGED membersVars
    BY <1>1, <2>4, StutterKeeps
  <2>5. QED BY <1>1, <2>1, <2>2, <2>3, <2>4 DEF MembersNext
<1>2. QED BY <1>1, MembersStart, PTL DEF MembersSpec

----------------------------------------------------------------------------
(* What it is for.                                                         *)
LEMMA RestingMember ==
  ASSUME MembersTyped, MembersKept, NEW pair \in users, AtRest(pair), pair \notin crossed
  PROVE  member[pair] # Nobody /\ member[pair] \in RolesOf(pair[1], pair[2])
<1>1. pair \in Orgs \X Emails
  BY CreatedIs DEF MembersTyped
<1>2. \A c \in Calls, pc \in {"membership", "mirror", "look", "bind"} : ~ Stands(c, pair, pc)
  BY DEF AtRest, Changing, Stands, Busy
<1>3. \A c \in Calls : ~ WillBind(c, pair)
  BY <1>2 DEF WillBind
<1>4. RoleKept(pair)
  BY <1>1 DEF MembersKept
<1>5. QED BY <1>2, <1>3, <1>4 DEF RoleKept

(* The role the People page shows is one the permission check finds, when  *)
(* nobody is changing the roles of the member (admin/service.py, and the   *)
(* signup of identity/provisioning.py): unless two grants overlapped, a    *)
(* handler that changed the roles was cut short, or a role was revoked.    *)
THEOREM MembershipsMatch == MembersSpec => []MembershipMatches
<1>1. MembersTyped /\ MembersKept => MembershipMatches
  BY RestingMember DEF MembershipMatches
<1>2. QED BY <1>1, MembersAlways, PTL

(* A sign-in finds the organisation an earlier one has made, and none makes*)
(* a second for its person (server/console.py, login_verify): unless two   *)
(* sign-ins of the person overlapped or one was cut short.                 *)
THEOREM OneOrgEach == MembersSpec => []OneOwnOrg
<1>1. ASSUME MembersKept
      PROVE  OneOwnOrg
  <2>1. SUFFICES ASSUME NEW e \in Emails \ doubled
                 PROVE  Cardinality(own[e]) <= 1
    BY DEF OneOwnOrg
  <2>2. \A o, p \in own[e] : o = p
    BY <1>1, <2>1 DEF MembersKept, OwnKept
  <2>3. own[e] = {} \/ \E o : own[e] = {o}
    BY <2>2
  <2>4. Cardinality(own[e]) = 0 \/ Cardinality(own[e]) = 1
    BY <2>3, FS_EmptySet, FS_Singleton
  <2>5. QED BY <2>4
<1>2. QED BY <1>1, MembersAlways, PTL

(* Whoever has a cookie or a key that works has a role it can act with in  *)
(* its organisation (server/console.py, server/token_api.py): unless the   *)
(* handler that made them a member was cut short, or the role was revoked. *)
THEOREM AdmittedMayAct == MembersSpec => []AdmittedCanAct
<1>1. ASSUME MembersTyped, MembersKept
      PROVE  AdmittedCanAct
  <2>1. ASSUME NEW pair \in users
        PROVE  CanAct(pair)
    BY <1>1, <2>1, RestingMember DEF CanAct
  <2>2. ASSUME NEW s \in sessions
        PROVE  <<s[2], s[1]>> \in users
    BY <1>1, <2>2 DEF MembersKept, Admitted
  <2>3. ASSUME NEW k \in keys
        PROVE  CanAct(<<k.org, k.who>>)
    <3>1. CASE <<k.org, k.who>> \in users
      BY <2>1, <3>1
    <3>2. CASE k.who = Agent
      <4>1. k.org \in Orgs
        BY <1>1 DEF MembersTyped
      <4>2. <<k.org, Agent>> \notin crossed => RowsOf(k.org, Agent) # {}
        BY <1>1, <3>2, <4>1 DEF MembersKept, AgentKept
      <4>3. RowsOf(k.org, Agent) # {} => RolesOf(k.org, Agent) # {}
        BY DEF RolesOf
      <4>4. QED BY <3>2, <4>2, <4>3 DEF CanAct
    <3>3. QED BY <1>1, <3>1, <3>2 DEF MembersKept, Admitted
  <2>4. QED BY <2>1, <2>2, <2>3 DEF AdmittedCanAct
<1>2. QED BY <1>1, MembersAlways, PTL
=============================================================================
