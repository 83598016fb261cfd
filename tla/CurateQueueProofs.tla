------------------------- MODULE CurateQueueProofs -------------------------
(***************************************************************************)
(* Proofs about CurateQueue and, from "Documents" on, about VersionedDocs: *)
(* the pages of the one are the documents of the other, but their theorems *)
(* do not meet; each is of the specification it names.                     *)
(***************************************************************************)
EXTENDS CurateQueue, VersionedDocs, SequenceTheorems, WellFoundedInduction,
        FiniteSetTheorems, TLAPS

----------------------------------------------------------------------------
(* Type correctness.                                                       *)

Marks == Marking \cup NextMark \cup {Resting}
Cares == Curating \cup {Waiting}

(* A distill worker that turns to the rest of its job.                     *)
LEMMA TurnTyped ==
  ASSUME CurateTypeOK, NEW d \in Distillers, NEW left \in SUBSET Batches, Turn(d, left)
  PROVE  distiller' \in [Distillers -> Marks]
<1> DEFINE l == IF left = {} THEN Resting
                ELSE [pc |-> "incr", batch |-> None, todo |-> left]
<1>1. l \in Marks
  <2>1. CASE left = {}
    BY <2>1 DEF Marks
  <2>2. CASE left # {}
    <3>1. [pc |-> "incr", batch |-> None, todo |-> left] \in NextMark
      BY <2>2 DEF NextMark
    <3>2. QED BY <2>2, <3>1 DEF Marks
  <2>3. QED BY <2>1, <2>2
<1>2. distiller' = [distiller EXCEPT ![d] = l]
  BY DEF Turn
<1> HIDE DEF l
<1>3. QED BY <1>1, <1>2 DEF CurateTypeOK, Marks

(* What a busy worker holds.                                               *)
LEMMA MarkTyped ==
  ASSUME CurateTypeOK, NEW d \in Distillers
  PROVE  /\ distiller[d] \in Marks
         /\ distiller[d].todo \in SUBSET Batches
         /\ distiller[d].pc \in {"delete", "sadd", "rpush"} =>
              distiller[d] \in Marking
BY DEF CurateTypeOK, Marks, Marking, NextMark, Resting

LEMMA UnmarkedTyped ==
  ASSUME CurateTypeOK, NEW d \in Distillers
  PROVE  Unmarked(d) \subseteq Batches
<1>1. distiller[d].todo \subseteq Batches /\ distiller[d] \in Marks
  BY MarkTyped
<1>2. distiller[d].batch \in Batches \cup {None}
  BY <1>1 DEF Marks, Marking, NextMark, Resting
<1>3. QED BY <1>1, <1>2 DEF Unmarked

LEMMA CareTyped ==
  ASSUME CurateTypeOK, NEW c \in Curators, curator[c].pc # "idle"
  PROVE  curator[c] \in Curating /\ curator[c].job \in Job
<1>1. curator[c] \in Curating \cup {Waiting}
  BY DEF CurateTypeOK
<1>2. Waiting.pc = "idle"
  BY DEF Waiting
<1>3. curator[c] \in Curating
  BY <1>1, <1>2
<1>4. QED BY <1>3 DEF Curating

(* The distill worker keeps the types.                                     *)
LEMMA DistillerTyped ==
  ASSUME CurateTypeOK, NEW d \in Distillers,
         Ingest(d) \/ DistillerStep(d) \/ MarkFails(d) \/ DistillerCrash(d)
  PROVE  CurateTypeOK'
<1>1. CASE Ingest(d)
  <2>1. PICK B \in (SUBSET (Batches \ facts)) \ {{}} :
          /\ facts' = facts \cup B
          /\ distiller' = [distiller EXCEPT ![d] =
                             [pc |-> "incr", batch |-> None, todo |-> B]]
    BY <1>1 DEF Ingest
  <2> DEFINE l == [pc |-> "incr", batch |-> None, todo |-> B]
  <2>2. l \in Marks
    BY DEF Marks, NextMark
  <2> HIDE DEF l
  <2>3. distiller' \in [Distillers -> Marks]
    BY <2>1, <2>2 DEF CurateTypeOK, Marks, l
  <2>4. QED BY <1>1, <2>1, <2>3 DEF Ingest, CurateTypeOK, redis, Marks
<1>2. CASE Count(d)
  <2>1. PICK b \in distiller[d].todo :
          /\ counted' = [counted EXCEPT ![Subject[b]] = @ \cup {b}]
          /\ \/ Turn(d, distiller[d].todo \ {b})
             \/ distiller' = [distiller EXCEPT ![d] =
                  [pc |-> "delete", batch |-> b, todo |-> distiller[d].todo \ {b}]]
    BY <1>2 DEF Count
  <2>2. b \in Batches /\ distiller[d].todo \ {b} \in SUBSET Batches
    BY <2>1, MarkTyped
  <2> DEFINE l == [pc |-> "delete", batch |-> b, todo |-> distiller[d].todo \ {b}]
  <2>3. l \in Marks
    BY <2>2 DEF Marks, Marking
  <2> HIDE DEF l
  <2>4. distiller' \in [Distillers -> Marks]
    BY <2>1, <2>2, <2>3, TurnTyped DEF CurateTypeOK, Marks, l
  <2>5. counted' \in [Subjects -> SUBSET Batches]
    BY <2>1, <2>2, SubjectAssumption DEF CurateTypeOK
  <2>6. QED BY <1>2, <2>4, <2>5 DEF Count, CurateTypeOK, database, Marks
<1>3. CASE Reset(d) \/ SetPending(d) \/ Push(d)
  <2>1. distiller[d] \in Marking /\ Subject[distiller[d].batch] \in Subjects
    BY <1>3, MarkTyped, SubjectAssumption DEF Reset, SetPending, Push, Marking
  <2>2. [distiller[d] EXCEPT !.pc = "sadd"] \in Marks
    BY <2>1 DEF Marks, Marking
  <2>3. [distiller[d] EXCEPT !.pc = "rpush"] \in Marks
    BY <2>1 DEF Marks, Marking
  <2>4. distiller' \in [Distillers -> Marks]
    BY <1>3, <2>2, <2>3, TurnTyped, MarkTyped
    DEF Reset, SetPending, Push, CurateTypeOK, Marks
  <2>5. /\ counted' \in [Subjects -> SUBSET Batches] /\ pending' \subseteq Subjects
        /\ UNCHANGED <<dead, database, curator>>
    BY <1>3, <2>1 DEF Reset, SetPending, Push, CurateTypeOK
  <2>6. queue' \in Seq(Job)
    <3>1. CASE Push(d)
      <4>1. PICK sig \in Signatures :
              queue' = Append(queue, [subject |-> Subject[distiller[d].batch],
                                      attempts |-> 0, sig |-> sig])
        BY <3>1 DEF Push
      <4>2. [subject |-> Subject[distiller[d].batch], attempts |-> 0, sig |-> sig] \in Job
        <5>1. sig \in {"good", "bad"}
          BY SignaturesAssumption
        <5>2. QED BY <2>1, <5>1 DEF Job
      <4>3. QED BY <4>1, <4>2 DEF CurateTypeOK
    <3>2. CASE Reset(d) \/ SetPending(d)
      BY <3>2 DEF Reset, SetPending, CurateTypeOK
    <3>3. QED BY <1>3, <3>1, <3>2
  <2>7. QED BY <2>4, <2>5, <2>6 DEF CurateTypeOK, database, Marks
<1>4. CASE MarkFails(d)
  <2>1. PICK b \in Unmarked(d) : /\ harmed' = harmed \cup {Subject[b]}
                                 /\ Turn(d, distiller[d].todo \ {b})
    BY <1>4 DEF MarkFails
  <2>2. b \in Batches
    BY UnmarkedTyped
  <2>3. distiller' \in [Distillers -> Marks]
    BY <2>1, MarkTyped, TurnTyped
  <2>4. harmed' \subseteq Subjects
    BY <2>1, <2>2, SubjectAssumption DEF CurateTypeOK
  <2>5. QED BY <1>4, <2>3, <2>4 DEF MarkFails, CurateTypeOK, redis, Marks
<1>5. CASE DistillerCrash(d)
  <2>1. Unmarked(d) \subseteq Batches
    BY UnmarkedTyped
  <2>2. harmed' \subseteq Subjects
    BY <1>5, <2>1, SubjectAssumption DEF DistillerCrash, CurateTypeOK
  <2>3. distiller' \in [Distillers -> Marks]
    BY <1>5 DEF DistillerCrash, CurateTypeOK, Marks
  <2>4. QED BY <1>5, <2>2, <2>3 DEF DistillerCrash, CurateTypeOK, redis, Marks
<1>6. QED BY <1>1, <1>2, <1>3, <1>4, <1>5 DEF DistillerStep

(* A requeued job stays a job.                                             *)
LEMMA RequeueTyped ==
  ASSUME CurateTypeOK, NEW job \in Job, Requeue(job)
  PROVE  queue' \in Seq(Job) /\ dead' \in Seq(Job)
<1> DEFINE again == [job EXCEPT !.attempts = @ + 1]
<1>1. again \in Job
  BY DEF Job
<1>2. \/ dead' = Append(dead, again) /\ queue' = queue
      \/ queue' = Append(queue, again) /\ dead' = dead
  BY DEF Requeue
<1> HIDE DEF again
<1>3. queue \in Seq(Job) /\ dead \in Seq(Job)
  BY DEF CurateTypeOK
<1>4. CASE dead' = Append(dead, again) /\ queue' = queue
  BY <1>1, <1>3, <1>4
<1>5. CASE queue' = Append(queue, again) /\ dead' = dead
  BY <1>1, <1>3, <1>5
<1>6. QED BY <1>2, <1>4, <1>5

(* The curator keeps the types.                                            *)
LEMMA CuratorTyped ==
  ASSUME CurateTypeOK, NEW c \in Curators, CuratorStep(c) \/ CuratorCrash(c)
  PROVE  CurateTypeOK'
<1>1. CASE Pop(c)
  <2> DEFINE job == Head(queue)
             pc == IF job.sig = "good" THEN "clear" ELSE "reject"
             l == [curator[c] EXCEPT !.pc = pc, !.job = job]
  <2>1. job \in Job /\ Tail(queue) \in Seq(Job)
    BY <1>1 DEF Pop, CurateTypeOK
  <2>2. curator[c] = Waiting
    BY <1>1 DEF Pop, CurateTypeOK, Curating
  <2> HIDE DEF job, pc
  <2>3. l = [pc |-> pc, job |-> job, seen |-> {}, n |-> 0]
    <3>1. l = [Waiting EXCEPT !.pc = pc, !.job = job]
      BY <2>2
    <3> HIDE DEF l
    <3>2. QED BY <3>1 DEF Waiting
  <2>4. l \in Curating
    <3>1. pc \in {"clear", "reject"}
      BY DEF pc
    <3> HIDE DEF l
    <3>2. QED BY <2>1, <2>3, <3>1 DEF Curating
  <2>5. curator' = [curator EXCEPT ![c] = l]
    BY <1>1 DEF Pop, job, pc
  <2> HIDE DEF l
  <2>6. curator' \in [Curators -> Cares]
    BY <2>4, <2>5 DEF CurateTypeOK, Cares
  <2>7. queue' \in Seq(Job)
    BY <1>1, <2>1 DEF Pop
  <2>8. QED BY <1>1, <2>6, <2>7 DEF Pop, CurateTypeOK, database, Cares
<1>2. CASE Reject(c) \/ RejectClear(c) \/ Clear(c)
  <2>1. curator[c] \in Curating /\ curator[c].job \in Job
    BY <1>2, CareTyped DEF Reject, RejectClear, Clear
  <2>2. /\ [curator[c] EXCEPT !.pc = "reject clear"] \in Curating
        /\ [curator[c] EXCEPT !.pc = "read"] \in Curating
    BY <2>1 DEF Curating
  <2>3. curator' \in [Curators -> Cares]
    BY <1>2, <2>2 DEF Reject, RejectClear, Clear, CurateTypeOK, Cares
  <2>4. pending' \subseteq Subjects /\ UNCHANGED <<counted, queue, database, distiller>>
    BY <1>2 DEF Reject, RejectClear, Clear, CurateTypeOK
  <2>5. dead' = dead \/ dead' = Append(dead, curator[c].job)
    BY <1>2 DEF Reject, RejectClear, Clear
  <2>6. dead' \in Seq(Job)
    <3>1. dead \in Seq(Job)
      BY DEF CurateTypeOK
    <3>2. QED BY <2>1, <2>5, <3>1
  <2>7. QED BY <2>3, <2>4, <2>6 DEF CurateTypeOK, database, Cares
<1>3. CASE Read(c) \/ Number(c) \/ EmptyAnswer(c) \/ CuratorCrash(c)
  <2>1. curator[c] \in Curating /\ curator[c].job \in Job
    BY <1>3, CareTyped DEF Read, Number, EmptyAnswer, CuratorCrash
  <2> DEFINE about == facts \cap About(curator[c].job.subject)
             n == Len(page[curator[c].job.subject]) + 1
             l == [curator[c] EXCEPT !.pc = "ask", !.seen = about]
             k == [curator[c] EXCEPT !.pc = "insert", !.n = n]
  <2>2. about \in SUBSET Batches /\ n \in Nat
    BY <2>1 DEF CurateTypeOK, Job
  <2> HIDE DEF about, n
  <2>3. l \in Curating /\ k \in Curating
    BY <2>1, <2>2 DEF Curating
  <2>4. \/ curator' = [curator EXCEPT ![c] = l]
        \/ curator' = [curator EXCEPT ![c] = k]
        \/ curator' = [curator EXCEPT ![c] = Waiting]
    BY <1>3 DEF Read, Number, EmptyAnswer, CuratorCrash, about, n
  <2> HIDE DEF l, k
  <2>5. curator' \in [Curators -> Cares]
    BY <2>3, <2>4 DEF CurateTypeOK, Cares
  <2>6. /\ curated' \subseteq Batches /\ harmed' \subseteq Subjects
        /\ UNCHANGED <<redis, facts, page, distiller>>
    BY <1>3, <2>1
    DEF Read, Number, EmptyAnswer, CuratorCrash, CurateTypeOK, database, Curating, Job
  <2>7. QED BY <2>5, <2>6 DEF CurateTypeOK, redis, Cares
<1>4. CASE Insert(c) \/ FailJob(c)
  <2>1. curator[c] \in Curating /\ curator[c].job \in Job
    BY <1>4, CareTyped DEF Insert, FailJob
  <2>2. queue' \in Seq(Job) /\ dead' \in Seq(Job)
    <3>1. Requeue(curator[c].job) \/ UNCHANGED <<queue, dead>>
      BY <1>4 DEF Insert, FailJob
    <3>2. CASE Requeue(curator[c].job)
      BY <2>1, <3>2, RequeueTyped
    <3>3. CASE UNCHANGED <<queue, dead>>
      BY <3>3 DEF CurateTypeOK
    <3>4. QED BY <3>1, <3>2, <3>3
  <2>3. curator' \in [Curators -> Cares]
    BY <1>4 DEF Insert, FailJob, CurateTypeOK, Cares
  <2>4. curator[c].seen \in SUBSET Batches /\ curator[c].job.subject \in Subjects
    BY <2>1 DEF Curating, Job
  <2> DEFINE s == curator[c].job.subject
             v == curator[c].seen
  <2> HIDE DEF s, v
  <2>5. \/ UNCHANGED <<page, curated>>
        \/ /\ page' = [page EXCEPT ![s] = Append(@, v)]
           /\ curated' = curated \cup v
    BY <1>4 DEF Insert, FailJob, database, s, v
  <2>6. v \in SUBSET Batches /\ s \in Subjects
    BY <2>4 DEF s, v
  <2>7. page' \in [Subjects -> Seq(SUBSET Batches)] /\ curated' \subseteq Batches
    <3>1. page \in [Subjects -> Seq(SUBSET Batches)] /\ curated \subseteq Batches
      BY DEF CurateTypeOK
    <3>2. Append(page[s], v) \in Seq(SUBSET Batches)
      BY <2>6, <3>1
    <3>3. QED BY <2>5, <2>6, <3>1, <3>2
  <2>8. UNCHANGED <<counted, pending, facts, harmed, distiller>>
    BY <1>4 DEF Insert, FailJob, database
  <2>9. QED BY <2>2, <2>3, <2>7, <2>8 DEF CurateTypeOK, Cares
<1>5. QED BY <1>1, <1>2, <1>3, <1>4 DEF CuratorStep

LEMMA InitTyped == Init => CurateTypeOK
BY DEF Init, CurateTypeOK, Resting, Waiting

LEMMA ExpireTyped ==
  ASSUME CurateTypeOK, NEW s \in Subjects, ExpireCount(s)
  PROVE  CurateTypeOK'
BY DEF ExpireCount, CurateTypeOK

LEMMA StepTyped ==
  ASSUME CurateTypeOK, [Next]_vars
  PROVE  CurateTypeOK'
<1>1. CASE UNCHANGED vars
  BY <1>1 DEF vars, CurateTypeOK
<1>2. QED BY <1>1, DistillerTyped, CuratorTyped, ExpireTyped DEF Next

(* Every reachable state is well typed, for any number of workers and      *)
(* whatever faults happen.                                                 *)
THEOREM TypeCorrect == Spec => []CurateTypeOK
BY InitTyped, StepTyped, PTL DEF Spec

----------------------------------------------------------------------------
(* The invariant.  FactsAccounted is not inductive: what a curator has     *)
(* read must be about the subject of its job, which it gives back when it  *)
(* fails; a rejected subject must be in the dead letter before its flag    *)
(* goes; and a flag that makes SetPending pass over a subject must stand   *)
(* for a job (PendingHasJob).  That a quiet subject is curated needs the   *)
(* counter to stay below the threshold unless it is about to be deleted.   *)
ReadsItsSubject ==
  \A c \in Curators : curator[c].pc \in {"ask", "insert"} =>
    curator[c].seen \subseteq About(curator[c].job.subject)
RejectedIsDead ==
  \A c \in Curators : curator[c].pc = "reject clear" => Dead(curator[c].job.subject)
CounterFires ==
  \A s \in Subjects :
    \/ s \in harmed
    \/ Cardinality(counted[s]) < Threshold
    \/ Enqueuing(s, {"delete"})

CurateInv ==
  CurateTypeOK /\ PendingHasJob /\ ReadsItsSubject /\ RejectedIsDead /\ FactsAccounted

(* Queues of jobs.                                                         *)
Mentions(q, s) == \E i \in DOMAIN q : q[i].subject = s

LEMMA Appended ==
  ASSUME NEW q \in Seq(Job), NEW j \in Job, NEW s
  PROVE  Mentions(Append(q, j), s) <=> Mentions(q, s) \/ j.subject = s
<1>1. DOMAIN Append(q, j) = DOMAIN q \cup {Len(q) + 1}
  OBVIOUS
<1>2. Append(q, j)[Len(q) + 1] = j /\ \A i \in DOMAIN q : Append(q, j)[i] = q[i]
  OBVIOUS
<1>3. QED BY <1>1, <1>2 DEF Mentions

LEMMA Popped ==
  ASSUME NEW q \in Seq(Job), q # <<>>, NEW s, Mentions(q, s)
  PROVE  Mentions(Tail(q), s) \/ Head(q).subject = s
<1>1. PICK i \in DOMAIN q : q[i].subject = s
  BY DEF Mentions
<1>2. CASE i = 1
  BY <1>1, <1>2
<1>3. CASE i # 1
  <2>1. i - 1 \in DOMAIN Tail(q) /\ Tail(q)[i - 1] = q[i]
    BY <1>3
  <2>2. QED BY <1>1, <2>1 DEF Mentions
<1>4. QED BY <1>2, <1>3

LEMMA Mentioned ==
  /\ \A s : Queued(s) <=> Mentions(queue, s)
  /\ \A s : Dead(s) <=> Mentions(dead, s)
BY DEF Queued, Dead, Mentions

(* A requeued job is in the queue or in the dead letter.                   *)
LEMMA Requeued ==
  ASSUME CurateTypeOK, NEW job \in Job, Requeue(job)
  PROVE  /\ \A s : Queued(s) => Queued(s)'
         /\ \A s : Dead(s) => Dead(s)'
         /\ Queued(job.subject)' \/ Dead(job.subject)'
<1> DEFINE again == [job EXCEPT !.attempts = @ + 1]
<1>1. again \in Job /\ again.subject = job.subject
  BY DEF Job
<1>2. \/ dead' = Append(dead, again) /\ queue' = queue
      \/ queue' = Append(queue, again) /\ dead' = dead
  BY DEF Requeue
<1> HIDE DEF again
<1>3. queue \in Seq(Job) /\ dead \in Seq(Job)
  BY DEF CurateTypeOK
<1>4. CASE dead' = Append(dead, again) /\ queue' = queue
  <2>1. \A s : Mentions(dead', s) <=> Mentions(dead, s) \/ again.subject = s
    BY <1>1, <1>3, <1>4, Appended
  <2>2. QED BY <1>1, <1>4, <2>1 DEF Queued, Dead, Mentions
<1>5. CASE queue' = Append(queue, again) /\ dead' = dead
  <2>1. \A s : Mentions(queue', s) <=> Mentions(queue, s) \/ again.subject = s
    BY <1>1, <1>3, <1>5, Appended
  <2>2. QED BY <1>1, <1>5, <2>1 DEF Queued, Dead, Mentions
<1>6. QED BY <1>2, <1>4, <1>5

(* What a step of a curator leaves in the queue and in the dead letter.    *)
LEMMA CuratorQueues ==
  ASSUME CurateTypeOK, NEW c \in Curators, CuratorStep(c) \/ CuratorCrash(c)
  PROVE  /\ \A s : Dead(s) => Dead(s)'
         /\ \A s : Queued(s) => Queued(s)' \/ Holding(s, {"clear", "reject"})'
<1>1. CASE Pop(c)
  <2>1. queue \in Seq(Job) /\ curator \in [Curators -> Cares]
    BY DEF CurateTypeOK, Cares
  <2>2. queue # <<>> /\ queue' = Tail(queue) /\ dead' = dead
    BY <1>1 DEF Pop
  <2>3. curator'[c].pc \in {"clear", "reject"} /\ curator'[c].job = Head(queue)
    <3>1. curator[c] = Waiting
      BY <1>1 DEF Pop, CurateTypeOK, Curating
    <3>2. QED BY <1>1, <2>1, <3>1 DEF Pop, Waiting
  <2>4. ASSUME NEW s, Queued(s)
        PROVE  Queued(s)' \/ Holding(s, {"clear", "reject"})'
    <3>1. Mentions(Tail(queue), s) \/ Head(queue).subject = s
      BY <2>1, <2>2, <2>4, Popped, Mentioned
    <3>2. QED BY <2>2, <2>3, <3>1 DEF Queued, Mentions, Holding
  <2>5. QED BY <2>2, <2>4 DEF Dead
<1>2. CASE Reject(c)
  <2>1. dead \in Seq(Job) /\ curator[c].job \in Job
    BY <1>2, CareTyped DEF Reject, CurateTypeOK
  <2>2. dead' = Append(dead, curator[c].job) /\ queue' = queue
    BY <1>2 DEF Reject
  <2>3. \A s : Mentions(dead', s) <=> Mentions(dead, s) \/ curator[c].job.subject = s
    BY <2>1, <2>2, Appended
  <2>4. QED BY <2>2, <2>3 DEF Dead, Queued, Mentions
<1>3. CASE RejectClear(c) \/ Clear(c) \/ Read(c) \/ Number(c) \/ EmptyAnswer(c)
           \/ CuratorCrash(c)
  <2>1. UNCHANGED <<queue, dead>>
    BY <1>3 DEF RejectClear, Clear, Read, Number, EmptyAnswer, CuratorCrash, redis
  <2>2. QED BY <2>1 DEF Dead, Queued
<1>4. CASE Insert(c) \/ FailJob(c)
  <2>1. curator[c].job \in Job
    BY <1>4, CareTyped DEF Insert, FailJob
  <2>2. Requeue(curator[c].job) \/ UNCHANGED <<queue, dead>>
    BY <1>4 DEF Insert, FailJob
  <2>3. CASE Requeue(curator[c].job)
    BY <2>1, <2>3, Requeued
  <2>4. CASE UNCHANGED <<queue, dead>>
    BY <2>4 DEF Dead, Queued
  <2>5. QED BY <2>2, <2>3, <2>4
<1>5. QED BY <1>1, <1>2, <1>3, <1>4 DEF CuratorStep

----------------------------------------------------------------------------
(* The flag and its job.                                                   *)

(* A step of a distill worker leaves the curators and the dead letter      *)
(* alone, and takes nothing out of the queue.                              *)
LEMMA DistillerFrame ==
  ASSUME CurateTypeOK, NEW d \in Distillers,
         Ingest(d) \/ DistillerStep(d) \/ MarkFails(d) \/ DistillerCrash(d)
  PROVE  /\ UNCHANGED <<dead, curator, curated, page>>
         /\ \A e \in Distillers \ {d} : distiller'[e] = distiller[e]
         /\ harmed \subseteq harmed'
         /\ \A s : Queued(s) => Queued(s)'
<1>1. /\ UNCHANGED <<dead, curator, curated, page>>
      /\ \A e \in Distillers \ {d} : distiller'[e] = distiller[e]
      /\ harmed \subseteq harmed'
  BY DEF Ingest, DistillerStep, Count, Reset, SetPending, Push, MarkFails,
         DistillerCrash, Turn, redis, database, CurateTypeOK
<1>2. ASSUME NEW s, Queued(s) PROVE Queued(s)'
  <2>1. CASE Push(d)
    <3>1. distiller[d] \in Marking /\ Subject[distiller[d].batch] \in Subjects
      BY <2>1, MarkTyped, SubjectAssumption DEF Push, Marking
    <3>2. PICK sig \in Signatures :
            queue' = Append(queue, [subject |-> Subject[distiller[d].batch],
                                    attempts |-> 0, sig |-> sig])
      BY <2>1 DEF Push
    <3> DEFINE j == [subject |-> Subject[distiller[d].batch], attempts |-> 0, sig |-> sig]
    <3>3. j \in Job
      <4>1. sig \in {"good", "bad"}
        BY SignaturesAssumption
      <4>2. QED BY <3>1, <4>1 DEF Job
    <3> HIDE DEF j
    <3>4. queue \in Seq(Job) /\ queue' = Append(queue, j)
      BY <3>2 DEF CurateTypeOK, j
    <3>5. Mentions(queue', s)
      BY <1>2, <3>3, <3>4, Appended, Mentioned
    <3>6. QED BY <3>5 DEF Mentions, Queued
  <2>2. CASE ~Push(d)
    <3>1. queue' = queue
      BY <2>2 DEF Ingest, DistillerStep, Count, Reset, SetPending, MarkFails,
                  DistillerCrash, redis
    <3>2. QED BY <1>2, <3>1 DEF Queued
  <2>3. QED BY <2>1, <2>2
<1>3. QED BY <1>1, <1>2

(* The job a distill worker has pushed.                                    *)
LEMMA Pushed ==
  ASSUME CurateTypeOK, NEW d \in Distillers, Push(d),
         NEW s, s = Subject[distiller[d].batch]
  PROVE  Queued(s)'
<1>1. distiller[d] \in Marking /\ Subject[distiller[d].batch] \in Subjects
  BY MarkTyped, SubjectAssumption DEF Push, Marking
<1>2. PICK sig \in Signatures :
        queue' = Append(queue, [subject |-> Subject[distiller[d].batch],
                                attempts |-> 0, sig |-> sig])
  BY DEF Push
<1> DEFINE j == [subject |-> Subject[distiller[d].batch], attempts |-> 0, sig |-> sig]
<1>3. j \in Job /\ j.subject = Subject[distiller[d].batch]
  <2>1. sig \in {"good", "bad"}
    BY SignaturesAssumption
  <2>2. QED BY <1>1, <2>1 DEF Job
<1>4. queue' = Append(queue, j)
  BY <1>2 DEF j
<1> HIDE DEF j
<1>5. queue \in Seq(Job)
  BY DEF CurateTypeOK
<1>6. Mentions(queue', j.subject)
  BY <1>3, <1>4, <1>5, Appended
<1>7. Mentions(queue', s)
  BY <1>3, <1>6
<1>8. QED BY <1>7 DEF Mentions, Queued

LEMMA DistillerKeepsJob ==
  ASSUME CurateTypeOK, PendingHasJob, NEW d \in Distillers,
         Ingest(d) \/ DistillerStep(d) \/ MarkFails(d) \/ DistillerCrash(d)
  PROVE  PendingHasJob'
<1> SUFFICES ASSUME NEW s \in pending' \ harmed'
             PROVE  HasJob(s)'
  BY DEF PendingHasJob
<1>1. /\ UNCHANGED <<dead, curator, curated, page>>
      /\ \A e \in Distillers \ {d} : distiller'[e] = distiller[e]
      /\ harmed \subseteq harmed'
      /\ Queued(s) => Queued(s)'
  BY DistillerFrame
<1>2. \A pcs : Holding(s, pcs) => Holding(s, pcs)'
  BY <1>1 DEF Holding
<1>3. CASE s \notin pending
  <2>1. SetPending(d) /\ s = Subject[distiller[d].batch]
    BY <1>3 DEF Ingest, DistillerStep, Count, Reset, SetPending, Push, MarkFails,
                DistillerCrash, redis
  <2>2. distiller'[d].pc = "rpush" /\ distiller'[d].batch = distiller[d].batch
    <3>1. distiller' = [distiller EXCEPT ![d].pc = "rpush"]
      BY <1>3, <2>1 DEF SetPending
    <3>2. distiller[d] \in Marking /\ distiller \in [Distillers -> Marks]
      BY <2>1, MarkTyped DEF SetPending, CurateTypeOK, Marks
    <3>3. QED BY <3>1, <3>2 DEF Marking
  <2>3. QED BY <2>1, <2>2 DEF HasJob, Enqueuing
<1>4. CASE s \in pending
  <2>1. HasJob(s)
    BY <1>1, <1>4 DEF PendingHasJob
  <2>2. CASE Queued(s) \/ Holding(s, {"clear", "reject", "reject clear"})
    BY <1>1, <1>2, <2>2 DEF HasJob
  <2>3. CASE Enqueuing(s, {"rpush"})
    <3>1. PICK e \in Distillers :
            distiller[e].pc = "rpush" /\ Subject[distiller[e].batch] = s
      BY <2>3 DEF Enqueuing
    <3>2. CASE e # d
      BY <1>1, <3>1, <3>2 DEF HasJob, Enqueuing
    <3>3. CASE e = d /\ Push(d)
      BY <3>1, <3>3, Pushed DEF HasJob
    <3>4. CASE e = d /\ (MarkFails(d) \/ DistillerCrash(d))
      <4>1. distiller[d] \in Marking
        BY <3>1, <3>4, MarkTyped
      <4>2. distiller[d].batch \in Unmarked(d)
        BY <4>1, BatchesAssumption DEF Unmarked, Marking
      <4>3. s \in harmed'
        BY <3>1, <3>4, <4>2 DEF MarkFails, DistillerCrash
      <4>4. QED BY <4>3
    <3>5. QED BY <3>1, <3>2, <3>3, <3>4
            DEF Ingest, DistillerStep, Count, Reset, SetPending
  <2>4. QED BY <2>1, <2>2, <2>3 DEF HasJob
<1>5. QED BY <1>3, <1>4

(* A step of a curator leaves the distill workers and the counters alone.  *)
LEMMA CuratorFrame ==
  ASSUME CurateTypeOK, NEW c \in Curators, CuratorStep(c) \/ CuratorCrash(c)
  PROVE  /\ UNCHANGED <<facts, counted, distiller>>
         /\ \A e \in Curators \ {c} : curator'[e] = curator[e]
         /\ harmed \subseteq harmed' /\ curated \subseteq curated'
         /\ pending' \subseteq pending
BY DEF CuratorStep, Pop, Reject, RejectClear, Clear, Read, Number, EmptyAnswer,
       Insert, FailJob, CuratorCrash, redis, database, CurateTypeOK

LEMMA CuratorKeepsJob ==
  ASSUME CurateTypeOK, PendingHasJob, NEW c \in Curators,
         CuratorStep(c) \/ CuratorCrash(c)
  PROVE  PendingHasJob'
<1> SUFFICES ASSUME NEW s \in pending' \ harmed'
             PROVE  HasJob(s)'
  BY DEF PendingHasJob
<1>1. /\ distiller' = distiller
      /\ \A e \in Curators \ {c} : curator'[e] = curator[e]
      /\ s \in pending \ harmed
  BY CuratorFrame
<1>2. HasJob(s)
  BY <1>1 DEF PendingHasJob
<1>3. CASE Enqueuing(s, {"rpush"})
  BY <1>1, <1>3 DEF HasJob, Enqueuing
<1>4. CASE Queued(s)
  <2>1. Queued(s)' \/ Holding(s, {"clear", "reject"})'
    BY <1>4, CuratorQueues
  <2>2. QED BY <2>1 DEF HasJob, Holding
<1>5. CASE Holding(s, {"clear", "reject", "reject clear"})
  <2>1. PICK e \in Curators : /\ curator[e].pc \in {"clear", "reject", "reject clear"}
                              /\ curator[e].job.subject = s
    BY <1>5 DEF Holding
  <2>2. CASE e # c
    BY <1>1, <2>1, <2>2 DEF HasJob, Holding
  <2>3. CASE e = c /\ Reject(c)
    <3>1. curator[c] \in Curating /\ curator \in [Curators -> Cares]
      BY <2>1, <2>3, CareTyped DEF CurateTypeOK, Cares
    <3>2. curator' = [curator EXCEPT ![c].pc = "reject clear"]
      BY <2>3 DEF Reject
    <3>3. curator'[c].pc = "reject clear" /\ curator'[c].job = curator[c].job
      BY <3>1, <3>2 DEF Curating
    <3>4. QED BY <2>1, <2>3, <3>3 DEF HasJob, Holding
  <2>4. CASE e = c /\ (RejectClear(c) \/ Clear(c))
    BY <2>1, <2>4 DEF RejectClear, Clear
  <2>5. CASE e = c /\ CuratorCrash(c)
    BY <2>1, <2>5 DEF CuratorCrash
  <2>6. QED BY <2>1, <2>2, <2>3, <2>4, <2>5
          DEF CuratorStep, Pop, Read, Number, EmptyAnswer, Insert, FailJob
<1>6. QED BY <1>2, <1>3, <1>4, <1>5 DEF HasJob

----------------------------------------------------------------------------
(* What a curator holds.                                                   *)

(* The locals of a curator after each of its steps.                        *)
LEMMA CuratorMoves ==
  ASSUME CurateTypeOK, NEW c \in Curators
  PROVE  /\ Pop(c) => curator'[c].pc \in {"clear", "reject"}
         /\ Reject(c) => /\ curator'[c].pc = "reject clear"
                         /\ curator'[c].job = curator[c].job
         /\ Clear(c) => curator'[c].pc = "read" /\ curator'[c].job = curator[c].job
         /\ Read(c) =>
              LET about == facts \cap About(curator[c].job.subject)
              IN  \/ about = {} /\ curator'[c].pc = "idle"
                  \/ /\ curator'[c].pc = "ask" /\ curator'[c].seen = about
                     /\ curator'[c].job = curator[c].job
         /\ Number(c) => /\ curator'[c].pc = "insert"
                         /\ curator'[c].seen = curator[c].seen
                         /\ curator'[c].job = curator[c].job
         /\ RejectClear(c) \/ EmptyAnswer(c) \/ Insert(c) \/ FailJob(c) \/ CuratorCrash(c)
              => curator'[c].pc = "idle"
<1>1. curator \in [Curators -> Cares]
  BY DEF CurateTypeOK, Cares
<1>2. Pop(c) => curator'[c].pc \in {"clear", "reject"}
  <2>1. Pop(c) => curator[c] = Waiting
    BY DEF Pop, CurateTypeOK, Curating
  <2>2. QED BY <1>1, <2>1 DEF Pop, Waiting
<1>3. curator[c].pc # "idle" => curator[c] \in Curating
  BY CareTyped
<1>4. Reject(c) => /\ curator'[c].pc = "reject clear"
                   /\ curator'[c].job = curator[c].job
  BY <1>1, <1>3 DEF Reject, Curating
<1>5. Clear(c) => curator'[c].pc = "read" /\ curator'[c].job = curator[c].job
  BY <1>1, <1>3 DEF Clear, Curating
<1>6. ASSUME Read(c)
      PROVE  LET about == facts \cap About(curator[c].job.subject)
             IN  \/ about = {} /\ curator'[c].pc = "idle"
                 \/ /\ curator'[c].pc = "ask" /\ curator'[c].seen = about
                    /\ curator'[c].job = curator[c].job
  <2> DEFINE about == facts \cap About(curator[c].job.subject)
             l == [curator[c] EXCEPT !.pc = "ask", !.seen = about]
  <2>1. curator'[c] = IF about = {} THEN Waiting ELSE l
    BY <1>1, <1>6 DEF Read
  <2>2. curator[c] \in Curating
    BY <1>3, <1>6 DEF Read
  <2> HIDE DEF about
  <2>3. l.pc = "ask" /\ l.seen = about /\ l.job = curator[c].job
    BY <2>2 DEF Curating
  <2>4. Waiting.pc = "idle"
    BY DEF Waiting
  <2> HIDE DEF l
  <2>5. QED BY <2>1, <2>3, <2>4 DEF about
<1>7. ASSUME Number(c)
      PROVE  /\ curator'[c].pc = "insert"
             /\ curator'[c].seen = curator[c].seen
             /\ curator'[c].job = curator[c].job
  <2> DEFINE n == Len(page[curator[c].job.subject]) + 1
  <2>1. curator'[c] = [curator[c] EXCEPT !.pc = "insert", !.n = n]
    BY <1>1, <1>7 DEF Number
  <2>2. curator[c] \in Curating
    BY <1>3, <1>7 DEF Number
  <2> HIDE DEF n
  <2>3. QED BY <2>1, <2>2 DEF Curating
<1>8. RejectClear(c) \/ EmptyAnswer(c) \/ Insert(c) \/ FailJob(c) \/ CuratorCrash(c)
        => curator'[c].pc = "idle"
  <2>1. RejectClear(c) \/ EmptyAnswer(c) \/ Insert(c) \/ FailJob(c) \/ CuratorCrash(c)
          => curator'[c] = Waiting
    BY <1>1 DEF RejectClear, EmptyAnswer, Insert, FailJob, CuratorCrash
  <2>2. QED BY <2>1 DEF Waiting
<1>9. QED BY <1>2, <1>4, <1>5, <1>6, <1>7, <1>8

LEMMA CuratorKeepsHeld ==
  ASSUME CurateTypeOK, ReadsItsSubject, RejectedIsDead, NEW c \in Curators,
         CuratorStep(c) \/ CuratorCrash(c)
  PROVE  ReadsItsSubject' /\ RejectedIsDead'
<1>1. \A e \in Curators \ {c} : curator'[e] = curator[e]
  BY CuratorFrame
<1>2. \A s : Dead(s) => Dead(s)'
  BY CuratorQueues
<1>3. curator'[c].pc \in {"ask", "insert"} =>
        curator'[c].seen \subseteq About(curator'[c].job.subject)
  BY CuratorMoves DEF CuratorStep, ReadsItsSubject, Number
<1>4. ASSUME curator'[c].pc = "reject clear", NEW s, s = curator'[c].job.subject
      PROVE  Dead(s)'
  <2>1. Reject(c) /\ curator'[c].job = curator[c].job
    BY <1>4, CuratorMoves DEF CuratorStep
  <2>2. dead \in Seq(Job) /\ curator[c].job \in Job
    BY <2>1, CareTyped DEF Reject, CurateTypeOK
  <2>3. dead' = Append(dead, curator[c].job)
    BY <2>1 DEF Reject
  <2>4. \A t : Mentions(dead', t) <=> Mentions(dead, t) \/ curator[c].job.subject = t
    BY <2>2, <2>3, Appended
  <2>5. QED BY <1>4, <2>1, <2>4 DEF Mentions, Dead
<1>5. ReadsItsSubject'
  BY <1>1, <1>3 DEF ReadsItsSubject, About
<1>6. RejectedIsDead'
  <2>1. ASSUME NEW e \in Curators, curator'[e].pc = "reject clear"
        PROVE  \E i \in DOMAIN dead' : dead'[i].subject = curator'[e].job.subject
    <3>1. CASE e = c
      BY <1>4, <2>1, <3>1 DEF Dead
    <3>2. CASE e # c
      BY <1>1, <1>2, <2>1, <3>2 DEF Dead, RejectedIsDead
    <3>3. QED BY <3>1, <3>2
  <2>2. QED BY <2>1 DEF RejectedIsDead, Dead
<1>7. QED BY <1>5, <1>6

LEMMA DistillerKeepsHeld ==
  ASSUME CurateTypeOK, ReadsItsSubject, RejectedIsDead, NEW d \in Distillers,
         Ingest(d) \/ DistillerStep(d) \/ MarkFails(d) \/ DistillerCrash(d)
  PROVE  ReadsItsSubject' /\ RejectedIsDead'
BY DistillerFrame DEF ReadsItsSubject, RejectedIsDead, Dead, About

----------------------------------------------------------------------------
(* No fact is forgotten.                                                   *)

Accounted(b) ==
  \/ b \in curated
  \/ b \in counted[Subject[b]]
  \/ \E d \in Distillers : b \in distiller[d].todo
  \/ \E c \in Curators : curator[c].pc \in {"ask", "insert"} /\ b \in curator[c].seen
  \/ Upcoming(Subject[b])
  \/ Dead(Subject[b])
  \/ Subject[b] \in harmed

(* Where a distill worker is after its steps.                              *)
LEMMA DistillerMoves ==
  ASSUME CurateTypeOK, NEW d \in Distillers
  PROVE  /\ \A left : Turn(d, left) => left \subseteq distiller'[d].todo
         /\ Reset(d) => /\ distiller'[d].pc = "sadd"
                        /\ distiller'[d].batch = distiller[d].batch
                        /\ distiller'[d].todo = distiller[d].todo
         /\ SetPending(d) =>
              \/ /\ distiller'[d].pc = "rpush"
                 /\ distiller'[d].batch = distiller[d].batch
                 /\ distiller'[d].todo = distiller[d].todo
              \/ /\ Subject[distiller[d].batch] \in pending
                 /\ Turn(d, distiller[d].todo)
<1>1. distiller \in [Distillers -> Marks]
  BY DEF CurateTypeOK, Marks
<1>2. ASSUME NEW left, Turn(d, left) PROVE left \subseteq distiller'[d].todo
  <2>1. distiller'[d] = IF left = {} THEN Resting
                        ELSE [pc |-> "incr", batch |-> None, todo |-> left]
    BY <1>1, <1>2 DEF Turn
  <2>2. CASE left = {}
    BY <2>2
  <2>3. CASE left # {}
    BY <2>1, <2>3
  <2>4. QED BY <2>2, <2>3
<1>3. ASSUME NEW p, distiller[d] \in Marking,
             distiller' = [distiller EXCEPT ![d].pc = p]
      PROVE  /\ distiller'[d].pc = p /\ distiller'[d].batch = distiller[d].batch
             /\ distiller'[d].todo = distiller[d].todo
  BY <1>1, <1>3 DEF Marking
<1>4. Reset(d) \/ SetPending(d) => distiller[d] \in Marking
  BY MarkTyped DEF Reset, SetPending
<1>5. QED BY <1>2, <1>3, <1>4 DEF Reset, SetPending

(* What a worker was about to queue is queued, or somebody else's job of   *)
(* the same subject is still to read, or the fact stays accounted for.     *)
LEMMA DistillerKeepsUpcoming ==
  ASSUME CurateTypeOK, PendingHasJob, RejectedIsDead, NEW d \in Distillers,
         Ingest(d) \/ DistillerStep(d) \/ MarkFails(d) \/ DistillerCrash(d),
         NEW s, Upcoming(s)
  PROVE  Upcoming(s)' \/ Dead(s)' \/ (s \in harmed)'
<1>1. /\ UNCHANGED <<dead, curator, curated, page>>
      /\ \A e \in Distillers \ {d} : distiller'[e] = distiller[e]
      /\ harmed \subseteq harmed'
      /\ Queued(s) => Queued(s)'
  BY DistillerFrame
<1>2. /\ \A pcs : Holding(s, pcs) => Holding(s, pcs)'
      /\ Dead(s) => Dead(s)'
  BY <1>1 DEF Holding, Dead
<1>3. CASE Queued(s) \/ Holding(s, {"clear", "reject", "read"})
  BY <1>1, <1>2, <1>3 DEF Upcoming
<1>4. CASE Enqueuing(s, {"delete", "sadd", "rpush"})
  <2>1. PICK e \in Distillers : /\ distiller[e].pc \in {"delete", "sadd", "rpush"}
                                /\ Subject[distiller[e].batch] = s
    BY <1>4 DEF Enqueuing
  <2>2. CASE e # d
    BY <1>1, <2>1, <2>2 DEF Upcoming, Enqueuing
  <2>3. CASE e = d /\ Reset(d)
    BY <2>1, <2>3, DistillerMoves DEF Upcoming, Enqueuing
  <2>4. CASE e = d /\ SetPending(d)
    <3>1. CASE distiller'[d].pc = "rpush" /\ distiller'[d].batch = distiller[d].batch
      BY <2>1, <2>4, <3>1 DEF Upcoming, Enqueuing
    <3>2. CASE s \in pending
      <4>1. s \in harmed \/ HasJob(s)
        BY <3>2 DEF PendingHasJob
      <4>2. CASE Enqueuing(s, {"rpush"})
        <5>1. PICK f \in Distillers : /\ distiller[f].pc = "rpush"
                                      /\ Subject[distiller[f].batch] = s
          BY <4>2 DEF Enqueuing
        <5>2. f # d
          BY <2>4, <5>1 DEF SetPending
        <5>3. QED BY <1>1, <5>1, <5>2 DEF Upcoming, Enqueuing
      <4>3. Holding(s, {"clear", "reject", "reject clear"}) =>
              Holding(s, {"clear", "reject", "read"}) \/ Dead(s)
        BY DEF Holding, RejectedIsDead
      <4>4. QED BY <1>1, <1>2, <4>1, <4>2, <4>3 DEF HasJob, Upcoming
    <3>3. QED BY <2>1, <2>4, <3>1, <3>2, DistillerMoves
  <2>5. CASE e = d /\ Push(d)
    BY <2>1, <2>5, Pushed DEF Upcoming
  <2>6. CASE e = d /\ (MarkFails(d) \/ DistillerCrash(d))
    <3>1. distiller[d].batch \in Unmarked(d)
      BY <2>1, <2>6, MarkTyped, BatchesAssumption DEF Unmarked, Marking
    <3>2. QED BY <2>1, <2>6, <3>1 DEF MarkFails, DistillerCrash
  <2>7. QED BY <2>1, <2>2, <2>3, <2>4, <2>5, <2>6 DEF Ingest, DistillerStep, Count
<1>5. QED BY <1>3, <1>4 DEF Upcoming

LEMMA DistillerKeepsFacts ==
  ASSUME CurateTypeOK, PendingHasJob, RejectedIsDead, FactsAccounted,
         NEW d \in Distillers,
         Ingest(d) \/ DistillerStep(d) \/ MarkFails(d) \/ DistillerCrash(d)
  PROVE  FactsAccounted'
<1> SUFFICES ASSUME NEW b \in facts'
             PROVE  Accounted(b)'
  BY DEF FactsAccounted, Accounted
<1>1. /\ UNCHANGED <<dead, curator, curated, page>>
      /\ \A e \in Distillers \ {d} : distiller'[e] = distiller[e]
      /\ harmed \subseteq harmed'
  BY DistillerFrame
<1>2. distiller \in [Distillers -> Marks] /\ facts \subseteq Batches
  BY DEF CurateTypeOK, Marks
<1>3. CASE b \notin facts
  <2>1. Ingest(d)
    BY <1>3 DEF DistillerStep, Count, Reset, SetPending, Push, MarkFails,
                DistillerCrash, database
  <2>2. PICK B : /\ facts' = facts \cup B
                 /\ distiller' = [distiller EXCEPT ![d] =
                                    [pc |-> "incr", batch |-> None, todo |-> B]]
    BY <2>1 DEF Ingest
  <2>3. b \in distiller'[d].todo
    BY <1>2, <1>3, <2>2
  <2>4. QED BY <2>3 DEF Accounted
<1>4. CASE b \in facts
  <2>1. Accounted(b) /\ b \in Batches
    BY <1>2, <1>4 DEF FactsAccounted, Accounted
  <2>2. CASE b \in curated \/ Dead(Subject[b]) \/ Subject[b] \in harmed
               \/ \E c \in Curators : curator[c].pc \in {"ask", "insert"}
                                      /\ b \in curator[c].seen
    BY <1>1, <2>2 DEF Accounted, Dead
  <2>3. CASE Upcoming(Subject[b])
    BY <2>3, DistillerKeepsUpcoming DEF Accounted
  <2>4. CASE b \in counted[Subject[b]]
    <3>1. CASE Reset(d) /\ Subject[b] = Subject[distiller[d].batch]
      BY <3>1, DistillerMoves DEF Accounted, Upcoming, Enqueuing
    <3>2. CASE Reset(d) /\ Subject[b] # Subject[distiller[d].batch]
      BY <2>4, <3>2 DEF Reset, Accounted, CurateTypeOK
    <3>3. CASE ~Reset(d)
      <4>1. \/ counted' = counted
            \/ \E t, a : counted' = [counted EXCEPT ![t] = @ \cup {a}]
        BY <3>3
        DEF Ingest, DistillerStep, Count, SetPending, Push, MarkFails,
            DistillerCrash, redis
      <4>2. Subject[b] \in DOMAIN counted
        BY <2>1, SubjectAssumption DEF CurateTypeOK
      <4>3. QED BY <2>4, <4>1, <4>2 DEF Accounted
    <3>4. QED BY <3>1, <3>2, <3>3
  <2>5. CASE \E e \in Distillers : b \in distiller[e].todo
    <3>1. PICK e \in Distillers : b \in distiller[e].todo
      BY <2>5
    <3>2. CASE e # d
      BY <1>1, <3>1, <3>2 DEF Accounted
    <3>3. CASE e = d /\ Count(d)
      <4>1. PICK a \in distiller[d].todo :
              LET s == Subject[a]
                  left == distiller[d].todo \ {a}
              IN  /\ counted' = [counted EXCEPT ![s] = @ \cup {a}]
                  /\ IF Cardinality(counted'[s]) < Threshold
                     THEN Turn(d, left)
                     ELSE distiller' = [distiller EXCEPT ![d] =
                                          [pc |-> "delete", batch |-> a, todo |-> left]]
        BY <3>3 DEF Count
      <4>2. CASE a = b
        <5>1. b \in counted'[Subject[b]]
          BY <2>1, <4>1, <4>2, SubjectAssumption DEF CurateTypeOK
        <5>2. QED BY <5>1 DEF Accounted
      <4>3. CASE a # b
        <5>1. b \in distiller[d].todo \ {a}
          BY <3>1, <3>3, <4>3
        <5>2. distiller[d].todo \ {a} \subseteq distiller'[d].todo
          BY <1>2, <4>1, DistillerMoves
        <5>3. QED BY <5>1, <5>2 DEF Accounted
      <4>4. QED BY <4>2, <4>3
    <3>4. CASE e = d /\ (Reset(d) \/ SetPending(d) \/ Push(d))
      <4>1. distiller[d].todo \subseteq distiller'[d].todo
        BY <3>4, DistillerMoves DEF Push
      <4>2. QED BY <3>1, <3>4, <4>1 DEF Accounted
    <3>5. CASE e = d /\ (MarkFails(d) \/ DistillerCrash(d))
      <4>1. b \in Unmarked(d)
        BY <2>1, <3>1, <3>5, BatchesAssumption DEF Unmarked
      <4>2. CASE MarkFails(d)
        <5>1. PICK a \in Unmarked(d) : /\ harmed' = harmed \cup {Subject[a]}
                                       /\ Turn(d, distiller[d].todo \ {a})
          BY <4>2 DEF MarkFails
        <5>2. CASE a = b
          BY <5>1, <5>2 DEF Accounted
        <5>3. CASE a # b
          BY <3>1, <3>5, <5>1, <5>3, DistillerMoves DEF Accounted
        <5>4. QED BY <5>2, <5>3
      <4>3. CASE DistillerCrash(d)
        BY <4>1, <4>3 DEF DistillerCrash, Accounted
      <4>4. QED BY <3>5, <4>2, <4>3
    <3>6. CASE e = d /\ Ingest(d)
      BY <1>2, <3>1, <3>6 DEF Ingest, Marks, Marking, NextMark, Resting
    <3>7. QED BY <3>2, <3>3, <3>4, <3>5, <3>6 DEF DistillerStep
  <2>6. QED BY <2>1, <2>2, <2>3, <2>4, <2>5 DEF Accounted
<1>5. QED BY <1>3, <1>4

LEMMA CuratorKeepsUpcoming ==
  ASSUME CurateTypeOK, NEW c \in Curators, CuratorStep(c) \/ CuratorCrash(c),
         NEW s, Upcoming(s)
  PROVE  \/ Upcoming(s)' \/ Dead(s)' \/ (s \in harmed)'
         \/ curator'[c].pc = "ask" /\ facts \cap About(s) \subseteq curator'[c].seen
         \/ facts \cap About(s) = {}
<1>1. /\ UNCHANGED <<facts, counted, distiller>>
      /\ \A e \in Curators \ {c} : curator'[e] = curator[e]
  BY CuratorFrame
<1>2. CASE Queued(s)
  <2>1. Queued(s)' \/ Holding(s, {"clear", "reject"})'
    BY <1>2, CuratorQueues
  <2>2. QED BY <2>1 DEF Upcoming, Holding
<1>3. CASE Enqueuing(s, {"delete", "sadd", "rpush"})
  BY <1>1, <1>3 DEF Upcoming, Enqueuing
<1>4. CASE Holding(s, {"clear", "reject", "read"})
  <2>1. PICK e \in Curators : /\ curator[e].pc \in {"clear", "reject", "read"}
                              /\ curator[e].job.subject = s
    BY <1>4 DEF Holding
  <2>2. CASE e # c
    BY <1>1, <2>1, <2>2 DEF Upcoming, Holding
  <2>3. CASE e = c /\ Clear(c)
    BY <2>1, <2>3, CuratorMoves DEF Upcoming, Holding
  <2>4. CASE e = c /\ Reject(c)
    <3>1. dead \in Seq(Job) /\ curator[c].job \in Job
      BY <2>4, CareTyped DEF Reject, CurateTypeOK
    <3>2. dead' = Append(dead, curator[c].job)
      BY <2>4 DEF Reject
    <3>3. \A t : Mentions(dead', t) <=> Mentions(dead, t) \/ curator[c].job.subject = t
      BY <3>1, <3>2, Appended
    <3>4. QED BY <2>1, <2>4, <3>3 DEF Mentions, Dead
  <2>5. CASE e = c /\ Read(c)
    BY <2>1, <2>5, CuratorMoves
  <2>6. CASE e = c /\ FailJob(c)
    BY <2>1, <2>6, CareTyped, Requeued DEF FailJob, Upcoming
  <2>7. CASE e = c /\ CuratorCrash(c)
    BY <2>1, <2>7 DEF CuratorCrash
  <2>8. QED BY <2>1, <2>2, <2>3, <2>4, <2>5, <2>6, <2>7
          DEF CuratorStep, Pop, RejectClear, Number, EmptyAnswer, Insert
<1>5. QED BY <1>2, <1>3, <1>4 DEF Upcoming

LEMMA CuratorKeepsFacts ==
  ASSUME CurateTypeOK, ReadsItsSubject, FactsAccounted, NEW c \in Curators,
         CuratorStep(c) \/ CuratorCrash(c)
  PROVE  FactsAccounted'
<1> SUFFICES ASSUME NEW b \in facts'
             PROVE  Accounted(b)'
  BY DEF FactsAccounted, Accounted
<1>1. /\ UNCHANGED <<facts, counted, distiller>>
      /\ \A e \in Curators \ {c} : curator'[e] = curator[e]
      /\ harmed \subseteq harmed' /\ curated \subseteq curated'
  BY CuratorFrame
<1>2. Accounted(b) /\ b \in facts /\ b \in Batches
  BY <1>1 DEF FactsAccounted, Accounted, CurateTypeOK
<1>3. CASE b \in curated \/ b \in counted[Subject[b]] \/ Subject[b] \in harmed
             \/ Dead(Subject[b]) \/ \E d \in Distillers : b \in distiller[d].todo
  BY <1>1, <1>3, CuratorQueues DEF Accounted
<1>4. CASE Upcoming(Subject[b])
  <2>1. b \in facts \cap About(Subject[b])
    BY <1>2 DEF About
  <2>2. QED BY <1>4, <2>1, CuratorKeepsUpcoming DEF Accounted
<1>5. CASE \E e \in Curators : curator[e].pc \in {"ask", "insert"} /\ b \in curator[e].seen
  <2>1. PICK e \in Curators : curator[e].pc \in {"ask", "insert"} /\ b \in curator[e].seen
    BY <1>5
  <2>2. CASE e # c
    BY <1>1, <2>1, <2>2 DEF Accounted
  <2>3. CASE e = c /\ Number(c)
    BY <2>1, <2>3, CuratorMoves DEF Accounted
  <2>4. Subject[b] = curator[e].job.subject
    BY <2>1 DEF ReadsItsSubject, About
  <2>5. CASE e = c /\ (EmptyAnswer(c) \/ (Insert(c) /\ ~Requeue(curator[c].job)))
    BY <2>1, <2>5 DEF EmptyAnswer, Insert, Accounted
  <2>6. CASE e = c /\ Requeue(curator[c].job)
    <3>1. curator[c].job \in Job
      BY <2>1, <2>6, CareTyped
    <3>2. Queued(Subject[b])' \/ Dead(Subject[b])'
      BY <2>4, <2>6, <3>1, Requeued
    <3>3. QED BY <3>2 DEF Accounted, Upcoming
  <2>7. CASE e = c /\ CuratorCrash(c)
    BY <2>4, <2>7 DEF CuratorCrash, Accounted
  <2>8. QED BY <2>1, <2>2, <2>3, <2>5, <2>6, <2>7
          DEF CuratorStep, Pop, Reject, RejectClear, Clear, Read, FailJob
<1>6. QED BY <1>2, <1>3, <1>4, <1>5 DEF Accounted

----------------------------------------------------------------------------
(* What does not depend on the counters.                                   *)
LEMMA SameControl ==
  ASSUME PendingHasJob, ReadsItsSubject, RejectedIsDead,
         UNCHANGED <<pending, queue, dead, distiller, curator>>, harmed \subseteq harmed'
  PROVE  /\ PendingHasJob' /\ ReadsItsSubject' /\ RejectedIsDead'
         /\ \A s : Upcoming(s) => Upcoming(s)'
         /\ \A s : Dead(s) => Dead(s)'
<1>1. \A s : Queued(s) => Queued(s)'
  BY DEF Queued
<1>2. \A s, pcs : Enqueuing(s, pcs) => Enqueuing(s, pcs)'
  BY DEF Enqueuing
<1>3. \A s, pcs : Holding(s, pcs) => Holding(s, pcs)'
  BY DEF Holding
<1>4. PendingHasJob'
  BY <1>1, <1>2, <1>3 DEF PendingHasJob, HasJob
<1>5. ReadsItsSubject'
  BY DEF ReadsItsSubject, About
<1>6. RejectedIsDead' /\ \A s : Dead(s) => Dead(s)'
  BY DEF RejectedIsDead, Dead
<1>7. QED BY <1>1, <1>2, <1>3, <1>4, <1>5, <1>6 DEF Upcoming

(* A counter expires: its subject is harmed, nothing else changes.         *)
LEMMA ExpireKeeps ==
  ASSUME CurateInv, NEW s \in Subjects, ExpireCount(s)
  PROVE  CurateInv'
<1>1. /\ UNCHANGED <<pending, queue, dead, facts, page, curated, distiller, curator>>
      /\ harmed' = harmed \cup {s}
      /\ counted' = [counted EXCEPT ![s] = {}]
      /\ counted \in [Subjects -> SUBSET Batches]
  BY DEF ExpireCount, CurateInv, CurateTypeOK
<1>2. CurateTypeOK'
  BY ExpireTyped DEF CurateInv
<1>3. /\ PendingHasJob' /\ ReadsItsSubject' /\ RejectedIsDead'
      /\ \A t : Upcoming(t) => Upcoming(t)'
      /\ \A t : Dead(t) => Dead(t)'
  BY <1>1, SameControl DEF CurateInv
<1>4. FactsAccounted'
  <2> SUFFICES ASSUME NEW b \in facts'
               PROVE  Accounted(b)'
    BY DEF FactsAccounted, Accounted
  <2>1. Accounted(b)
    BY <1>1 DEF CurateInv, FactsAccounted, Accounted
  <2>2. QED BY <1>1, <1>3, <2>1 DEF Accounted
<1>5. QED BY <1>2, <1>3, <1>4 DEF CurateInv

LEMMA InitCurateInv == Init => CurateInv
<1> SUFFICES ASSUME Init PROVE CurateInv
  OBVIOUS
<1>1. CurateTypeOK
  BY InitTyped
<1>2. PendingHasJob /\ FactsAccounted
  BY DEF Init, PendingHasJob, FactsAccounted
<1>3. ReadsItsSubject /\ RejectedIsDead
  BY DEF Init, ReadsItsSubject, RejectedIsDead, Waiting
<1>4. QED BY <1>1, <1>2, <1>3 DEF CurateInv

LEMMA StepCurateInv ==
  ASSUME CurateInv, [Next]_vars
  PROVE  CurateInv'
<1> USE DEF CurateInv
<1>1. CurateTypeOK'
  BY StepTyped
<1>2. ASSUME NEW d \in Distillers,
             Ingest(d) \/ DistillerStep(d) \/ MarkFails(d) \/ DistillerCrash(d)
      PROVE  CurateInv'
  BY <1>1, <1>2, DistillerKeepsJob, DistillerKeepsHeld, DistillerKeepsFacts
<1>3. ASSUME NEW c \in Curators, CuratorStep(c) \/ CuratorCrash(c)
      PROVE  CurateInv'
  BY <1>1, <1>3, CuratorKeepsJob, CuratorKeepsHeld, CuratorKeepsFacts
<1>4. CASE UNCHANGED vars
  <2>1. /\ PendingHasJob' /\ ReadsItsSubject' /\ RejectedIsDead'
        /\ \A s : Upcoming(s) => Upcoming(s)'
        /\ \A s : Dead(s) => Dead(s)'
    BY <1>4, SameControl DEF vars
  <2>2. FactsAccounted'
    BY <1>4, <2>1 DEF vars, FactsAccounted
  <2>3. QED BY <1>1, <2>1, <2>2
<1>5. QED BY <1>2, <1>3, <1>4, ExpireKeeps DEF Next

(* However many workers run, and whatever faults happen, a pending subject *)
(* that no fault has hit has a job.                                        *)
THEOREM FlagsHaveJobs == Spec => []PendingHasJob
<1>1. CurateInv => PendingHasJob
  BY DEF CurateInv
<1>2. QED BY InitCurateInv, StepCurateInv, <1>1, PTL DEF Spec

(* No ingested fact is forgotten: it has been read by a curation, or some  *)
(* worker, counter or job still stands for it, or its subject is in the    *)
(* dead letter or was hit by a fault.                                      *)
THEOREM NoFactForgotten == Spec => []FactsAccounted
<1>1. CurateInv => FactsAccounted
  BY DEF CurateInv
<1>2. QED BY InitCurateInv, StepCurateInv, <1>1, PTL DEF Spec

----------------------------------------------------------------------------
(* The counter of a subject at rest is below the threshold.                *)

LEMMA NoneCounted == Cardinality({}) < Threshold
BY FS_EmptySet, ThresholdAssumption

LEMMA DistillerKeepsCounter ==
  ASSUME CurateTypeOK, CounterFires, NEW d \in Distillers,
         Ingest(d) \/ DistillerStep(d) \/ MarkFails(d) \/ DistillerCrash(d)
  PROVE  CounterFires'
<1> DEFINE Few(B) == Cardinality(B) < Threshold
<1> SUFFICES ASSUME NEW s \in Subjects
             PROVE  (s \in harmed)' \/ Few(counted'[s]) \/ Enqueuing(s, {"delete"})'
  BY DEF CounterFires
<1>1. /\ \A e \in Distillers \ {d} : distiller'[e] = distiller[e]
      /\ harmed \subseteq harmed'
  BY DistillerFrame
<1>2. distiller \in [Distillers -> Marks] /\ counted \in [Subjects -> SUBSET Batches]
  BY DEF CurateTypeOK, Marks
<1>3. s \in harmed \/ Few(counted[s]) \/ Enqueuing(s, {"delete"})
  BY DEF CounterFires
<1>4. Few({})
  BY NoneCounted
<1> HIDE DEF Few
<1>5. CASE Count(d)
  <2>1. PICK a \in distiller[d].todo :
          /\ counted' = [counted EXCEPT ![Subject[a]] = @ \cup {a}]
          /\ Few(counted'[Subject[a]]) \/
               distiller' = [distiller EXCEPT ![d] =
                  [pc |-> "delete", batch |-> a, todo |-> distiller[d].todo \ {a}]]
    BY <1>5 DEF Count, Few
  <2>2. CASE Subject[a] = s
    <3>1. CASE Few(counted'[Subject[a]])
      BY <2>2, <3>1
    <3>2. CASE distiller' = [distiller EXCEPT ![d] =
                  [pc |-> "delete", batch |-> a, todo |-> distiller[d].todo \ {a}]]
      <4>1. distiller'[d].pc = "delete" /\ distiller'[d].batch = a
        BY <1>2, <3>2
      <4>2. QED BY <2>2, <4>1 DEF Enqueuing
    <3>3. QED BY <2>1, <3>1, <3>2
  <2>3. CASE Subject[a] # s
    <3>1. counted'[s] = counted[s]
      BY <1>2, <2>1, <2>3
    <3>2. Enqueuing(s, {"delete"}) => Enqueuing(s, {"delete"})'
      BY <1>1, <1>5 DEF Enqueuing, Count
    <3>3. QED BY <1>1, <1>3, <3>1, <3>2
  <2>4. QED BY <2>2, <2>3
<1>6. CASE Reset(d)
  <2>1. counted' = [counted EXCEPT ![Subject[distiller[d].batch]] = {}]
    BY <1>6 DEF Reset
  <2>2. CASE Subject[distiller[d].batch] = s
    BY <1>2, <1>4, <2>1, <2>2
  <2>3. CASE Subject[distiller[d].batch] # s
    <3>1. counted'[s] = counted[s]
      BY <1>2, <2>1, <2>3
    <3>2. Enqueuing(s, {"delete"}) => Enqueuing(s, {"delete"})'
      BY <1>1, <2>3 DEF Enqueuing
    <3>3. QED BY <1>1, <1>3, <3>1, <3>2
  <2>4. QED BY <2>2, <2>3
<1>7. CASE ~Count(d) /\ ~Reset(d)
  <2>1. counted' = counted
    BY <1>7 DEF Ingest, DistillerStep, SetPending, Push, MarkFails, DistillerCrash, redis
  <2>2. Enqueuing(s, {"delete"}) => Enqueuing(s, {"delete"})' \/ (s \in harmed)'
    <3>1. SUFFICES ASSUME distiller[d].pc = "delete", Subject[distiller[d].batch] = s
                   PROVE  (s \in harmed)'
      BY <1>1 DEF Enqueuing
    <3>2. MarkFails(d) \/ DistillerCrash(d)
      BY <1>7, <3>1 DEF Ingest, DistillerStep, SetPending, Push
    <3>3. distiller[d].batch \in Unmarked(d)
      BY <3>1, MarkTyped, BatchesAssumption DEF Unmarked, Marking
    <3>4. QED BY <3>1, <3>2, <3>3 DEF MarkFails, DistillerCrash
  <2>3. QED BY <1>1, <1>3, <2>1, <2>2
<1>8. QED BY <1>5, <1>6, <1>7

LEMMA StepCounterFires ==
  ASSUME CurateInv, CounterFires, [Next]_vars
  PROVE  CounterFires'
<1>1. CurateTypeOK
  BY DEF CurateInv
<1>2. CASE UNCHANGED <<counted, harmed, distiller>>
  BY <1>2 DEF CounterFires, Enqueuing
<1>3. ASSUME NEW c \in Curators, CuratorStep(c) \/ CuratorCrash(c)
      PROVE  CounterFires'
  <2>1. UNCHANGED <<counted, distiller>> /\ harmed \subseteq harmed'
    BY <1>1, <1>3, CuratorFrame
  <2>2. QED BY <2>1 DEF CounterFires, Enqueuing
<1>4. ASSUME NEW s \in Subjects, ExpireCount(s)
      PROVE  CounterFires'
  <2>1. /\ distiller' = distiller /\ harmed' = harmed \cup {s}
        /\ \A t \in Subjects \ {s} : counted'[t] = counted[t]
    BY <1>1, <1>4 DEF ExpireCount, CurateTypeOK
  <2>2. QED BY <2>1 DEF CounterFires, Enqueuing
<1>5. QED BY <1>1, <1>2, <1>3, <1>4, DistillerKeepsCounter DEF Next, vars

LEMMA InitCounterFires == Init => CounterFires
BY NoneCounted DEF Init, CounterFires

(* At rest every fact that no curation has read is in the counter.         *)
LEMMA RestIsCounted ==
  ASSUME CurateInv, CounterFires
  PROVE  QuietIsCurated
<1> SUFFICES ASSUME Quiet, NEW s \in Subjects, ~Dead(s), s \notin harmed
             PROVE  Cardinality((facts \cap About(s)) \ curated) < Threshold
  BY DEF QuietIsCurated
<1> DEFINE rest == (facts \cap About(s)) \ curated
<1>1. rest \subseteq counted[s]
  <2> SUFFICES ASSUME NEW b \in rest PROVE b \in counted[s]
    OBVIOUS
  <2>1. Accounted(b) /\ Subject[b] = s /\ b \notin curated
    BY DEF CurateInv, FactsAccounted, Accounted, About
  <2>2. \A d \in Distillers : distiller[d] = Resting
    BY DEF Quiet, CurateInv, CurateTypeOK, Marking, NextMark
  <2>3. ~Upcoming(s)
    BY DEF Quiet, Upcoming, Queued, Enqueuing, Holding
  <2>4. QED BY <2>1, <2>2, <2>3 DEF Accounted, Quiet, Resting
<1>2. IsFiniteSet(counted[s])
  BY BatchesAssumption, FS_Subset DEF CurateInv, CurateTypeOK
<1>3. Cardinality(counted[s]) < Threshold
  BY DEF CounterFires, Quiet, Enqueuing
<1> HIDE DEF rest
<1>4. /\ Cardinality(rest) \in Nat /\ Cardinality(counted[s]) \in Nat
      /\ Cardinality(rest) <= Cardinality(counted[s])
  BY <1>1, <1>2, FS_Subset, FS_CardinalityType
<1>5. Cardinality(rest) < Threshold
  BY <1>3, <1>4, ThresholdAssumption
<1>6. QED BY <1>5 DEF rest

(* When nothing is under way, the facts that no finished curation has read *)
(* are fewer than the threshold, for every subject that no fault and no    *)
(* dead letter has touched.                                                *)
THEOREM QuietPagesCurated == Spec => []QuietIsCurated
<1>1. Init => CurateInv /\ CounterFires
  BY InitCurateInv, InitCounterFires
<1>2. (CurateInv /\ CounterFires) /\ [Next]_vars => (CurateInv /\ CounterFires)'
  BY StepCurateInv, StepCounterFires
<1>3. CurateInv /\ CounterFires => QuietIsCurated
  BY RestIsCounted
<1>4. QED BY <1>1, <1>2, <1>3, PTL DEF Spec

----------------------------------------------------------------------------
(* Documents.                                                              *)

(* What a request holds.                                                   *)
DocLocals ==
  [pc : {"new", "form", "insert", "commit", "forget", "expand", "objectives",
         "key_results", "initiatives", "absorb", "done", "rejected", "refused", "failed"},
   op : {Nil, "save", "forget", "expand", "goal", "tree", "soul", "absorb"},
   org : Orgs \cup {Nil}, name : Names \cup Requests \cup {Nil}, n : Nat,
   recipe : Seq(Refs), locked : SUBSET Rows, base : SUBSET (Rows \cup Goals),
   sections : Seq(Nat), shown : SUBSET Goals, body : Seq(Requests \cup {Nil}), from : Nat]

(* What a request is about does not change on its way.                     *)
Reading == {"objectives", "key_results", "initiatives"}
Purposeful(state) ==
  /\ state.pc \in {"form", "insert", "commit"} =>
       state.op = "save" /\ state.org \in Orgs /\ state.name \in Names
  /\ state.pc = "forget" => state.op = "forget" /\ state.org \in Orgs /\ state.name \in Names
  /\ state.pc = "expand" => state.op = "expand" /\ state.org \in Orgs
  /\ state.pc \in Reading => state.op = "tree"
  /\ state.pc = "absorb" => state.op = "absorb"

DocsTyped ==
  /\ rows \in SUBSET Rows /\ goals \in SUBSET Goals /\ soul \in Souls
  /\ req \in [Requests -> DocLocals]
  /\ \A r \in Requests : (req[r].pc = "new" => req[r] = Fresh) /\ Purposeful(req[r])

(* The rows of a name are numbered without a gap, and a forget has taken   *)
(* what was oldest.                                                        *)
Numbered(o, n) ==
  Newest(Of(o, n)) \in Nat /\ Versions(Of(o, n)) = 1 .. Newest(Of(o, n))

Sorted ==
  \A row, other \in rows : row.org = other.org /\ row.name = other.name =>
    /\ row.version = other.version => row = other
    /\ row.status = "active" /\ other.status = "soft_deleted" => row.version > other.version

RowsSorted == Sorted /\ \A o \in Orgs, n \in Names : Numbered(o, n)

Own(r) == Of(req[r].org, req[r].name)

(* A save is one past what it saw; from the INSERT on its number is free   *)
(* until it commits, because every other INSERT of the number waits.       *)
Saving(r) ==
  /\ req[r].pc \in {"insert", "commit"} =>
       /\ req[r].n # 0
       /\ Versions(req[r].base) = 1 .. req[r].n - 1
       /\ Versions(req[r].base) \subseteq Versions(Own(r))
  /\ req[r].pc = "commit" => req[r].n \notin Versions(Own(r))
  /\ req[r].pc = "refused" /\ Table[req[r].name] # "procedures" =>
       req[r].n \in Versions(Own(r)) \ Versions(req[r].base)

Alone(q, r) ==
  req[q].pc = "commit" /\ req[r].pc = "commit" /\ q # r =>
    ~ SameKey(req[q].org, req[q].name, req[q].n, req[r].org, req[r].name, req[r].n)

(* A forget holds the oldest of the active rows of its name, and no other  *)
(* holds them.                                                             *)
Forgetting(r) ==
  /\ req[r].pc # "forget" => req[r].locked = {}
  /\ req[r].pc = "forget" =>
       /\ req[r].locked \subseteq Active(Own(r))
       /\ \A row \in Active(Own(r)) \ req[r].locked, old \in req[r].locked :
            row.version > old.version

(* What an expansion saw is there still, or forgotten.                     *)
Shown(r, i) ==
  LET ref == req[r].recipe[i]
      shown == req[r].sections[i]
      then == {row \in Active(req[r].base) : row.name = ref.name
                 /\ ref.version \in {Nil, row.version}}
  IN  IF shown = 0 THEN Forgotten(then) \subseteq rows
      ELSE IF ref.version = Nil THEN shown >= Newest(then)
                                 ELSE shown = ref.version

Expanding(r) ==
  /\ req[r].pc = "expand" =>
       /\ req[r].base \subseteq Rows
       /\ \A row \in req[r].base : row.org = req[r].org /\ row.name \in Skills
       /\ \A row \in Active(req[r].base) : row \in rows \/ Forgotten({row}) \subseteq rows
  /\ req[r].sections # <<>> => req[r].base \subseteq Rows
  /\ Len(req[r].sections) <= Len(req[r].recipe)
  /\ \A i \in DOMAIN req[r].sections : Shown(r, i)

DocsKept ==
  /\ RowsSorted
  /\ \A r \in Requests : Saving(r) /\ Forgetting(r) /\ Expanding(r)
  /\ \A q, r \in Requests : Alone(q, r) /\ (q # r => req[q].locked \cap req[r].locked = {})

(* A goal belongs to goals that are there, and its id is the request.      *)
Shaped(g) ==
  /\ g.kind = "plan" => g.plan = Nil /\ g.of = Nil
  /\ g.kind = "objective" => g.plan # Nil /\ g.of = Nil
  /\ g.kind = "key_result" => g.plan = Nil /\ g.of # Nil
  /\ g.kind = "initiative" => g.plan # Nil

Hanging(set) ==
  \A g \in set : g.of # Nil => \E h \in set : h.kind = "objective" /\ h.id = g.of

GoalsHang ==
  /\ \A g \in goals : Shaped(g) /\ req[g.id].pc = "done"
  /\ \A g, h \in goals : g.id = h.id => g = h
  /\ Hanging(goals)

(* The tree of a plan is read from the top: what it holds hangs together,  *)
(* and of the levels that were read nothing is missing that was there when *)
(* it was asked for.                                                       *)
Levels(pc) ==
  CASE pc = "objectives" -> {}
    [] pc = "key_results" -> {"objective"}
    [] pc = "initiatives" -> {"objective", "key_result"}
    [] pc = "done" -> {"objective", "key_result", "initiative"}

Under(r, g, set) ==
  \/ g.kind = "objective" /\ g.plan = req[r].name
  \/ /\ g.kind \in {"key_result", "initiative"}
     /\ g.kind = "initiative" => g.plan = req[r].name
     /\ \/ g.kind = "initiative" /\ g.of = Nil
        \/ \E h \in set : h.kind = "objective" /\ h.id = g.of /\ h.plan = req[r].name

TreeHeld(r) ==
  req[r].op = "tree" /\ req[r].pc \in Reading \cup {"done"} =>
    /\ req[r].name \in Requests
    /\ req[r].base \subseteq goals /\ Hanging(req[r].base)
    /\ req[r].shown \subseteq goals
    /\ \A g \in req[r].shown :
         g.kind \in Levels(req[r].pc) /\ Under(r, g, req[r].shown)
    /\ \A g \in req[r].base :
         g.kind \in Levels(req[r].pc) /\ Under(r, g, req[r].base) => g \in req[r].shown

GoalsKept ==
  /\ GoalsHang
  /\ \A r \in Requests : TreeHeld(r)

(* What was written to the soul is in it, or was cut from a text that was  *)
(* too long, or was lost to a later writer that had not seen it.           *)
Wrote(r) == req[r].pc = "done" /\ req[r].op \in {"soul", "absorb"}
Lost(r) ==
  \/ \E q \in Requests : Wrote(q) /\ req[q].n >= req[r].n /\ CutBy(q, req[r].name)
  \/ \E q \in Requests : Wrote(q) /\ req[q].n > req[r].n /\ req[q].from < req[r].n

SoulKept ==
  /\ Len(soul.body) <= SoulMax
  /\ \A r \in Requests : Wrote(r) =>
       /\ req[r].n > 0 /\ req[r].n <= soul.version
       /\ Within(soul.body, req[r].name) \/ Lost(r)
  /\ \A q \in Requests : req[q].pc = "absorb" =>
       /\ req[q].from <= soul.version /\ Len(req[q].body) <= SoulMax
       /\ \A r \in Requests : Wrote(r) =>
            req[r].n > req[q].from \/ Within(req[q].body, req[r].name) \/ Lost(r)

----------------------------------------------------------------------------
(* Typing.                                                                 *)

LEMMA VersionsOf ==
  ASSUME NEW S \in SUBSET Rows
  PROVE  /\ Versions(S) \subseteq Nat \ {0}
         /\ \A row \in S : row.version \in Versions(S)
BY DEF Versions, Rows

(* A number that no other exceeds is the newest.                           *)
LEMMA NewestIs ==
  ASSUME NEW S \in SUBSET Rows, NEW v \in Versions(S), \A w \in Versions(S) : w <= v
  PROVE  Newest(S) = v
<1>1. S # {}
  BY DEF Versions
<1>2. \A w \in Versions(S) : (\A u \in Versions(S) : u <= w) => w = v
  BY VersionsOf
<1>3. QED BY <1>1, <1>2 DEF Newest

LEMMA NewestOfNone == Newest({}) = 0
BY DEF Newest

LEMMA NewestExists ==
  ASSUME NEW S \in SUBSET Rows, NEW m \in Nat, Versions(S) \subseteq 0 .. m, S # {}
  PROVE  /\ Newest(S) \in Versions(S)
         /\ \A w \in Versions(S) : w <= Newest(S)
<1> DEFINE T == {m - x : x \in Versions(S)}
           R == OpToRel(<, Nat)
<1>1. T \subseteq Nat /\ T # {}
  <2>1. \A x \in Versions(S) : m - x \in Nat
    OBVIOUS
  <2>2. PICK row \in S : TRUE
    OBVIOUS
  <2>3. m - row.version \in T
    BY VersionsOf
  <2>4. QED BY <2>1, <2>3
<1>2. PICK y \in T : \A z \in T : ~(<<z, y>> \in R)
  BY <1>1, NatLessThanWellFounded, WFMin
<1>3. PICK x \in Versions(S) : y = m - x
  BY <1>2
<1>4. ASSUME NEW z \in Versions(S)
      PROVE  z <= x
  <2>1. m - z \in T /\ m - z \in Nat /\ y \in Nat /\ x \in Nat /\ z \in Nat
    BY <1>1, VersionsOf
  <2>2. ~(m - z < y)
    BY <2>1, <1>2 DEF OpToRel
  <2>3. QED BY <2>1, <2>2, <1>3
<1>5. Newest(S) = x
  BY <1>3, <1>4, NewestIs
<1>6. QED BY <1>4, <1>5

(* Rows of one version.                                                    *)
LEMMA NewestOfOne ==
  ASSUME NEW S \in SUBSET Rows, NEW v, \A row \in S : row.version = v
  PROVE  /\ S # {} => Newest(S) = v
         /\ Newest(S) \in Nat
<1>1. ASSUME S # {}
      PROVE  Newest(S) = v /\ v \in Nat
  <2>1. PICK row \in S : TRUE
    BY <1>1
  <2>2. Versions(S) = {v}
    BY <2>1 DEF Versions
  <2>3. v \in Nat
    BY <2>1 DEF Rows
  <2>4. QED BY <2>2, <2>3, NewestIs
<1>2. QED BY <1>1, NewestOfNone

LEMMA OfIsRows ==
  ASSUME DocsTyped
  PROVE  \A o, n : Of(o, n) \in SUBSET Rows /\ Active(Of(o, n)) \in SUBSET Rows
BY DEF DocsTyped, Of, Active

LEMMA FoundIs ==
  ASSUME DocsTyped, NEW o, NEW n, NEW v
  PROVE  /\ Found(o, n, v) \in SUBSET Rows
         /\ Found(o, n, v) \subseteq Active(Of(o, n))
         /\ Newest(Found(o, n, v)) \in Nat
<1> DEFINE w == IF v = Nil THEN Latest(o, n) ELSE v
<1>1. Found(o, n, v) = {row \in Active(Of(o, n)) : row.version = w}
  BY DEF Found
<1>2. QED BY <1>1, OfIsRows, NewestOfOne

LEMMA Becomes ==
  ASSUME DocsTyped, NEW r \in Requests, NEW s, Become(r, s)
  PROVE  /\ req'[r] = s
         /\ \A q \in Requests : q # r => req'[q] = req[q]
         /\ s \in DocLocals => req' \in [Requests -> DocLocals]
BY DEF DocsTyped, Become

LEMMA FreshTyped == Fresh \in DocLocals /\ Purposeful(Fresh)
<1>1. <<>> \in Seq(Refs) /\ <<>> \in Seq(Nat) /\ <<>> \in Seq(Requests)
  OBVIOUS
<1>2. QED BY <1>1 DEF Fresh, DocLocals, Purposeful, Reading

LEMMA FreshIs ==
  /\ Fresh.pc = "new" /\ Fresh.op = Nil /\ Fresh.n = 0 /\ Fresh.recipe = <<>>
  /\ Fresh.locked = {} /\ Fresh.base = {} /\ Fresh.sections = <<>>
  /\ Fresh.shown = {} /\ Fresh.body = <<>> /\ Fresh.from = 0
BY DEF Fresh

(* A request stays one as it goes on.                                      *)
Turns(r) ==
  /\ req'[r] \in DocLocals /\ req'[r].pc # "new" /\ Purposeful(req'[r])
  /\ \A q \in Requests : q # r => req'[q] = req[q]

LEMMA TurnsTyped ==
  ASSUME DocsTyped, NEW r \in Requests, Turns(r), req' = [req EXCEPT ![r] = req'[r]],
         rows' \in SUBSET Rows, goals' \in SUBSET Goals, soul' \in Souls
  PROVE  DocsTyped'
<1>1. req' \in [Requests -> DocLocals]
  BY DEF DocsTyped, Turns
<1>2. ASSUME NEW q \in Requests
      PROVE  (req'[q].pc = "new" => req'[q] = Fresh) /\ Purposeful(req'[q])
  BY DEF DocsTyped, Turns
<1>3. ASSUME NEW q \in Requests
      PROVE  (req'[q].pc = "new" => req'[q] = Fresh') /\ Purposeful(req[q])'
  BY <1>2 DEF Fresh, Purposeful, Reading
<1>4. Rows' = Rows /\ Goals' = Goals /\ Souls' = Souls /\ DocLocals' = DocLocals
  BY DEF Rows, Goals, Souls, DocLocals
<1>5. QED BY <1>1, <1>3, <1>4 DEF DocsTyped

LEMMA BecomeTurns ==
  ASSUME DocsTyped, NEW r \in Requests, NEW s \in DocLocals, s.pc # "new", Purposeful(s),
         Become(r, s)
  PROVE  Turns(r) /\ req' = [req EXCEPT ![r] = req'[r]] /\ req'[r] = s
BY Becomes DEF Turns, Become

(* What each step makes of its request.                                    *)
LEMMA SaveTyped ==
  ASSUME DocsTyped, NEW r \in Requests, NEW o \in Orgs, NEW n \in Names,
         NEW recipe \in Seq(Refs), NEW v \in Nat
  PROVE  /\ Save(o, n, recipe, v) \in DocLocals /\ Purposeful(Save(o, n, recipe, v))
         /\ Save(o, n, recipe, v).pc = "insert"
<1> DEFINE s == Save(o, n, recipe, v)
<1>1. Of(o, n) \in SUBSET (Rows \cup Goals)
  BY OfIsRows
<1>2. s \in DocLocals /\ s.pc = "insert" /\ s.op = "save" /\ s.org = o /\ s.name = n
  BY <1>1, FreshTyped DEF Save, DocLocals
<1> HIDE DEF s
<1>3. Purposeful(s)
  BY <1>2 DEF Purposeful, Reading
<1>4. QED BY <1>2, <1>3 DEF s

LEMMA SaveReadTurns ==
  ASSUME DocsTyped, NEW r \in Requests, NEW o \in Orgs, NEW n \in Names,
         Newest(Of(o, n)) \in Nat,
         NEW recipes \in SUBSET Seq(Refs), SaveRead(r, o, n, recipes)
  PROVE  /\ Turns(r) /\ req' = [req EXCEPT ![r] = req'[r]]
         /\ \E recipe \in recipes : req'[r] = Save(o, n, recipe, Newest(Of(o, n)) + 1)
<1>1. PICK recipe \in recipes : Become(r, Save(o, n, recipe, Newest(Of(o, n)) + 1))
  BY DEF SaveRead
<1>2. Newest(Of(o, n)) + 1 \in Nat
  OBVIOUS
<1> DEFINE s == Save(o, n, recipe, Newest(Of(o, n)) + 1)
<1>3. s \in DocLocals /\ Purposeful(s) /\ s.pc = "insert"
  BY <1>2, SaveTyped
<1> HIDE DEF s
<1>4. Become(r, s)
  BY <1>1 DEF s
<1>5. Turns(r) /\ req' = [req EXCEPT ![r] = req'[r]] /\ req'[r] = s
  BY <1>3, <1>4, BecomeTurns
<1>6. QED BY <1>5 DEF s

LEMMA RecipesAre == \A n \in Names : RecipesOf(n) \in SUBSET Seq(Refs)
BY DocsAssumption DEF RecipesOf

LEMMA UnpinnedIs == \A recipe \in Seq(Refs) : Unpinned(recipe) \in Seq(Refs)
<1>1. ASSUME NEW recipe \in Seq(Refs)
      PROVE  Unpinned(recipe) \in Seq(Refs)
  <2>1. \A i \in DOMAIN recipe : [recipe[i] EXCEPT !.version = Nil] \in Refs
    <3>1. \A ref \in Refs : [ref EXCEPT !.version = Nil] \in Refs
      BY DEF Refs
    <3>2. QED BY <3>1
  <2>2. DOMAIN recipe = 1 .. Len(recipe) /\ Len(recipe) \in Nat
    OBVIOUS
  <2>3. QED BY <2>1, <2>2 DEF Unpinned
<1>2. QED BY <1>1

(* A request with a form, and one that is told no.                         *)
LEMMA FormTurns ==
  ASSUME DocsTyped, NEW r \in Requests, NEW o \in Orgs, NEW n \in Names,
         PlaybookForm(r, o, n) \/ WikiForm(r, o, n)
  PROVE  /\ Turns(r) /\ req' = [req EXCEPT ![r] = req'[r]]
         /\ req'[r].pc = "form" /\ req'[r].locked = {} /\ req'[r].sections = <<>>
<1>1. PICK s \in DocLocals :
        /\ Become(r, s) /\ s.pc = "form" /\ s.op = "save" /\ s.org = o /\ s.name = n
        /\ s.locked = {} /\ s.sections = <<>>
  <2>1. CASE WikiForm(r, o, n)
    <3> DEFINE s == [Fresh EXCEPT !.pc = "form", !.op = "save", !.org = o, !.name = n]
    <3>1. /\ s \in DocLocals /\ s.pc = "form" /\ s.op = "save" /\ s.org = o /\ s.name = n
          /\ s.locked = {} /\ s.sections = <<>>
      BY FreshTyped, FreshIs DEF DocLocals
    <3>2. Become(r, s)
      BY <2>1 DEF WikiForm
    <3>3. QED BY <3>1, <3>2
  <2>2. CASE PlaybookForm(r, o, n)
    <3>1. \A row \in Found(o, n, Nil) : row.recipe \in Seq(Refs)
      BY FoundIs DEF Rows
    <3>2. PICK recipe : /\ recipe \in IF Found(o, n, Nil) = {} THEN Recipes
                                      ELSE {row.recipe : row \in Found(o, n, Nil)}
                        /\ Become(r, [Fresh EXCEPT !.pc = "form", !.op = "save",
                                        !.org = o, !.name = n, !.recipe = Unpinned(recipe)])
      BY <2>2 DEF PlaybookForm
    <3> DEFINE u == Unpinned(recipe)
               s == [Fresh EXCEPT !.pc = "form", !.op = "save", !.org = o, !.name = n,
                                  !.recipe = u]
    <3>3. recipe \in Seq(Refs)
      BY <3>1, <3>2, DocsAssumption
    <3>4. u \in Seq(Refs)
      BY <3>3, UnpinnedIs
    <3>5. Become(r, s)
      BY <3>2
    <3> HIDE DEF u
    <3>6. /\ s \in DocLocals /\ s.pc = "form" /\ s.op = "save" /\ s.org = o /\ s.name = n
          /\ s.locked = {} /\ s.sections = <<>>
      BY <3>4, FreshTyped, FreshIs DEF DocLocals
    <3>7. QED BY <3>5, <3>6
  <2>3. QED BY <2>1, <2>2
<1>2. Purposeful(s)
  BY <1>1 DEF Purposeful, Reading
<1>3. QED BY <1>1, <1>2, BecomeTurns

(* What a request holds of the rows stays as it is.                        *)
Keeps(r) ==
  /\ req'[r].locked = req[r].locked /\ req'[r].sections = req[r].sections
  /\ req'[r].recipe = req[r].recipe /\ req'[r].base = req[r].base

(* A request that goes on with what it holds.                              *)
LEMMA GoesOn ==
  ASSUME DocsTyped, NEW r \in Requests, NEW pc,
         pc \in {"commit", "done", "refused", "failed", "rejected"},
         pc = "commit" => req[r].pc = "insert",
         Become(r, [req[r] EXCEPT !.pc = pc])
  PROVE  /\ Turns(r) /\ req' = [req EXCEPT ![r] = req'[r]]
         /\ req'[r].pc = pc /\ req'[r].op = req[r].op /\ req'[r].org = req[r].org
         /\ req'[r].name = req[r].name /\ req'[r].n = req[r].n /\ Keeps(r)
<1> DEFINE s == [req[r] EXCEPT !.pc = pc]
<1>1. req[r] \in DocLocals /\ Purposeful(req[r])
  BY DEF DocsTyped
<1>2. s \in DocLocals /\ s.pc = pc
  BY <1>1 DEF DocLocals
<1>3. /\ s.op = req[r].op /\ s.org = req[r].org /\ s.name = req[r].name /\ s.n = req[r].n
      /\ s.locked = req[r].locked /\ s.sections = req[r].sections
      /\ s.recipe = req[r].recipe /\ s.base = req[r].base
  BY <1>1 DEF DocLocals
<1>4. Become(r, s)
  OBVIOUS
<1> HIDE DEF s
<1>5. Purposeful(s)
  BY <1>1, <1>2, <1>3 DEF Purposeful, Reading
<1>6. QED BY <1>2, <1>3, <1>4, <1>5, BecomeTurns DEF Keeps

LEMMA LetsGo ==
  ASSUME DocsTyped, NEW r \in Requests, NEW pc, pc \in {"done", "failed"},
         Become(r, [req[r] EXCEPT !.pc = pc, !.locked = {}])
  PROVE  /\ Turns(r) /\ req' = [req EXCEPT ![r] = req'[r]]
         /\ req'[r] = [req[r] EXCEPT !.pc = pc, !.locked = {}]
<1> DEFINE s == [req[r] EXCEPT !.pc = pc, !.locked = {}]
<1>1. req[r] \in DocLocals
  BY DEF DocsTyped
<1>2. s \in DocLocals /\ s.pc = pc
  BY <1>1 DEF DocLocals
<1>3. Purposeful(s)
  BY <1>2 DEF Purposeful, Reading
<1>4. QED BY <1>2, <1>3, BecomeTurns

LEMMA ForgetTurns ==
  ASSUME DocsTyped, NEW r \in Requests, NEW o \in Orgs, NEW n \in Names, ForgetUpdate(r, o, n)
  PROVE  /\ Turns(r) /\ req' = [req EXCEPT ![r] = req'[r]]
         /\ req'[r].pc = "forget" /\ req'[r].org = o /\ req'[r].name = n
         /\ req'[r].locked = Active(Of(o, n)) /\ req'[r].sections = <<>>
<1> DEFINE s == [Fresh EXCEPT !.pc = "forget", !.op = "forget", !.org = o, !.name = n,
                              !.locked = Active(Of(o, n))]
<1>1. Active(Of(o, n)) \in SUBSET Rows
  BY OfIsRows
<1>2. Become(r, s)
  BY DEF ForgetUpdate
<1>3. /\ s \in DocLocals /\ s.pc = "forget" /\ s.op = "forget" /\ s.org = o /\ s.name = n
      /\ s.locked = Active(Of(o, n)) /\ s.sections = <<>>
  BY <1>1, FreshTyped, FreshIs DEF DocLocals
<1> HIDE DEF s
<1>4. Purposeful(s)
  BY <1>3 DEF Purposeful, Reading
<1>5. QED BY <1>2, <1>3, <1>4, BecomeTurns

LEMMA ExpandTurns ==
  ASSUME DocsTyped, NEW r \in Requests, NEW o \in Orgs, NEW n \in Names, ExpandRead(r, o, n)
  PROVE  /\ Turns(r) /\ req' = [req EXCEPT ![r] = req'[r]]
         /\ req'[r].pc \in {"done", "expand"} /\ req'[r].op = "expand" /\ req'[r].org = o
         /\ req'[r].base = {row \in rows : row.org = o /\ row.name \in Skills}
         /\ req'[r].locked = {} /\ req'[r].sections = <<>>
<1> DEFINE base == {row \in rows : row.org = o /\ row.name \in Skills}
<1>1. PICK found \in SUBSET Rows, v \in Nat :
        Become(r, [Fresh EXCEPT
                 !.pc = IF found = {} THEN "done" ELSE "expand",
                 !.op = "expand", !.org = o, !.name = n,
                 !.n = v,
                 !.recipe = IF found = {} THEN <<>>
                            ELSE (CHOOSE row \in found : TRUE).recipe,
                 !.base = base])
  <2>1. PICK version \in {Nil} \cup Versions(Of(o, n)) :
          LET found == Found(o, n, version)
          IN  Become(r, [Fresh EXCEPT
                    !.pc = IF found = {} THEN "done" ELSE "expand",
                    !.op = "expand", !.org = o, !.name = n,
                    !.n = Newest(found),
                    !.recipe = IF found = {} THEN <<>>
                               ELSE (CHOOSE row \in found : TRUE).recipe,
                    !.base = base])
    BY DEF ExpandRead
  <2>2. Found(o, n, version) \in SUBSET Rows /\ Newest(Found(o, n, version)) \in Nat
    BY FoundIs
  <2>3. QED BY <2>1, <2>2
<1> DEFINE pc == IF found = {} THEN "done" ELSE "expand"
           recipe == IF found = {} THEN <<>> ELSE (CHOOSE row \in found : TRUE).recipe
<1>2. recipe \in Seq(Refs)
  <2>1. CASE found = {}
    BY <2>1
  <2>2. CASE found # {}
    <3>1. (CHOOSE row \in found : TRUE) \in found
      BY <2>2
    <3>2. QED BY <2>2, <3>1 DEF Rows
  <2>3. QED BY <2>1, <2>2
<1>3. pc \in {"done", "expand"}
  OBVIOUS
<1>4. base \in SUBSET (Rows \cup Goals)
  BY DEF DocsTyped
<1> DEFINE s == [Fresh EXCEPT !.pc = pc, !.op = "expand", !.org = o, !.name = n, !.n = v,
                              !.recipe = recipe, !.base = base]
<1>5. Become(r, s)
  BY <1>1
<1> HIDE DEF pc, recipe, base
<1>6. /\ s \in DocLocals /\ s.pc = pc /\ s.op = "expand" /\ s.org = o /\ s.base = base
      /\ s.locked = {} /\ s.sections = <<>>
  BY <1>2, <1>3, <1>4, FreshTyped, FreshIs DEF DocLocals
<1> HIDE DEF s
<1>7. Purposeful(s)
  BY <1>3, <1>6 DEF Purposeful, Reading
<1>8. Turns(r) /\ req' = [req EXCEPT ![r] = req'[r]] /\ req'[r] = s
  BY <1>3, <1>5, <1>6, <1>7, BecomeTurns
<1>9. QED BY <1>3, <1>6, <1>8 DEF base

LEMMA SkillTurns ==
  ASSUME DocsTyped, NEW r \in Requests, ExpandSkill(r)
  PROVE  /\ Turns(r) /\ req' = [req EXCEPT ![r] = req'[r]]
         /\ LET ref == req[r].recipe[Len(req[r].sections) + 1]
            IN  /\ ref \in Refs /\ Newest(Found(req[r].org, ref.name, ref.version)) \in Nat
                /\ req'[r] = [req[r] EXCEPT !.sections =
                     Append(@, Newest(Found(req[r].org, ref.name, ref.version)))]
<1> DEFINE ref == req[r].recipe[Len(req[r].sections) + 1]
           v == Newest(Found(req[r].org, ref.name, ref.version))
           s == [req[r] EXCEPT !.sections = Append(@, v)]
<1>1. req[r] \in DocLocals /\ Purposeful(req[r])
  BY DEF DocsTyped
<1>2. v \in Nat
  BY FoundIs
<1>3. ref \in Refs
  <2>1. req[r].recipe \in Seq(Refs) /\ req[r].sections \in Seq(Nat)
    BY <1>1 DEF DocLocals
  <2>2. Len(req[r].sections) + 1 \in 1 .. Len(req[r].recipe)
    BY <2>1 DEF ExpandSkill
  <2>3. QED BY <2>1, <2>2
<1>4. Become(r, s) /\ req[r].pc = "expand"
  BY DEF ExpandSkill
<1> HIDE DEF v, ref
<1>5. Append(req[r].sections, v) \in Seq(Nat)
  BY <1>1, <1>2 DEF DocLocals
<1>6. s \in DocLocals /\ s.pc = "expand"
  BY <1>1, <1>4, <1>5 DEF DocLocals
<1>7. Purposeful(s)
  BY <1>1, <1>4 DEF Purposeful, Reading, DocLocals
<1>8. Turns(r) /\ req' = [req EXCEPT ![r] = req'[r]] /\ req'[r] = s
  BY <1>4, <1>6, <1>7, BecomeTurns
<1>9. QED BY <1>2, <1>3, <1>8 DEF v, ref

LEMMA RowOfIs ==
  ASSUME DocsTyped, NEW r \in Requests, req[r].pc = "commit", req[r].n # 0
  PROVE  RowOf(r) \in Rows
<1>1. req[r] \in DocLocals /\ Purposeful(req[r])
  BY DEF DocsTyped
<1>2. req[r].org \in Orgs /\ req[r].name \in Names /\ req[r].n \in Nat \ {0}
        /\ req[r].recipe \in Seq(Refs)
  BY <1>1 DEF DocLocals, Purposeful
<1>3. QED BY <1>2 DEF RowOf, Rows

LEMMA ForgottenIs == \A S \in SUBSET Rows : Forgotten(S) \in SUBSET Rows
BY DEF Forgotten, Rows

(* A goal is set.                                                          *)
LEMMA AddTurns ==
  ASSUME DocsTyped, NEW r \in Requests, NEW goal, Add(r, goal)
  PROVE  /\ Turns(r) /\ req' = [req EXCEPT ![r] = req'[r]]
         /\ req'[r].pc = "done" /\ req'[r].op = "goal"
         /\ req'[r].locked = {} /\ req'[r].sections = <<>>
<1> DEFINE s == [Fresh EXCEPT !.pc = "done", !.op = "goal"]
<1>1. Become(r, s)
  BY DEF Add
<1>2. s \in DocLocals /\ s.pc = "done" /\ s.op = "goal" /\ s.locked = {} /\ s.sections = <<>>
  BY FreshTyped, FreshIs DEF DocLocals
<1> HIDE DEF s
<1>3. Purposeful(s)
  BY <1>2 DEF Purposeful, Reading
<1>4. QED BY <1>1, <1>2, <1>3, BecomeTurns

GoalSet(r) == PlanSet(r) \/ ObjectiveSet(r) \/ KeyResultSet(r) \/ InitiativeSet(r)

LEMMA GoalSetAdds ==
  ASSUME DocsTyped, NEW r \in Requests, GoalSet(r)
  PROVE  \E goal \in Goals :
           /\ Add(r, goal) /\ goal.id = r /\ Shaped(goal)
           /\ goal.of # Nil => goal.of \in Ids("objective")
<1>0. \A k : Ids(k) \subseteq Requests
  BY DEF DocsTyped, Ids, Kind, Goals
<1>1. CASE PlanSet(r)
  BY <1>1, DocsAssumption DEF PlanSet, Plan, Goal, Goals, Shaped
<1>2. CASE ObjectiveSet(r)
  <2>1. PICK p \in Ids("plan") : Add(r, Objective(r, p))
    BY <1>2 DEF ObjectiveSet
  <2>2. p \in Requests
    BY <1>0
  <2>3. QED BY <2>1, <2>2, DocsAssumption DEF Objective, Goal, Goals, Shaped
<1>3. CASE KeyResultSet(r)
  <2>1. PICK g \in Ids("objective") : Add(r, KeyResult(r, g))
    BY <1>3 DEF KeyResultSet
  <2>2. g \in Requests
    BY <1>0
  <2>3. QED BY <2>1, <2>2, DocsAssumption DEF KeyResult, Goal, Goals, Shaped
<1>4. CASE InitiativeSet(r)
  <2>1. PICK p \in Ids("plan"), g \in Ids("objective") \cup {Nil} : Add(r, Initiative(r, p, g))
    BY <1>4 DEF InitiativeSet
  <2>2. p \in Requests /\ g \in Requests \cup {Nil}
    BY <1>0
  <2>3. QED BY <2>1, <2>2, DocsAssumption DEF Initiative, Goal, Goals, Shaped
<1>5. QED BY <1>1, <1>2, <1>3, <1>4 DEF GoalSet

LEMMA TreePlanTurns ==
  ASSUME DocsTyped, NEW r \in Requests, TreePlan(r)
  PROVE  /\ Turns(r) /\ req' = [req EXCEPT ![r] = req'[r]]
         /\ req'[r].pc = "objectives" /\ req'[r].op = "tree" /\ req'[r].name \in Requests
         /\ req'[r].base = goals /\ req'[r].shown = {}
         /\ req'[r].locked = {} /\ req'[r].sections = <<>>
<1>1. PICK p \in Ids("plan") :
        Become(r, [Fresh EXCEPT !.pc = "objectives", !.op = "tree", !.name = p,
                                !.base = goals])
  BY DEF TreePlan
<1>2. p \in Requests
  BY DEF DocsTyped, Ids, Kind, Goals
<1> DEFINE s == [Fresh EXCEPT !.pc = "objectives", !.op = "tree", !.name = p,
                              !.base = goals]
<1>3. goals \in SUBSET (Rows \cup Goals)
  BY DEF DocsTyped
<1>4. /\ s \in DocLocals /\ s.pc = "objectives" /\ s.op = "tree" /\ s.name = p
      /\ s.base = goals /\ s.shown = {} /\ s.locked = {} /\ s.sections = <<>>
  BY <1>2, <1>3, FreshTyped, FreshIs DEF DocLocals
<1>5. Become(r, s)
  BY <1>1
<1> HIDE DEF s
<1>6. Purposeful(s)
  BY <1>4 DEF Purposeful, Reading
<1>7. QED BY <1>2, <1>4, <1>5, <1>6, BecomeTurns

LEMMA ShowTurns ==
  ASSUME DocsTyped, NEW r \in Requests, NEW from \in Reading, NEW to,
         to \in {"key_results", "initiatives", "done"}, NEW found \in SUBSET goals,
         Show(r, from, to, found)
  PROVE  /\ Turns(r) /\ req' = [req EXCEPT ![r] = req'[r]]
         /\ req[r].op = "tree" /\ req'[r].op = "tree" /\ req'[r].pc = to
         /\ req'[r].shown = req[r].shown \cup found /\ Keeps(r)
         /\ req'[r].name = req[r].name
<1> DEFINE s == [req[r] EXCEPT !.pc = to, !.shown = @ \cup found]
<1>1. req[r] \in DocLocals /\ req[r].op = "tree" /\ Become(r, s)
  BY DEF DocsTyped, Show, Purposeful
<1>2. req[r].shown \cup found \in SUBSET Goals
  BY <1>1 DEF DocsTyped, DocLocals
<1>3. /\ s \in DocLocals /\ s.pc = to /\ s.op = "tree" /\ s.name = req[r].name
      /\ s.shown = req[r].shown \cup found
      /\ s.locked = req[r].locked /\ s.sections = req[r].sections
      /\ s.recipe = req[r].recipe /\ s.base = req[r].base
  BY <1>1, <1>2 DEF DocLocals
<1> HIDE DEF s
<1>4. Purposeful(s)
  BY <1>3 DEF Purposeful, Reading
<1>5. QED BY <1>1, <1>3, <1>4, BecomeTurns DEF Keeps

(* The soul is written.                                                    *)
LEMMA CompressedIs ==
  ASSUME NEW body \in Seq(Requests \cup {Nil})
  PROVE  /\ Compressed(body) \in Seq(Requests \cup {Nil}) /\ Len(Compressed(body)) <= SoulMax
         /\ Len(body) <= SoulMax => Compressed(body) = body
         /\ Len(body) > SoulMax =>
              /\ Len(Compressed(body)) = SoulMax
              /\ \A i \in 1 .. Len(body) : i < SoulMax => Compressed(body)[i] = body[i]
<1> DEFINE m == SoulMax - 1
<1>1. m \in Nat /\ m + 1 = SoulMax /\ Len(body) \in Nat
  BY DocsAssumption
<1>2. CASE Len(body) <= SoulMax
  BY <1>1, <1>2 DEF Compressed
<1>3. CASE Len(body) > SoulMax
  <2>1. Compressed(body) = Append(SubSeq(body, 1, m), Nil)
    BY <1>1, <1>3 DEF Compressed
  <2> HIDE DEF m
  <2>2. PICK head : head = SubSeq(body, 1, m)
    OBVIOUS
  <2>3. /\ head \in Seq(Requests \cup {Nil}) /\ Len(head) = m
        /\ \A i \in 1 .. m : head[i] = body[i]
    BY <1>1, <1>3, <2>2
  <2>4. /\ Append(head, Nil) \in Seq(Requests \cup {Nil}) /\ Len(Append(head, Nil)) = m + 1
        /\ \A i \in 1 .. m : Append(head, Nil)[i] = head[i]
    BY <1>1, <2>3
  <2>5. QED BY <1>1, <1>3, <2>1, <2>2, <2>3, <2>4
<1>4. QED BY <1>1, <1>2, <1>3

LEMMA UpsertTurns ==
  ASSUME DocsTyped, NEW r \in Requests, NEW op \in {"soul", "absorb"},
         NEW note \in Requests, NEW body \in Seq(Requests \cup {Nil}), Upsert(r, op, note, body)
  PROVE  /\ Turns(r) /\ req' = [req EXCEPT ![r] = req'[r]]
         /\ req'[r].pc = "done" /\ req'[r].op = op /\ req'[r].n = soul.version + 1
         /\ req'[r].name = note
         /\ req'[r].body = body /\ req'[r].from = req[r].from /\ Keeps(r)
         /\ soul.version \in Nat /\ soul' \in Souls
<1> DEFINE s == [req[r] EXCEPT !.pc = "done", !.op = op, !.n = soul.version + 1,
                               !.name = note, !.body = body]
<1>1. req[r] \in DocLocals /\ Become(r, s) /\ soul.version \in Nat
  BY DEF DocsTyped, Upsert, Souls
<1>2. soul.version + 1 \in Nat
  BY <1>1
<1>3. /\ s \in DocLocals /\ s.pc = "done" /\ s.op = op /\ s.n = soul.version + 1
      /\ s.name = note /\ s.body = body /\ s.from = req[r].from
      /\ s.locked = req[r].locked /\ s.sections = req[r].sections
      /\ s.recipe = req[r].recipe /\ s.base = req[r].base
  BY <1>1, <1>2 DEF DocLocals
<1> HIDE DEF s
<1>4. Purposeful(s)
  BY <1>3 DEF Purposeful, Reading
<1>5. soul' \in Souls
  BY <1>2, CompressedIs DEF Upsert, Souls
<1>6. QED BY <1>1, <1>3, <1>4, <1>5, BecomeTurns DEF Keeps

(* Both writers of the soul write a text made of notes.                    *)
LEMMA SoulSetUpserts ==
  ASSUME NEW r \in Requests, SoulSet(r)
  PROVE  \E body \in Seq(Requests \cup {Nil}) :
           /\ Upsert(r, "soul", r, body) /\ Within(body, r)
           /\ Len(body) \in Nat /\ \A i \in 1 .. Len(body) : body[i] = r
<1>1. PICK length \in 1 .. SoulMax + 1 : Upsert(r, "soul", r, [i \in 1 .. length |-> r])
  BY DEF SoulSet
<1>2. PICK body : body = [i \in 1 .. length |-> r]
  OBVIOUS
<1>3. length \in Nat /\ length >= 1
  BY <1>1, DocsAssumption
<1>4. body \in Seq(Requests \cup {Nil}) /\ Len(body) = length /\ \A i \in 1 .. length : body[i] = r
  BY <1>2, <1>3
<1>5. Within(body, r)
  BY <1>3, <1>4 DEF Within
<1>6. QED BY <1>1, <1>2, <1>3, <1>4, <1>5

LEMMA AbsorbWriteUpserts ==
  ASSUME DocsTyped, NEW r \in Requests, AbsorbWrite(r)
  PROVE  \E note \in Requests, body \in Seq(Requests \cup {Nil}) :
           /\ Upsert(r, "absorb", note, body) /\ Within(body, note)
           /\ \A x : Within(req[r].body, x) => Within(body, x)
<1>1. PICK note \in Observed(r) : Upsert(r, "absorb", note, Absorbed(r, note))
  BY DEF AbsorbWrite
<1>2. PICK seen : seen = req[r].body
  OBVIOUS
<1>3. seen \in Seq(Requests \cup {Nil}) /\ note \in Requests
  BY <1>1, <1>2 DEF DocsTyped, DocLocals, Observed
<1>4. CASE Within(seen, note)
  <2>1. Absorbed(r, note) = seen
    BY <1>2, <1>4 DEF Absorbed
  <2>2. QED BY <1>1, <1>2, <1>3, <1>4, <2>1
<1>5. CASE ~ Within(seen, note)
  <2>1. Absorbed(r, note) = Append(seen, note)
    BY <1>2, <1>5 DEF Absorbed
  <2>2. PICK body : body = Append(seen, note)
    OBVIOUS
  <2>3. /\ body \in Seq(Requests \cup {Nil}) /\ Len(body) = Len(seen) + 1
        /\ body[Len(body)] = note /\ \A i \in 1 .. Len(seen) : body[i] = seen[i]
    BY <1>3, <2>2
  <2>4. Len(seen) \in Nat /\ DOMAIN seen = 1 .. Len(seen) /\ DOMAIN body = 1 .. Len(body)
    BY <1>3, <2>3
  <2>5. Within(body, note)
    BY <2>3, <2>4 DEF Within
  <2>6. ASSUME NEW x, Within(seen, x)
        PROVE  Within(body, x)
    <3>1. PICK i \in 1 .. Len(seen) : seen[i] = x
      BY <2>4, <2>6 DEF Within
    <3>2. i \in DOMAIN body /\ body[i] = x
      BY <2>3, <2>4, <3>1
    <3>3. QED BY <3>2 DEF Within
  <2>7. Upsert(r, "absorb", note, body)
    BY <1>1, <2>1, <2>2
  <2>8. QED BY <1>2, <1>3, <2>3, <2>5, <2>6, <2>7
<1>6. QED BY <1>4, <1>5

LEMMA AbsorbReadTurns ==
  ASSUME DocsTyped, NEW r \in Requests, AbsorbRead(r)
  PROVE  /\ Turns(r) /\ req' = [req EXCEPT ![r] = req'[r]]
         /\ req'[r].pc = "absorb" /\ req'[r].op = "absorb"
         /\ req'[r].body = soul.body /\ req'[r].from = soul.version
         /\ req'[r].locked = {} /\ req'[r].sections = <<>>
<1> DEFINE s == [Fresh EXCEPT !.pc = "absorb", !.op = "absorb", !.body = soul.body,
                              !.from = soul.version]
<1>1. soul.body \in Seq(Requests \cup {Nil}) /\ soul.version \in Nat
  BY DEF DocsTyped, Souls
<1>2. /\ s \in DocLocals /\ s.pc = "absorb" /\ s.op = "absorb" /\ s.body = soul.body
      /\ s.from = soul.version /\ s.locked = {} /\ s.sections = <<>>
  BY <1>1, FreshTyped, FreshIs DEF DocLocals
<1>3. Become(r, s)
  BY DEF AbsorbRead
<1> HIDE DEF s
<1>4. Purposeful(s)
  BY <1>2 DEF Purposeful, Reading
<1>5. QED BY <1>2, <1>3, <1>4, BecomeTurns

LEMMA RejectedTurns ==
  ASSUME DocsTyped, NEW r \in Requests, SaveRejected(r)
  PROVE  /\ Turns(r) /\ req' = [req EXCEPT ![r] = req'[r]]
         /\ req'[r].pc = "rejected" /\ req'[r].locked = {} /\ req'[r].sections = <<>>
<1> DEFINE s == [Fresh EXCEPT !.pc = "rejected"]
<1>1. s \in DocLocals /\ s.pc = "rejected" /\ s.locked = {} /\ s.sections = <<>>
  BY FreshTyped, FreshIs DEF DocLocals
<1>2. Become(r, s)
  BY DEF SaveRejected
<1> HIDE DEF s
<1>3. Purposeful(s)
  BY <1>1 DEF Purposeful, Reading
<1>4. QED BY <1>1, <1>2, <1>3, BecomeTurns

----------------------------------------------------------------------------
(* The rows and who is at work on them.                                    *)

LEMMA NumberedBy ==
  ASSUME NEW S \in SUBSET Rows, NEW k \in Nat, Versions(S) = 1 .. k
  PROVE  Newest(S) = k
<1>1. CASE k = 0
  <2>1. S = {}
    BY <1>1, VersionsOf
  <2>2. QED BY <1>1, <2>1, NewestOfNone
<1>2. CASE k # 0
  <2>1. k \in Versions(S) /\ \A w \in Versions(S) : w <= k
    BY <1>2
  <2>2. QED BY <2>1, NewestIs
<1>3. QED BY <1>1, <1>2

(* A section stays right as long as what is forgotten is not gone.         *)
LEMMA ShownStays ==
  ASSUME NEW q, NEW i, Shown(q, i), req'[q].sections = req[q].sections,
         req'[q].recipe = req[q].recipe, req'[q].base = req[q].base,
         req[q].base \in SUBSET Rows,
         \A row \in rows : row.status = "soft_deleted" => row \in rows'
  PROVE  Shown(q, i)'
<1>1. PICK ref, shown, base : /\ ref = req[q].recipe[i] /\ shown = req[q].sections[i]
                              /\ base = req[q].base
  OBVIOUS
<1>2. PICK then : then = {row \in Active(base) : row.name = ref.name
                                               /\ ref.version \in {Nil, row.version}}
  OBVIOUS
<1>3. Forgotten(then) \subseteq rows => Forgotten(then) \subseteq rows'
  <2>1. \A row \in then : [row EXCEPT !.status = "soft_deleted"].status = "soft_deleted"
    <3>1. \A row \in Rows : [row EXCEPT !.status = "soft_deleted"].status = "soft_deleted"
      BY DEF Rows
    <3>2. \A row \in then : row \in Rows
      BY <1>1, <1>2 DEF Active
    <3>3. QED BY <3>1, <3>2
  <2>2. QED BY <2>1 DEF Forgotten
<1>4. IF shown = 0 THEN Forgotten(then) \subseteq rows
      ELSE IF ref.version = Nil THEN shown >= Newest(then) ELSE shown = ref.version
  BY <1>1, <1>2 DEF Shown
<1>5. IF shown = 0 THEN Forgotten(then) \subseteq rows'
      ELSE IF ref.version = Nil THEN shown >= Newest(then) ELSE shown = ref.version
  BY <1>3, <1>4
<1>6. QED BY <1>1, <1>2, <1>5 DEF Shown, Active, Forgotten, Newest, Versions

LEMMA RowsStay ==
  ASSUME RowsSorted, rows' = rows
  PROVE  RowsSorted'
<1>1. Sorted'
  BY DEF RowsSorted, Sorted
<1>2. ASSUME NEW o \in Orgs, NEW n \in Names
      PROVE  Numbered(o, n)'
  <2>1. Of(o, n)' = Of(o, n)
    BY DEF Of
  <2>2. Newest(Of(o, n))' = Newest(Of(o, n)) /\ Versions(Of(o, n))' = Versions(Of(o, n))
    BY <2>1 DEF Newest, Versions
  <2>3. QED BY <2>2 DEF Numbered, RowsSorted
<1>3. QED BY <1>1, <1>2 DEF RowsSorted

LEMMA SameRows ==
  ASSUME DocsTyped, DocsKept, NEW r \in Requests, rows' = rows, Turns(r)
  PROVE  /\ RowsSorted'
         /\ \A q \in Requests : q # r => Saving(q)' /\ Forgetting(q)' /\ Expanding(q)'
<1>1. RowsSorted'
  BY RowsStay DEF DocsKept
<1>2. ASSUME NEW q \in Requests, q # r
      PROVE  Saving(q)' /\ Forgetting(q)' /\ Expanding(q)'
  <2>1. req'[q] = req[q] /\ Saving(q) /\ Forgetting(q) /\ Expanding(q)
    BY <1>2 DEF DocsKept, Turns
  <2>2. Own(q)' = Own(q)
    BY <2>1 DEF Own, Of
  <2>3. Saving(q)'
    BY <2>1, <2>2 DEF Saving, Versions
  <2>4. Forgetting(q)'
    BY <2>1, <2>2 DEF Forgetting, Active
  <2>5. Expanding(q)'
    <3>1. ASSUME NEW i \in DOMAIN req[q].sections
          PROVE  Shown(q, i)'
      <4>1. req[q].sections # <<>>
        OBVIOUS
      <4>2. QED BY <2>1, <4>1, ShownStays DEF Expanding
    <3>2. QED BY <2>1, <3>1 DEF Expanding, Forgotten, Active, Skills
  <2>6. QED BY <2>3, <2>4, <2>5
<1>3. QED BY <1>1, <1>2

LEMMA QuietRows ==
  ASSUME DocsTyped, DocsKept, NEW r \in Requests, rows' = rows, Turns(r),
         Saving(r)', Forgetting(r)', Expanding(r)',
         req'[r].pc = "commit" => \A q \in Requests : Alone(q, r)',
         \A q \in Requests : q # r => req[q].locked \cap req'[r].locked = {}
  PROVE  DocsKept'
<1>1. ASSUME NEW q \in Requests, NEW p \in Requests
      PROVE  Alone(q, p)' /\ (q # p => req'[q].locked \cap req'[p].locked = {})
  <2>1. CASE q # r /\ p # r
    BY <2>1 DEF DocsKept, Turns, Alone, SameKey
  <2>2. CASE q # r /\ p = r
    BY <2>2 DEF Turns, Alone
  <2>3. CASE q = r /\ p # r
    BY <2>3 DEF Turns, Alone, SameKey
  <2>4. CASE q = r /\ p = r
    BY <2>4 DEF Alone
  <2>5. QED BY <2>1, <2>2, <2>3, <2>4
<1>2. \A q \in Requests : Saving(q)' /\ Forgetting(q)' /\ Expanding(q)'
  BY SameRows
<1>3. QED BY <1>1, <1>2, SameRows DEF DocsKept

(* A step of a request that has nothing to do with rows from now on.       *)
AsideDocs(r) ==
  /\ rows' = rows /\ Turns(r)
  /\ req'[r].pc \notin {"insert", "commit", "refused", "forget", "expand"}
  /\ req'[r].locked = {}
  /\ \/ req'[r].sections = <<>>
     \/ /\ req'[r].sections = req[r].sections /\ req'[r].recipe = req[r].recipe
        /\ req'[r].base = req[r].base

LEMMA SectionsStay ==
  ASSUME DocsTyped, DocsKept, NEW r \in Requests, rows' = rows, Turns(r),
         \/ req'[r].sections = <<>>
         \/ /\ req'[r].sections = req[r].sections /\ req'[r].recipe = req[r].recipe
            /\ req'[r].base = req[r].base
  PROVE  /\ req'[r].sections # <<>> => req'[r].base \subseteq Rows
         /\ Len(req'[r].sections) <= Len(req'[r].recipe)
         /\ \A i \in DOMAIN req'[r].sections : Shown(r, i)'
<1>1. CASE req'[r].sections = <<>>
  <2>1. req'[r].recipe \in Seq(Refs)
    BY DEF Turns, DocLocals
  <2>2. Len(<<>>) = 0 /\ DOMAIN <<>> = {} /\ Len(req'[r].recipe) \in Nat
    BY <2>1
  <2>3. QED BY <1>1, <2>2
<1>2. CASE /\ req'[r].sections = req[r].sections /\ req'[r].recipe = req[r].recipe
           /\ req'[r].base = req[r].base
  <2>1. Expanding(r)
    BY DEF DocsKept
  <2>2. ASSUME NEW i \in DOMAIN req[r].sections
        PROVE  Shown(r, i)'
    <3>1. req[r].sections # <<>>
      OBVIOUS
    <3>2. QED BY <1>2, <2>1, <3>1, ShownStays DEF Expanding
  <2>3. QED BY <1>2, <2>1, <2>2 DEF Expanding
<1>3. QED BY <1>1, <1>2

LEMMA AsideKeepsDocs ==
  ASSUME DocsTyped, DocsKept, NEW r \in Requests, AsideDocs(r)
  PROVE  DocsKept'
<1>1. Saving(r)' /\ Forgetting(r)'
  BY DEF AsideDocs, Saving, Forgetting
<1>2. Expanding(r)'
  BY SectionsStay DEF AsideDocs, Expanding
<1>3. QED BY <1>1, <1>2, QuietRows DEF AsideDocs

LEMMA AsideSteps ==
  ASSUME DocsTyped, DocsKept, NEW r \in Requests,
         \/ \E o \in Orgs, n \in Names : PlaybookForm(r, o, n) \/ WikiForm(r, o, n)
         \/ SaveRejected(r) \/ ExpandDone(r) \/ GoalSet(r)
         \/ TreePlan(r) \/ TreeObjectives(r) \/ TreeKeyResults(r) \/ TreeInitiatives(r)
         \/ SoulSet(r) \/ AbsorbRead(r) \/ AbsorbWrite(r) \/ Abort(r)
  PROVE  AsideDocs(r) /\ req' = [req EXCEPT ![r] = req'[r]]
<1>0. req[r] \in DocLocals /\ (req[r].pc # "forget" => req[r].locked = {})
  BY DEF DocsTyped, DocsKept, Forgetting
<1>1. CASE \E o \in Orgs, n \in Names : PlaybookForm(r, o, n) \/ WikiForm(r, o, n)
  <2>1. PICK o \in Orgs, n \in Names : PlaybookForm(r, o, n) \/ WikiForm(r, o, n)
    BY <1>1
  <2>2. rows' = rows
    BY <2>1 DEF PlaybookForm, WikiForm
  <2>3. QED BY <2>1, <2>2, FormTurns DEF AsideDocs
<1>2. CASE SaveRejected(r)
  BY <1>2, RejectedTurns DEF AsideDocs, SaveRejected
<1>3. CASE ExpandDone(r)
  <2>1. req[r].pc = "expand" /\ Become(r, [req[r] EXCEPT !.pc = "done"]) /\ rows' = rows
    BY <1>3 DEF ExpandDone
  <2>2. Turns(r) /\ req' = [req EXCEPT ![r] = req'[r]] /\ req'[r].pc = "done" /\ Keeps(r)
    BY <2>1, GoesOn
  <2>3. QED BY <1>0, <2>1, <2>2 DEF AsideDocs, Keeps
<1>4. CASE GoalSet(r)
  <2>1. PICK goal \in Goals : Add(r, goal)
    BY <1>4, GoalSetAdds
  <2>2. rows' = rows
    BY <2>1 DEF Add
  <2>3. QED BY <2>1, <2>2, AddTurns DEF AsideDocs
<1>5. CASE TreePlan(r)
  BY <1>5, TreePlanTurns DEF AsideDocs, TreePlan
<1>6. CASE TreeObjectives(r) \/ TreeKeyResults(r) \/ TreeInitiatives(r)
  <2>1. PICK from \in Reading, to \in {"key_results", "initiatives", "done"},
             found \in SUBSET goals : Show(r, from, to, found)
    <3>1. CASE TreeObjectives(r)
      BY <3>1 DEF TreeObjectives, Kind, Reading
    <3>2. CASE TreeKeyResults(r)
      BY <3>2 DEF TreeKeyResults, Kind, Reading
    <3>3. CASE TreeInitiatives(r)
      BY <3>3 DEF TreeInitiatives, Kind, Reading
    <3>4. QED BY <1>6, <3>1, <3>2, <3>3
  <2>2. /\ Turns(r) /\ req' = [req EXCEPT ![r] = req'[r]]
        /\ req'[r].pc = to /\ Keeps(r)
    BY <2>1, ShowTurns
  <2>3. req'[r].pc # "forget" /\ req'[r].pc \notin {"insert", "commit", "refused", "expand"}
    BY <2>2
  <2>4. rows' = rows /\ req[r].pc = from
    BY <2>1 DEF Show
  <2>5. QED BY <1>0, <2>1, <2>2, <2>3, <2>4 DEF AsideDocs, Reading, Keeps
<1>7. CASE SoulSet(r) \/ AbsorbWrite(r)
  <2>1. PICK op \in {"soul", "absorb"}, note \in Requests, body \in Seq(Requests \cup {Nil}) :
          Upsert(r, op, note, body)
    BY <1>0, <1>7, SoulSetUpserts, AbsorbWriteUpserts
  <2>2. /\ Turns(r) /\ req' = [req EXCEPT ![r] = req'[r]]
        /\ req'[r].pc = "done" /\ Keeps(r)
    BY <2>1, UpsertTurns
  <2>3. rows' = rows /\ req[r].pc # "forget"
    BY <1>7, <2>1 DEF Upsert, SoulSet, AbsorbWrite, Begin
  <2>4. QED BY <1>0, <2>2, <2>3 DEF AsideDocs, Keeps
<1>8. CASE AbsorbRead(r)
  BY <1>8, AbsorbReadTurns DEF AsideDocs, AbsorbRead
<1>9. CASE Abort(r)
  <2>1. Become(r, [req[r] EXCEPT !.pc = "failed", !.locked = {}]) /\ rows' = rows
    BY <1>9 DEF Abort
  <2>2. /\ Turns(r) /\ req' = [req EXCEPT ![r] = req'[r]]
        /\ req'[r] = [req[r] EXCEPT !.pc = "failed", !.locked = {}]
    BY <2>1, LetsGo
  <2>3. /\ req'[r].pc = "failed" /\ req'[r].locked = {}
        /\ req'[r].sections = req[r].sections /\ req'[r].recipe = req[r].recipe
        /\ req'[r].base = req[r].base
    BY <1>0, <2>2 DEF DocLocals
  <2>4. QED BY <2>1, <2>2, <2>3 DEF AsideDocs
<1>10. QED BY <1>1, <1>2, <1>3, <1>4, <1>5, <1>6, <1>7, <1>8, <1>9

(* How many versions a name has.                                           *)
LEMMA HowMany ==
  ASSUME DocsTyped, DocsKept, NEW o \in Orgs, NEW n \in Names
  PROVE  Newest(Of(o, n)) \in Nat /\ Versions(Of(o, n)) = 1 .. Newest(Of(o, n))
BY DEF DocsKept, RowsSorted, Numbered

LEMMA SaveReadKeeps ==
  ASSUME DocsTyped, DocsKept, NEW r \in Requests, NEW o \in Orgs, NEW n \in Names,
         NEW recipes \in SUBSET Seq(Refs), SaveRead(r, o, n, recipes)
  PROVE  DocsKept' /\ Turns(r) /\ req' = [req EXCEPT ![r] = req'[r]] /\ rows' = rows
<1>1. rows' = rows
  BY DEF SaveRead
<1>2. Newest(Of(o, n)) \in Nat /\ Versions(Of(o, n)) = 1 .. Newest(Of(o, n))
  BY HowMany
<1>3. Turns(r) /\ req' = [req EXCEPT ![r] = req'[r]]
  BY <1>2, SaveReadTurns
<1>4. PICK recipe \in recipes : req'[r] = Save(o, n, recipe, Newest(Of(o, n)) + 1)
  BY <1>2, SaveReadTurns
<1>5. /\ req'[r].pc = "insert" /\ req'[r].org = o /\ req'[r].name = n
      /\ req'[r].n = Newest(Of(o, n)) + 1 /\ req'[r].base = Of(o, n)
      /\ req'[r].locked = {} /\ req'[r].sections = <<>>
  BY <1>4, FreshTyped, FreshIs DEF Save, DocLocals
<1>6. Own(r)' = Of(o, n)
  BY <1>1, <1>5 DEF Own, Of
<1>7. Saving(r)'
  <2>1. req'[r].n # 0 /\ req'[r].n - 1 = Newest(Of(o, n))
    BY <1>2, <1>5
  <2>2. Versions(req[r].base)' = 1 .. req'[r].n - 1
    BY <1>2, <1>5, <2>1 DEF Versions
  <2>3. Versions(req[r].base)' \subseteq Versions(Own(r))'
    BY <1>5, <1>6 DEF Versions
  <2>4. QED BY <1>5, <2>1, <2>2, <2>3 DEF Saving
<1>8. Forgetting(r)'
  BY <1>5 DEF Forgetting
<1>9. Expanding(r)'
  BY <1>1, <1>3, <1>5, SectionsStay DEF Expanding
<1>10. QED BY <1>1, <1>3, <1>5, <1>7, <1>8, <1>9, QuietRows

LEMMA InsertKeeps ==
  ASSUME DocsTyped, DocsKept, NEW r \in Requests, SaveInsert(r) \/ SaveRefused(r)
  PROVE  DocsKept' /\ Turns(r) /\ req' = [req EXCEPT ![r] = req'[r]] /\ rows' = rows
<1>1. PICK pc \in {"commit", "refused"} :
        /\ Become(r, [req[r] EXCEPT !.pc = pc])
        /\ pc = "commit" => ~ Taken(r)
        /\ pc = "refused" => Taken(r)
  BY DEF SaveInsert, SaveRefused
<1>2. req[r].pc = "insert" /\ ~ Blocked(r) /\ rows' = rows
  BY DEF SaveInsert, SaveRefused
<1>3. Turns(r) /\ req' = [req EXCEPT ![r] = req'[r]]
  BY <1>1, <1>2, GoesOn
<1>4. req[r] \in DocLocals /\ req[r].org \in Orgs /\ req[r].name \in Names
  BY <1>2 DEF DocsTyped, Purposeful
<1>5. /\ req'[r].pc = pc /\ Keeps(r)
      /\ req'[r].org = req[r].org /\ req'[r].name = req[r].name /\ req'[r].n = req[r].n
  BY <1>1, <1>2, GoesOn
<1>6. Own(r)' = Own(r)
  BY <1>2, <1>5 DEF Own, Of
<1>7. /\ req[r].n # 0 /\ Versions(req[r].base) = 1 .. req[r].n - 1
      /\ Versions(req[r].base) \subseteq Versions(Own(r)) /\ req[r].n \in Nat
      /\ req[r].locked = {}
  BY <1>2, <1>4 DEF DocsKept, Saving, Forgetting, DocLocals
<1>8. Saving(r)'
  <2>1. Versions(req[r].base)' = Versions(req[r].base) /\ Versions(Own(r))' = Versions(Own(r))
    BY <1>5, <1>6 DEF Versions, Keeps
  <2>2. CASE pc = "commit"
    <3>1. \A row \in Own(r) : row.version # req[r].n
      BY <1>1, <2>2 DEF Taken, SameKey, Own, Of
    <3>2. req[r].n \notin Versions(Own(r))
      BY <3>1 DEF Versions
    <3>3. QED BY <1>5, <1>7, <2>1, <2>2, <3>2 DEF Saving
  <2>3. CASE pc = "refused"
    <3>1. ASSUME Table[req[r].name] # "procedures"
          PROVE  req[r].n \in Versions(Own(r))
      <4>1. PICK row \in rows : SameKey(req[r].org, req[r].name, req[r].n,
                                        row.org, row.name, row.version)
        BY <1>1, <2>3 DEF Taken
      <4>2. row \in Own(r) /\ row.version = req[r].n
        BY <3>1, <4>1 DEF SameKey, Own, Of
      <4>3. QED BY <4>2 DEF Versions
    <3>2. req[r].n \notin Versions(req[r].base)
      BY <1>7
    <3>3. QED BY <1>5, <2>1, <2>3, <3>1, <3>2 DEF Saving
  <2>4. QED BY <2>2, <2>3
<1>9. Forgetting(r)'
  BY <1>5, <1>7 DEF Forgetting, Keeps
<1>10. Expanding(r)'
  BY <1>2, <1>3, <1>5, SectionsStay DEF Expanding, Keeps
<1>11. \A q \in Requests : Alone(q, r)'
  <2>1. ASSUME NEW q \in Requests, q # r, req[q].pc = "commit"
        PROVE  ~ SameKey(req[q].org, req[q].name, req[q].n, req[r].org, req[r].name, req[r].n)
    BY <1>2, <2>1 DEF Blocked, SameKey
  <2>2. QED BY <1>3, <1>5, <2>1 DEF Alone, Turns, SameKey
<1>12. QED BY <1>2, <1>3, <1>5, <1>7, <1>8, <1>9, <1>10, <1>11, QuietRows DEF Keeps

(* The row a save commits is one past the newest of its name.              *)
LEMMA CommitIs ==
  ASSUME DocsTyped, DocsKept, NEW r \in Requests, SaveCommit(r)
  PROVE  /\ Turns(r) /\ req' = [req EXCEPT ![r] = req'[r]]
         /\ req'[r].pc = "done" /\ req'[r].op = "save"
         /\ req'[r].locked = {} /\ Keeps(r)
         /\ req[r].org \in Orgs /\ req[r].name \in Names /\ RowOf(r) \in Rows
         /\ req[r].n = Newest(Own(r)) + 1 /\ Newest(Own(r)) \in Nat
         /\ Versions(Own(r)) = 1 .. Newest(Own(r))
         /\ rows' = rows \cup {RowOf(r)}
<1>1. /\ req[r].pc = "commit" /\ Become(r, [req[r] EXCEPT !.pc = "done"])
      /\ rows' = rows \cup {RowOf(r)}
  BY DEF SaveCommit
<1>2. Turns(r) /\ req' = [req EXCEPT ![r] = req'[r]]
  BY <1>1, GoesOn
<1>3. req[r] \in DocLocals /\ req[r].op = "save" /\ req[r].org \in Orgs /\ req[r].name \in Names
  BY <1>1 DEF DocsTyped, Purposeful
<1>4. req'[r].pc = "done" /\ req'[r].op = "save" /\ Keeps(r)
  BY <1>1, <1>3, GoesOn
<1>5. Saving(r) /\ req[r].locked = {}
  BY <1>1 DEF DocsKept, Forgetting
<1>6. Newest(Own(r)) \in Nat /\ Versions(Own(r)) = 1 .. Newest(Own(r))
  BY <1>3, HowMany DEF Own
<1>7. req[r].n = Newest(Own(r)) + 1
  <2>1. /\ req[r].n # 0 /\ req[r].n \in Nat /\ 1 .. req[r].n - 1 \subseteq Versions(Own(r))
        /\ req[r].n \notin Versions(Own(r))
    BY <1>1, <1>3, <1>5 DEF Saving, DocLocals
  <2>2. req[r].n > Newest(Own(r))
    BY <1>6, <2>1
  <2>3. CASE req[r].n - 1 > Newest(Own(r))
    <3>1. req[r].n - 1 \in 1 .. req[r].n - 1
      BY <1>6, <2>1, <2>3
    <3>2. QED BY <1>6, <2>1, <2>3, <3>1
  <2>4. QED BY <1>6, <2>1, <2>2, <2>3
<1>8. RowOf(r) \in Rows
  BY <1>1, <1>6, <1>7, RowOfIs
<1>9. QED BY <1>1, <1>2, <1>3, <1>4, <1>5, <1>6, <1>7, <1>8 DEF Keeps

LEMMA CommitOf ==
  ASSUME DocsTyped, DocsKept, NEW r \in Requests, SaveCommit(r), NEW o, NEW n
  PROVE  /\ <<o, n>> = <<req[r].org, req[r].name>> =>
              Of(o, n)' = Of(o, n) \cup {RowOf(r)} /\ Active(Of(o, n))' = Active(Of(o, n)) \cup {RowOf(r)}
         /\ <<o, n>> # <<req[r].org, req[r].name>> =>
              Of(o, n)' = Of(o, n) /\ Active(Of(o, n))' = Active(Of(o, n))
         /\ Versions(Of(o, n)) \subseteq Versions(Of(o, n))'
<1>1. rows' = rows \cup {RowOf(r)}
  BY DEF SaveCommit
<1>2. RowOf(r).org = req[r].org /\ RowOf(r).name = req[r].name /\ RowOf(r).status = "active"
  BY DEF RowOf
<1> HIDE DEF SaveCommit
<1>3. Of(o, n) \subseteq Of(o, n)'
  BY <1>1 DEF Of
<1>4. QED BY <1>1, <1>2, <1>3 DEF Of, Active, Versions

LEMMA CommitKeeps ==
  ASSUME DocsTyped, DocsKept, NEW r \in Requests, SaveCommit(r)
  PROVE  DocsKept'
<1> DEFINE k == Newest(Own(r))
           new == RowOf(r)
<1>1. /\ Turns(r) /\ req'[r].pc = "done" /\ req'[r].locked = {} /\ Keeps(r)
      /\ req[r].org \in Orgs /\ req[r].name \in Names /\ new \in Rows
      /\ req[r].n = k + 1 /\ k \in Nat /\ Versions(Own(r)) = 1 .. k
      /\ rows' = rows \cup {new} /\ req[r].pc = "commit"
  BY CommitIs DEF SaveCommit
<1>2. /\ new.org = req[r].org /\ new.name = req[r].name /\ new.status = "active"
      /\ new.version = k + 1
  BY <1>1 DEF RowOf
<1> HIDE DEF new, k
<1>3. \A row \in Own(r) : row.version <= k /\ row.version \in Nat
  <2>1. \A row \in Own(r) : row.version \in Versions(Own(r))
    BY DEF Versions
  <2>2. QED BY <1>1, <2>1
<1>4. Sorted'
  <2>1. Sorted
    BY DEF DocsKept, RowsSorted
  <2>2. \A row \in rows : row.org = new.org /\ row.name = new.name => row \in Own(r)
    BY <1>2 DEF Own, Of
  <2>3. QED BY <1>1, <1>2, <1>3, <2>1, <2>2 DEF Sorted
<1>5. ASSUME NEW o \in Orgs, NEW n \in Names
      PROVE  Numbered(o, n)'
  <2>1. CASE <<o, n>> = <<req[r].org, req[r].name>>
    <3>1. Of(o, n)' = Of(o, n) \cup {new} /\ Of(o, n) = Own(r)
      BY <2>1, CommitOf DEF Own, new
    <3>2. Of(o, n) \cup {new} \in SUBSET Rows
      BY <1>1, OfIsRows
    <3>3. Versions(Of(o, n) \cup {new}) = 1 .. k + 1
      <4>1. Versions(Of(o, n) \cup {new}) = Versions(Of(o, n)) \cup {k + 1}
        BY <1>2 DEF Versions
      <4>2. (1 .. k) \cup {k + 1} = 1 .. k + 1
        BY <1>1
      <4>3. QED BY <1>1, <3>1, <4>1, <4>2
    <3>4. Newest(Of(o, n) \cup {new}) = k + 1
      BY <1>1, <3>2, <3>3, NumberedBy
    <3>5. Newest(Of(o, n))' = k + 1 /\ Versions(Of(o, n))' = 1 .. k + 1
      BY <3>1, <3>3, <3>4 DEF Newest, Versions
    <3>6. QED BY <1>1, <3>5 DEF Numbered
  <2>2. CASE <<o, n>> # <<req[r].org, req[r].name>>
    <3>1. Of(o, n)' = Of(o, n)
      BY <2>2, CommitOf
    <3>2. Newest(Of(o, n))' = Newest(Of(o, n)) /\ Versions(Of(o, n))' = Versions(Of(o, n))
      BY <3>1 DEF Newest, Versions
    <3>3. QED BY <3>2 DEF Numbered, DocsKept, RowsSorted
  <2>3. QED BY <2>1, <2>2
<1>6. ASSUME NEW q \in Requests, q # r
      PROVE  Saving(q)' /\ Forgetting(q)' /\ Expanding(q)'
  <2>1. req'[q] = req[q] /\ Saving(q) /\ Forgetting(q) /\ Expanding(q) /\ Alone(q, r)
    BY <1>1, <1>6 DEF DocsKept, Turns
  <2>2. PICK o, n : o = req[q].org /\ n = req[q].name
    OBVIOUS
  <2>3. Own(q) = Of(o, n) /\ Own(q)' = Of(o, n)'
    BY <2>1, <2>2 DEF Own, Of
  <2>4. Saving(q)'
    <3>1. Versions(req[q].base)' = Versions(req[q].base)
      BY <2>1 DEF Versions
    <3>2. Versions(Own(q)) \subseteq Versions(Own(q))'
      <4>1. Versions(Of(o, n)) \subseteq Versions(Of(o, n))'
        BY CommitOf
      <4>2. Versions(Own(q))' = Versions(Of(o, n))'
        BY <2>3 DEF Versions
      <4>3. QED BY <2>3, <4>1, <4>2
    <3>3. ASSUME req[q].pc = "commit"
          PROVE  req[q].n \notin Versions(Own(q))'
      <4>1. req[q].n \notin Versions(Own(q))
        BY <2>1, <3>3 DEF Saving
      <4>2. CASE <<o, n>> = <<req[r].org, req[r].name>>
        <5>1. Own(q)' = Own(q) \cup {new}
          BY <2>3, <4>2, CommitOf DEF new
        <5>2. req[q].n # new.version
          BY <1>1, <1>2, <1>6, <2>1, <2>2, <3>3, <4>2 DEF Alone, SameKey
        <5>3. QED BY <4>1, <5>1, <5>2 DEF Versions
      <4>3. CASE <<o, n>> # <<req[r].org, req[r].name>>
        BY <2>3, <4>1, <4>3, CommitOf DEF Versions
      <4>4. QED BY <4>2, <4>3
    <3>4. QED BY <2>1, <3>1, <3>2, <3>3 DEF Saving
  <2>5. Forgetting(q)'
    <3>1. CASE <<o, n>> = <<req[r].org, req[r].name>>
      <4>1. Active(Own(q))' = Active(Own(q)) \cup {new} /\ Own(q) = Own(r)
        <5>1. Active(Of(o, n))' = Active(Of(o, n)) \cup {new}
          BY <3>1, CommitOf DEF new
        <5>2. Active(Own(q))' = Active(Of(o, n))'
          BY <2>3 DEF Active
        <5>3. QED BY <2>3, <3>1, <5>1, <5>2 DEF Own
      <4>2. \A old \in Active(Own(q)) : new.version > old.version
        BY <1>1, <1>2, <1>3, <4>1 DEF Active
      <4>3. QED BY <2>1, <4>1, <4>2 DEF Forgetting
    <3>2. CASE <<o, n>> # <<req[r].org, req[r].name>>
      <4>1. Active(Own(q))' = Active(Own(q))
        <5>1. Active(Of(o, n))' = Active(Of(o, n))
          BY <3>2, CommitOf
        <5>2. Active(Own(q))' = Active(Of(o, n))'
          BY <2>3 DEF Active
        <5>3. QED BY <2>3, <5>1, <5>2
      <4>2. QED BY <2>1, <4>1 DEF Forgetting
    <3>3. QED BY <3>1, <3>2
  <2>6. Expanding(q)'
    <3>1. ASSUME NEW i \in DOMAIN req[q].sections
          PROVE  Shown(q, i)'
      <4>1. req[q].sections # <<>>
        OBVIOUS
      <4>2. QED BY <1>1, <2>1, <4>1, ShownStays DEF Expanding
    <3>2. QED BY <1>1, <2>1, <3>1 DEF Expanding, Forgotten, Active, Skills
  <2>7. QED BY <2>4, <2>5, <2>6
<1>7. Saving(r)' /\ Forgetting(r)'
  BY <1>1 DEF Saving, Forgetting
<1>8. Expanding(r)'
  <2>1. Expanding(r)
    BY DEF DocsKept
  <2>2. ASSUME NEW i \in DOMAIN req[r].sections
        PROVE  Shown(r, i)'
    <3>1. req[r].sections # <<>>
      OBVIOUS
    <3>2. QED BY <1>1, <2>1, <3>1, ShownStays DEF Expanding, Keeps
  <2>3. QED BY <1>1, <2>1, <2>2 DEF Expanding, Keeps
<1>9. ASSUME NEW q \in Requests, NEW p \in Requests
      PROVE  Alone(q, p)' /\ (q # p => req'[q].locked \cap req'[p].locked = {})
  BY <1>1 DEF DocsKept, Turns, Alone, SameKey
<1>10. QED BY <1>4, <1>5, <1>6, <1>7, <1>8, <1>9 DEF DocsKept, RowsSorted

LEMMA ForgetUpdateKeeps ==
  ASSUME DocsTyped, DocsKept, NEW r \in Requests, NEW o \in Orgs, NEW n \in Names,
         ForgetUpdate(r, o, n)
  PROVE  DocsKept' /\ Turns(r) /\ req' = [req EXCEPT ![r] = req'[r]] /\ rows' = rows
<1>1. rows' = rows /\ \A q \in Requests : req[q].locked \cap Active(Of(o, n)) = {}
  BY DEF ForgetUpdate
<1>2. /\ Turns(r) /\ req' = [req EXCEPT ![r] = req'[r]]
      /\ req'[r].pc = "forget" /\ req'[r].org = o /\ req'[r].name = n
      /\ req'[r].locked = Active(Of(o, n)) /\ req'[r].sections = <<>>
  BY ForgetTurns
<1>3. Active(Own(r))' = Active(Of(o, n))
  BY <1>1, <1>2 DEF Own, Of, Active
<1>4. Saving(r)' /\ Forgetting(r)'
  BY <1>2, <1>3 DEF Saving, Forgetting
<1>5. Expanding(r)'
  BY <1>1, <1>2, SectionsStay DEF Expanding
<1>6. QED BY <1>1, <1>2, <1>4, <1>5, QuietRows

(* What a forget does to the rows, one by one.                             *)
Forgot(row) == [row EXCEPT !.status = "soft_deleted"]

LEMMA ForgotIs ==
  ASSUME NEW row \in Rows
  PROVE  /\ Forgot(row) \in Rows /\ Forgot(row).status = "soft_deleted"
         /\ Forgot(row).org = row.org /\ Forgot(row).name = row.name
         /\ Forgot(row).version = row.version
BY DEF Forgot, Rows

LEMMA ForgetCommitIs ==
  ASSUME DocsTyped, DocsKept, NEW r \in Requests, ForgetCommit(r)
  PROVE  /\ Turns(r) /\ req' = [req EXCEPT ![r] = req'[r]]
         /\ req'[r].pc = "done" /\ req'[r].op = "forget" /\ req'[r].locked = {}
         /\ req'[r].sections = req[r].sections /\ req'[r].recipe = req[r].recipe
         /\ req'[r].base = req[r].base
         /\ req[r].org \in Orgs /\ req[r].name \in Names
         /\ req[r].locked \subseteq Active(Own(r)) /\ req[r].locked \in SUBSET Rows
         /\ \A row \in Active(Own(r)) \ req[r].locked, old \in req[r].locked :
              row.version > old.version
         /\ rows' = (rows \ req[r].locked) \cup {Forgot(row) : row \in req[r].locked}
<1>1. /\ req[r].pc = "forget" /\ Become(r, [req[r] EXCEPT !.pc = "done", !.locked = {}])
      /\ rows' = (rows \ req[r].locked) \cup {Forgot(row) : row \in req[r].locked}
  BY DEF ForgetCommit, Forgotten, Forgot
<1>2. /\ Turns(r) /\ req' = [req EXCEPT ![r] = req'[r]]
      /\ req'[r] = [req[r] EXCEPT !.pc = "done", !.locked = {}]
  BY <1>1, LetsGo
<1>3. /\ req[r] \in DocLocals /\ req[r].op = "forget" /\ req[r].org \in Orgs
      /\ req[r].name \in Names
  BY <1>1 DEF DocsTyped, Purposeful
<1>4. /\ req'[r].pc = "done" /\ req'[r].op = "forget" /\ req'[r].locked = {}
      /\ req'[r].sections = req[r].sections /\ req'[r].recipe = req[r].recipe
      /\ req'[r].base = req[r].base
  BY <1>2, <1>3 DEF DocLocals
<1>5. Forgetting(r) /\ req[r].locked \in SUBSET Rows
  BY <1>3 DEF DocsKept, DocLocals
<1>6. QED BY <1>1, <1>2, <1>3, <1>4, <1>5 DEF Forgetting

(* Every row there was is there, forgotten or not, and no other.           *)
LEMMA ForgetMoves ==
  ASSUME DocsTyped, DocsKept, NEW r \in Requests, ForgetCommit(r)
  PROVE  /\ \A row \in rows : row \in rows' \/ (row \in req[r].locked /\ Forgot(row) \in rows')
         /\ \A row \in rows' : \/ row \in rows \ req[r].locked
                               \/ \E old \in req[r].locked : row = Forgot(old)
         /\ \A row \in rows : row.status = "soft_deleted" => row \in rows'
         /\ rows \in SUBSET Rows /\ rows' \in SUBSET Rows /\ req[r].locked \in SUBSET rows
<1>1. /\ req[r].locked \subseteq Active(Own(r)) /\ req[r].locked \in SUBSET Rows
      /\ rows' = (rows \ req[r].locked) \cup {Forgot(row) : row \in req[r].locked}
  BY ForgetCommitIs
<1>2. req[r].locked \in SUBSET rows /\ \A row \in req[r].locked : row.status = "active"
  BY <1>1 DEF Active, Own, Of
<1>3. rows \in SUBSET Rows
  BY DEF DocsTyped
<1>4. QED BY <1>1, <1>2, <1>3, ForgotIs

LEMMA ForgetNumbers ==
  ASSUME DocsTyped, DocsKept, NEW r \in Requests, ForgetCommit(r), NEW o, NEW n
  PROVE  /\ Versions(Of(o, n))' = Versions(Of(o, n))
         /\ Active(Of(o, n))' = Active(Of(o, n)) \ req[r].locked
         /\ Of(o, n)' \in SUBSET Rows
<1>1. ASSUME NEW row \in Of(o, n)
      PROVE  \E now \in Of(o, n)' : now.version = row.version
  <2>1. row \in rows /\ row.org = o /\ row.name = n /\ row \in Rows
    BY DEF Of, DocsTyped
  <2>2. CASE row \in rows'
    BY <2>1, <2>2 DEF Of
  <2>3. CASE Forgot(row) \in rows'
    BY <2>1, <2>3, ForgotIs DEF Of
  <2>4. QED BY <2>1, <2>2, <2>3, ForgetMoves
<1>2. ASSUME NEW now \in Of(o, n)'
      PROVE  \E row \in Of(o, n) : now.version = row.version
  <2>1. now \in rows' /\ now.org = o /\ now.name = n
    BY DEF Of
  <2>2. CASE now \in rows
    BY <2>1, <2>2 DEF Of
  <2>3. CASE \E old \in req[r].locked : now = Forgot(old)
    <3>1. PICK old \in req[r].locked : now = Forgot(old)
      BY <2>3
    <3>2. old \in rows /\ old \in Rows
      BY ForgetMoves
    <3>3. QED BY <2>1, <3>1, <3>2, ForgotIs DEF Of
  <2>4. QED BY <2>1, <2>2, <2>3, ForgetMoves
<1>3. Versions(Of(o, n))' = Versions(Of(o, n))
  BY <1>1, <1>2 DEF Versions
<1>4. Active(Of(o, n))' = Active(Of(o, n)) \ req[r].locked
  <2>1. ASSUME NEW row \in Active(Of(o, n))'
        PROVE  row \in Active(Of(o, n)) \ req[r].locked
    <3>1. row \in rows' /\ row.org = o /\ row.name = n /\ row.status = "active"
      BY DEF Active, Of
    <3>2. \A old \in req[r].locked : Forgot(old).status = "soft_deleted"
      BY ForgetMoves, ForgotIs
    <3>3. row \in rows \ req[r].locked
      BY <3>1, <3>2, ForgetMoves
    <3>4. QED BY <3>1, <3>3 DEF Active, Of
  <2>2. ASSUME NEW row \in Active(Of(o, n)) \ req[r].locked
        PROVE  row \in Active(Of(o, n))'
    <3>1. row \in rows /\ row.org = o /\ row.name = n /\ row.status = "active"
      BY DEF Active, Of
    <3>2. row \in rows'
      BY <3>1, ForgetMoves
    <3>3. QED BY <3>1, <3>2 DEF Active, Of
  <2>3. QED BY <2>1, <2>2
<1>5. Of(o, n)' \in SUBSET Rows
  BY ForgetMoves DEF Of
<1>6. QED BY <1>3, <1>4, <1>5

LEMMA ForgetCommitKeeps ==
  ASSUME DocsTyped, DocsKept, NEW r \in Requests, ForgetCommit(r)
  PROVE  DocsKept'
<1> DEFINE L == req[r].locked
<1>1. /\ Turns(r) /\ req'[r].pc = "done" /\ req'[r].locked = {}
      /\ req'[r].sections = req[r].sections /\ req'[r].recipe = req[r].recipe
      /\ req'[r].base = req[r].base
      /\ L \subseteq Active(Own(r))
      /\ \A row \in Active(Own(r)) \ L, old \in L : row.version > old.version
  BY ForgetCommitIs
<1>2. /\ \A row \in rows : row \in rows' \/ (row \in L /\ Forgot(row) \in rows')
      /\ \A row \in rows' : row \in rows \ L \/ \E old \in L : row = Forgot(old)
      /\ \A row \in rows : row.status = "soft_deleted" => row \in rows'
      /\ rows \in SUBSET Rows /\ rows' \in SUBSET Rows /\ L \in SUBSET rows
  BY ForgetMoves
<1>3. \A o, n : /\ Versions(Of(o, n))' = Versions(Of(o, n))
                /\ Active(Of(o, n))' = Active(Of(o, n)) \ L
  BY ForgetNumbers
<1>4. \A row \in L : row.org = req[r].org /\ row.name = req[r].name /\ row.status = "active"
  BY <1>1 DEF Active, Own, Of
<1> HIDE DEF L
<1>5. Sorted'
  <2>1. Sorted
    BY DEF DocsKept, RowsSorted
  <2>2. ASSUME NEW row \in rows', NEW other \in rows', row.org = other.org,
               row.name = other.name
        PROVE  /\ row.version = other.version => row = other
               /\ row.status = "active" /\ other.status = "soft_deleted" =>
                    row.version > other.version
    <3>1. PICK x \in rows : /\ x.org = row.org /\ x.name = row.name /\ x.version = row.version
                            /\ IF x \in L THEN row = Forgot(x) ELSE row = x
      BY <1>2, ForgotIs
    <3>2. PICK y \in rows : /\ y.org = other.org /\ y.name = other.name
                            /\ y.version = other.version
                            /\ IF y \in L THEN other = Forgot(y) ELSE other = y
      BY <1>2, ForgotIs
    <3>3. row.version = other.version => row = other
      <4>1. row.version = other.version => x = y
        BY <2>1, <2>2, <3>1, <3>2 DEF Sorted
      <4>2. QED BY <3>1, <3>2, <4>1
    <3>4. ASSUME row.status = "active", other.status = "soft_deleted"
          PROVE  row.version > other.version
      <4>1. x \notin L /\ x.status = "active" /\ row = x
        BY <1>2, <3>1, <3>4, ForgotIs
      <4>2. CASE y \in L
        <5>1. x \in Active(Own(r)) \ L
          BY <1>4, <2>2, <3>1, <3>2, <4>1, <4>2 DEF Active, Own, Of
        <5>2. QED BY <1>1, <3>1, <3>2, <4>2, <5>1
      <4>3. CASE y \notin L
        BY <2>1, <2>2, <3>2, <3>4, <4>1, <4>3 DEF Sorted
      <4>4. QED BY <4>2, <4>3
    <3>5. QED BY <3>3, <3>4
  <2>3. QED BY <2>2 DEF Sorted
<1>6. ASSUME NEW o \in Orgs, NEW n \in Names
      PROVE  Numbered(o, n)'
  <2>1. PICK k \in Nat : Versions(Of(o, n)) = 1 .. k
    BY HowMany
  <2>2. PICK S \in SUBSET Rows : S = Of(o, n)'
    BY ForgetNumbers
  <2>3. Versions(S) = 1 .. k
    BY <1>3, <2>1, <2>2 DEF Versions
  <2>4. Newest(S) = k
    BY <2>3, NumberedBy
  <2>5. Newest(Of(o, n))' = k /\ Versions(Of(o, n))' = 1 .. k
    BY <2>2, <2>3, <2>4 DEF Newest, Versions
  <2>6. QED BY <2>5 DEF Numbered
<1>7. ASSUME NEW q \in Requests, q # r
      PROVE  Saving(q)' /\ Forgetting(q)' /\ Expanding(q)'
  <2>1. req'[q] = req[q] /\ Saving(q) /\ Forgetting(q) /\ Expanding(q)
    BY <1>1, <1>7 DEF DocsKept, Turns
  <2>2. req[q].locked \cap L = {}
    BY <1>7 DEF DocsKept, L
  <2>3. PICK o, n : o = req[q].org /\ n = req[q].name
    OBVIOUS
  <2>4. Own(q) = Of(o, n) /\ Own(q)' = Of(o, n)'
    BY <2>1, <2>3 DEF Own, Of
  <2>5. Versions(Own(q))' = Versions(Own(q)) /\ Active(Own(q))' = Active(Own(q)) \ L
    <3>1. Versions(Own(q))' = Versions(Of(o, n))' /\ Active(Own(q))' = Active(Of(o, n))'
      BY <2>4 DEF Versions, Active
    <3>2. QED BY <1>3, <2>4, <3>1
  <2>6. Saving(q)'
    <3>1. Versions(req[q].base)' = Versions(req[q].base)
      BY <2>1 DEF Versions
    <3>2. QED BY <2>1, <2>5, <3>1 DEF Saving
  <2>7. Forgetting(q)'
    BY <2>1, <2>2, <2>5 DEF Forgetting
  <2>8. Expanding(q)'
    <3>1. ASSUME NEW i \in DOMAIN req[q].sections
          PROVE  Shown(q, i)'
      <4>1. req[q].sections # <<>>
        OBVIOUS
      <4>2. QED BY <1>2, <2>1, <4>1, ShownStays DEF Expanding
    <3>2. ASSUME req[q].pc = "expand", NEW row \in Active(req[q].base)
          PROVE  row \in rows' \/ Forgotten({row}) \subseteq rows'
      <4>1. Forgotten({row}) = {Forgot(row)} /\ row \in Rows
        BY <2>1, <3>2 DEF Forgotten, Forgot, Expanding, Active
      <4>2. row \in rows \/ Forgot(row) \in rows
        BY <2>1, <3>2, <4>1 DEF Expanding
      <4>3. CASE row \in rows
        BY <1>2, <4>1, <4>3
      <4>4. CASE Forgot(row) \in rows
        BY <1>2, <4>1, <4>4, ForgotIs
      <4>5. QED BY <4>2, <4>3, <4>4
    <3>3. QED BY <2>1, <3>1, <3>2 DEF Expanding, Forgotten, Active, Skills
  <2>9. QED BY <2>6, <2>7, <2>8
<1>8. Saving(r)' /\ Forgetting(r)'
  BY <1>1 DEF Saving, Forgetting
<1>9. Expanding(r)'
  <2>1. Expanding(r)
    BY DEF DocsKept
  <2>2. ASSUME NEW i \in DOMAIN req[r].sections
        PROVE  Shown(r, i)'
    <3>1. req[r].sections # <<>>
      OBVIOUS
    <3>2. QED BY <1>1, <1>2, <2>1, <3>1, ShownStays DEF Expanding
  <2>3. QED BY <1>1, <2>1, <2>2 DEF Expanding
<1>10. ASSUME NEW q \in Requests, NEW p \in Requests
       PROVE  Alone(q, p)' /\ (q # p => req'[q].locked \cap req'[p].locked = {})
  BY <1>1 DEF DocsKept, Turns, Alone, SameKey
<1>11. QED BY <1>5, <1>6, <1>7, <1>8, <1>9, <1>10 DEF DocsKept, RowsSorted

LEMMA ExpandReadKeeps ==
  ASSUME DocsTyped, DocsKept, NEW r \in Requests, NEW o \in Orgs, NEW n \in Names,
         ExpandRead(r, o, n)
  PROVE  DocsKept' /\ Turns(r) /\ req' = [req EXCEPT ![r] = req'[r]] /\ rows' = rows
<1>1. rows' = rows
  BY DEF ExpandRead
<1>2. /\ Turns(r) /\ req' = [req EXCEPT ![r] = req'[r]]
      /\ req'[r].pc \in {"done", "expand"} /\ req'[r].org = o
      /\ req'[r].base = {row \in rows : row.org = o /\ row.name \in Skills}
      /\ req'[r].locked = {} /\ req'[r].sections = <<>>
  BY ExpandTurns
<1>3. Saving(r)' /\ Forgetting(r)'
  BY <1>2 DEF Saving, Forgetting
<1>4. Expanding(r)'
  <2>1. req'[r].base \subseteq Rows /\ req'[r].base \subseteq rows
    BY <1>2 DEF DocsTyped
  <2>2. \A row \in req'[r].base : row.org = o /\ row.name \in Skills
    BY <1>2
  <2>3. QED BY <1>1, <1>2, <2>1, <2>2, SectionsStay DEF Expanding, Active, Skills
<1>5. QED BY <1>1, <1>2, <1>3, <1>4, QuietRows

(* The section that is read next.                                          *)
WasThere(r, ref) ==
  {row \in Active(req[r].base) : row.name = ref.name /\ ref.version \in {Nil, row.version}}

Right(v, ref, then) ==
  IF v = 0 THEN Forgotten(then) \subseteq rows
  ELSE IF ref.version = Nil THEN v >= Newest(then) ELSE v = ref.version

LEMMA SectionIs ==
  ASSUME DocsTyped, DocsKept, NEW r \in Requests, req[r].pc = "expand",
         NEW ref \in Refs, NEW o, o = req[r].org, NEW found, NEW then,
         found = Found(o, ref.name, ref.version),
         then = WasThere(r, ref)
  PROVE  Right(Newest(found), ref, then)
<1> DEFINE all == Active(Of(o, ref.name))
           v == IF ref.version = Nil THEN Latest(o, ref.name) ELSE ref.version
<1>1. /\ req[r].base \subseteq Rows
      /\ \A row \in req[r].base : row.org = o
      /\ \A row \in Active(req[r].base) : row \in rows \/ Forgotten({row}) \subseteq rows
  BY DEF DocsKept, Expanding
<1>2. /\ found \in SUBSET Rows /\ found = {row \in all : row.version = v}
      /\ all \in SUBSET Rows
  BY FoundIs, OfIsRows DEF Found
<1>3. found # {} => Newest(found) = v
  BY <1>2, NewestOfOne
<1>4. found = {} => Newest(found) = 0
  BY NewestOfNone
<1>5. \A row \in found : v = row.version /\ v \in Nat \ {0}
  BY <1>2 DEF Rows
<1>6. Newest(found) = 0 <=> found = {}
  BY <1>3, <1>4, <1>5
<1>7. \A row \in then : row \in Rows /\ row.org = o /\ row.name = ref.name
                        /\ row.status = "active" /\ ref.version \in {Nil, row.version}
                        /\ (row \in rows \/ Forgot(row) \in rows)
  BY <1>1 DEF Active, Forgotten, Forgot, WasThere
<1>8. \A row \in then : row \in rows => row \in all
  BY <1>7 DEF Active, Of
<1>9. PICK m \in Nat : Versions(all) \subseteq 0 .. m
  <2>1. ref.name \in Names /\ o \in Orgs
    BY DEF Refs, Skills, DocsTyped, Purposeful
  <2>2. Versions(Of(o, ref.name)) = 1 .. Newest(Of(o, ref.name)) /\ Newest(Of(o, ref.name)) \in Nat
    BY <2>1, HowMany
  <2>3. Versions(all) \subseteq Versions(Of(o, ref.name))
    BY DEF Versions, Active
  <2>4. QED BY <2>2, <2>3
<1>10. all # {} => /\ Latest(o, ref.name) \in Versions(all)
                   /\ \A w \in Versions(all) : w <= Latest(o, ref.name)
  BY <1>2, <1>9, NewestExists DEF Latest
<1>11. ASSUME found = {}
       PROVE  Forgotten(then) \subseteq rows
  <2>1. ASSUME NEW row \in then
        PROVE  row \notin rows
    <3>1. SUFFICES ASSUME row \in rows
                   PROVE  FALSE
      OBVIOUS
    <3>2. row \in all
      BY <1>8, <3>1
    <3>3. CASE ref.version = Nil
      <4>1. PICK top \in all : top.version = v
        BY <1>10, <3>2, <3>3 DEF Versions
      <4>2. QED BY <1>2, <1>11, <4>1
    <3>4. CASE ref.version # Nil
      BY <1>2, <1>7, <1>11, <3>2, <3>4
    <3>5. QED BY <3>3, <3>4
  <2>2. \A row \in then : Forgot(row) \in rows
    BY <1>7, <2>1
  <2>3. QED BY <2>2 DEF Forgotten, Forgot
<1>12. ASSUME found # {}, ref.version = Nil
       PROVE  Newest(found) >= Newest(then)
  <2>1. PICK top \in found : TRUE
    BY <1>12
  <2>2. /\ top \in rows /\ top.org = o /\ top.name = ref.name /\ top.status = "active"
        /\ top.version = v /\ v \in Nat /\ top \in all /\ v = Latest(o, ref.name)
    BY <1>2, <1>5, <1>12, <2>1 DEF Active, Of
  <2>3. ASSUME NEW row \in then
        PROVE  row.version <= v
    <3>1. CASE row \in rows
      <4>1. row.version \in Versions(all)
        BY <1>8, <3>1 DEF Versions
      <4>2. QED BY <1>10, <2>2, <4>1
    <3>2. CASE Forgot(row) \in rows
      <4>1. /\ Forgot(row).status = "soft_deleted" /\ Forgot(row).org = o
            /\ Forgot(row).name = ref.name /\ Forgot(row).version = row.version
            /\ row.version \in Nat
        BY <1>7, ForgotIs DEF Rows
      <4>2. top.version > Forgot(row).version
        BY <2>2, <3>2, <4>1 DEF DocsKept, RowsSorted, Sorted
      <4>3. QED BY <2>2, <4>1, <4>2
    <3>3. QED BY <1>7, <3>1, <3>2
  <2>4. CASE then = {}
    <3>1. Newest(then) = 0
      BY <2>4, NewestOfNone
    <3>2. QED BY <1>3, <1>12, <2>2, <3>1
  <2>5. CASE then # {}
    <3>1. then \in SUBSET Rows
      BY <1>7
    <3>2. \A w \in Versions(then) : w <= v /\ w \in Nat
      BY <2>3, <3>1, VersionsOf DEF Versions
    <3>3. Versions(then) \subseteq 0 .. v
      BY <2>2, <3>2
    <3>4. Newest(then) \in Versions(then)
      BY <2>2, <2>5, <3>1, <3>3, NewestExists
    <3>5. QED BY <1>3, <1>12, <2>2, <3>2, <3>4
  <2>6. QED BY <2>4, <2>5
<1>13. QED BY <1>3, <1>6, <1>11, <1>12 DEF Right

LEMMA ExpandSkillKeeps ==
  ASSUME DocsTyped, DocsKept, NEW r \in Requests, ExpandSkill(r)
  PROVE  DocsKept' /\ Turns(r) /\ req' = [req EXCEPT ![r] = req'[r]] /\ rows' = rows
<1>1. /\ rows' = rows /\ req[r].pc = "expand"
      /\ Len(req[r].sections) < Len(req[r].recipe)
  BY DEF ExpandSkill
<1>2. req[r] \in DocLocals
  BY DEF DocsTyped
<1>3. PICK ref, v, o, m : /\ ref = req[r].recipe[Len(req[r].sections) + 1]
                          /\ v = Newest(Found(req[r].org, ref.name, ref.version))
                          /\ o = req[r].org /\ m = Len(req[r].sections)
  OBVIOUS
<1>4. /\ Turns(r) /\ req' = [req EXCEPT ![r] = req'[r]] /\ ref \in Refs /\ v \in Nat
      /\ req'[r] = [req[r] EXCEPT !.sections = Append(@, v)]
  BY <1>3, SkillTurns
<1>5. /\ req'[r].pc = "expand" /\ req'[r].sections = Append(req[r].sections, v)
      /\ req'[r].recipe = req[r].recipe /\ req'[r].base = req[r].base
      /\ req'[r].locked = req[r].locked /\ req'[r].org = o
  BY <1>1, <1>2, <1>3, <1>4 DEF DocLocals
<1>6. Expanding(r) /\ req[r].locked = {}
  BY <1>1 DEF DocsKept, Forgetting
<1>7. Saving(r)' /\ Forgetting(r)'
  BY <1>5, <1>6 DEF Saving, Forgetting
<1>8. /\ req[r].sections \in Seq(Nat) /\ m \in Nat /\ Len(Append(req[r].sections, v)) = m + 1
      /\ Append(req[r].sections, v)[m + 1] = v
      /\ \A i \in 1 .. m : Append(req[r].sections, v)[i] = req[r].sections[i]
      /\ DOMAIN req[r].sections = 1 .. m /\ DOMAIN Append(req[r].sections, v) = 1 .. m + 1
  <2>1. PICK L \in Seq(Nat) : L = req[r].sections
    BY <1>2 DEF DocLocals
  <2>2. m = Len(L)
    BY <1>3, <2>1
  <2>3. /\ m \in Nat /\ Len(Append(L, v)) = m + 1 /\ Append(L, v)[m + 1] = v
        /\ \A i \in 1 .. m : Append(L, v)[i] = L[i]
        /\ DOMAIN L = 1 .. m /\ DOMAIN Append(L, v) = 1 .. m + 1
    BY <1>4, <2>2
  <2>4. QED BY <2>1, <2>3
<1>9. ASSUME NEW i \in DOMAIN req'[r].sections
      PROVE  Shown(r, i)'
  <2>1. i \in 1 .. m + 1
    BY <1>5, <1>8
  <2>2. CASE i = m + 1
    <3>1. PICK then, base : /\ base = req[r].base
                            /\ then = {row \in Active(base) : row.name = ref.name
                                         /\ ref.version \in {Nil, row.version}}
      OBVIOUS
    <3>2. IF v = 0 THEN Forgotten(then) \subseteq rows
          ELSE IF ref.version = Nil THEN v >= Newest(then) ELSE v = ref.version
      <4>1. PICK found : found = Found(o, ref.name, ref.version)
        OBVIOUS
      <4>2. v = Newest(found)
        BY <1>3, <4>1
      <4>3. then = WasThere(r, ref)
        BY <3>1 DEF WasThere
      <4>4. Right(Newest(found), ref, then)
        BY <1>1, <1>3, <1>4, <4>1, <4>3, SectionIs
      <4>5. QED BY <4>2, <4>4 DEF Right
    <3>3. ref = req'[r].recipe[i] /\ v = req'[r].sections[i] /\ base = req'[r].base
      BY <1>3, <1>5, <1>8, <2>2, <3>1
    <3>4. QED BY <1>1, <3>1, <3>2, <3>3 DEF Shown, Active, Forgotten, Newest, Versions
  <2>3. CASE i \in 1 .. m
    <3>1. Shown(r, i) /\ req[r].sections # <<>>
      BY <1>6, <1>8, <2>3 DEF Expanding
    <3>2. PICK base, old, shown : /\ base = req[r].base /\ old = req[r].recipe[i]
                                  /\ shown = req[r].sections[i]
      OBVIOUS
    <3> DEFINE then == {row \in Active(base) : row.name = old.name
                          /\ old.version \in {Nil, row.version}}
    <3>3. IF shown = 0 THEN Forgotten(then) \subseteq rows
          ELSE IF old.version = Nil THEN shown >= Newest(then) ELSE shown = old.version
      BY <3>1, <3>2 DEF Shown
    <3>4. old = req'[r].recipe[i] /\ shown = req'[r].sections[i] /\ base = req'[r].base
      BY <1>5, <1>8, <2>3, <3>2
    <3>5. QED BY <1>1, <3>2, <3>3, <3>4 DEF Shown, Active, Forgotten, Newest, Versions
  <2>4. QED BY <1>8, <2>1, <2>2, <2>3
<1>10. Expanding(r)'
  <2>1. Len(req'[r].sections) <= Len(req'[r].recipe)
    <3>1. Len(req[r].recipe) \in Nat
      BY <1>2 DEF DocLocals
    <3>2. QED BY <1>1, <1>3, <1>5, <1>8, <3>1
  <2>2. /\ req'[r].base \subseteq Rows
        /\ \A row \in req'[r].base : row.org = req'[r].org /\ row.name \in Skills
        /\ \A row \in Active(req[r].base) : row \in rows \/ Forgotten({row}) \subseteq rows
    BY <1>1, <1>3, <1>5, <1>6 DEF Expanding
  <2>3. QED BY <1>1, <1>5, <1>9, <2>1, <2>2 DEF Expanding, Active, Forgotten, Skills
<1>11. QED BY <1>1, <1>4, <1>5, <1>6, <1>7, <1>10, QuietRows

LEMMA AsideWrites ==
  ASSUME DocsTyped, NEW r \in Requests,
         \/ \E o \in Orgs, n \in Names : PlaybookForm(r, o, n) \/ WikiForm(r, o, n)
         \/ SaveRejected(r) \/ ExpandDone(r) \/ GoalSet(r)
         \/ TreePlan(r) \/ TreeObjectives(r) \/ TreeKeyResults(r) \/ TreeInitiatives(r)
         \/ SoulSet(r) \/ AbsorbRead(r) \/ AbsorbWrite(r) \/ Abort(r)
  PROVE  goals' \in SUBSET Goals /\ soul' \in Souls
<1>1. CASE GoalSet(r)
  <2>1. PICK goal \in Goals : Add(r, goal)
    BY <1>1, GoalSetAdds
  <2>2. QED BY <2>1 DEF Add, DocsTyped
<1>2. CASE SoulSet(r) \/ AbsorbWrite(r)
  <2>1. PICK op \in {"soul", "absorb"}, note \in Requests, body \in Seq(Requests \cup {Nil}) :
          Upsert(r, op, note, body)
    BY <1>2, SoulSetUpserts, AbsorbWriteUpserts
  <2>2. QED BY <2>1, UpsertTurns DEF Upsert, DocsTyped
<1>3. ASSUME ~ GoalSet(r), ~ (SoulSet(r) \/ AbsorbWrite(r))
      PROVE  goals' = goals /\ soul' = soul
  BY <1>3 DEF PlaybookForm, WikiForm, SaveRejected, ExpandDone, TreePlan, TreeObjectives,
              TreeKeyResults, TreeInitiatives, Show, AbsorbRead, Abort
<1>4. QED BY <1>1, <1>2, <1>3 DEF DocsTyped

(* All steps together.                                                     *)
LEMMA DocsStays ==
  ASSUME DocsTyped, DocsKept, [DocsNext]_docsVars
  PROVE  DocsTyped' /\ DocsKept'
<1>1. CASE UNCHANGED docsVars
  <2>1. DocsTyped'
    BY <1>1 DEF docsVars, DocsTyped, DocLocals, Rows, Goals, Souls, Purposeful, Reading, Fresh
  <2>2. DocsKept'
    <3>1. \A r \in Requests : Saving(r)' /\ Forgetting(r)'
      BY <1>1 DEF docsVars, DocsKept, Saving, Forgetting, Own, Of, Versions, Active
    <3>2. ASSUME NEW r \in Requests
          PROVE  Expanding(r)'
      <4>1. Expanding(r)
        BY DEF DocsKept
      <4>2. ASSUME NEW i \in DOMAIN req[r].sections
            PROVE  Shown(r, i)'
        <5>1. req[r].sections # <<>>
          OBVIOUS
        <5>2. QED BY <1>1, <4>1, <5>1, ShownStays DEF Expanding, docsVars
      <4>3. QED BY <1>1, <4>1, <4>2 DEF Expanding, Active, Forgotten, docsVars, Skills
    <3>3. RowsSorted'
      BY <1>1, RowsStay DEF DocsKept, docsVars
    <3>4. \A q, r \in Requests : Alone(q, r)' /\ (q # r => req'[q].locked \cap req'[r].locked = {})
      BY <1>1 DEF docsVars, DocsKept, Alone, SameKey
    <3>5. QED BY <3>1, <3>2, <3>3, <3>4 DEF DocsKept
  <2>3. QED BY <2>1, <2>2
<1>2. ASSUME NEW r \in Requests, Step(r)
      PROVE  DocsTyped' /\ DocsKept'
  <2>1. CASE \E o \in Orgs, n \in Names : SetByTool(r, o, n) \/ StatementSet(r, o, n) \/ Curate(r, o, n)
    <3>1. PICK o \in Orgs, n \in Names : SaveRead(r, o, n, RecipesOf(n))
      BY <2>1 DEF SetByTool, StatementSet, Curate
    <3>2. DocsKept' /\ Turns(r) /\ req' = [req EXCEPT ![r] = req'[r]] /\ rows' = rows
      BY <3>1, RecipesAre, SaveReadKeeps
    <3>3. goals' = goals /\ soul' = soul
      BY <3>1 DEF SaveRead
    <3>4. QED BY <3>2, <3>3, TurnsTyped DEF DocsTyped
  <2>2. CASE PlaybookPost(r) \/ WikiPost(r)
    <3>1. req[r] \in DocLocals /\ req[r].org \in Orgs /\ req[r].name \in Names
      BY <2>2 DEF DocsTyped, Purposeful, PlaybookPost, WikiPost
    <3>2. PICK recipe \in Seq(Refs) : SaveRead(r, req[r].org, req[r].name, {recipe})
      <4>1. <<>> \in Seq(Refs) /\ req[r].recipe \in Seq(Refs)
        BY <3>1 DEF DocLocals
      <4>2. QED BY <2>2, <4>1 DEF PlaybookPost, WikiPost
    <3>3. PICK o \in Orgs, n \in Names : SaveRead(r, o, n, {recipe})
      BY <3>1, <3>2
    <3>4. DocsKept' /\ Turns(r) /\ req' = [req EXCEPT ![r] = req'[r]] /\ rows' = rows
      BY <3>3, SaveReadKeeps
    <3>5. goals' = goals /\ soul' = soul
      BY <3>3 DEF SaveRead
    <3>6. QED BY <3>4, <3>5, TurnsTyped DEF DocsTyped
  <2>3. CASE SaveInsert(r) \/ SaveRefused(r)
    <3>1. DocsKept' /\ Turns(r) /\ req' = [req EXCEPT ![r] = req'[r]] /\ rows' = rows
      BY <2>3, InsertKeeps
    <3>2. goals' = goals /\ soul' = soul
      BY <2>3 DEF SaveInsert, SaveRefused
    <3>3. QED BY <3>1, <3>2, TurnsTyped DEF DocsTyped
  <2>4. CASE SaveCommit(r)
    <3>1. goals' = goals /\ soul' = soul
      BY <2>4 DEF SaveCommit
    <3>2. QED BY <2>4, <3>1, CommitKeeps, CommitIs, TurnsTyped DEF DocsTyped
  <2>5. CASE \E o \in Orgs, n \in Names : ForgetUpdate(r, o, n) \/ ExpandRead(r, o, n)
    <3>1. PICK o \in Orgs, n \in Names : ForgetUpdate(r, o, n) \/ ExpandRead(r, o, n)
      BY <2>5
    <3>2. DocsKept' /\ Turns(r) /\ req' = [req EXCEPT ![r] = req'[r]] /\ rows' = rows
      BY <3>1, ForgetUpdateKeeps, ExpandReadKeeps
    <3>3. goals' = goals /\ soul' = soul
      BY <3>1 DEF ForgetUpdate, ExpandRead
    <3>4. QED BY <3>2, <3>3, TurnsTyped DEF DocsTyped
  <2>6. CASE ForgetCommit(r)
    <3>1. goals' = goals /\ soul' = soul
      BY <2>6 DEF ForgetCommit
    <3>2. QED BY <2>6, <3>1, ForgetCommitKeeps, ForgetCommitIs, ForgetMoves, TurnsTyped DEF DocsTyped
  <2>7. CASE ExpandSkill(r)
    <3>1. goals' = goals /\ soul' = soul
      BY <2>7 DEF ExpandSkill
    <3>2. QED BY <2>7, <3>1, ExpandSkillKeeps, TurnsTyped DEF DocsTyped
  <2>8. CASE \/ \E o \in Orgs, n \in Names : PlaybookForm(r, o, n) \/ WikiForm(r, o, n)
             \/ SaveRejected(r) \/ ExpandDone(r) \/ GoalSet(r)
             \/ TreePlan(r) \/ TreeObjectives(r) \/ TreeKeyResults(r) \/ TreeInitiatives(r)
             \/ SoulSet(r) \/ AbsorbRead(r) \/ AbsorbWrite(r) \/ Abort(r)
    <3>1. AsideDocs(r) /\ req' = [req EXCEPT ![r] = req'[r]]
      BY <2>8, AsideSteps
    <3>2. goals' \in SUBSET Goals /\ soul' \in Souls
      BY <2>8, AsideWrites
    <3>3. QED BY <3>1, <3>2, AsideKeepsDocs, TurnsTyped DEF AsideDocs, DocsTyped
  <2>9. QED BY <1>2, <2>1, <2>2, <2>3, <2>4, <2>5, <2>6, <2>7, <2>8 DEF Step, GoalSet
<1>3. QED BY <1>1, <1>2 DEF DocsNext

----------------------------------------------------------------------------
(* What readers of a name are given.                                       *)
Onward(o, n) ==
  Latest(o, n)' \in {Latest(o, n), 0} \cup {v \in Versions(Of(o, n)') :
                       \A w \in Versions(Of(o, n)) : w < v}

LEMMA LatestStays ==
  ASSUME NEW o, NEW n, Active(Of(o, n))' = Active(Of(o, n))
  PROVE  Latest(o, n)' = Latest(o, n)
BY DEF Latest, Newest, Versions

LEMMA CommitGoesOn ==
  ASSUME DocsTyped, DocsKept, NEW r \in Requests, SaveCommit(r), NEW o \in Orgs, NEW n \in Names
  PROVE  Onward(o, n)
<1>1. CASE <<o, n>> # <<req[r].org, req[r].name>>
  <2>1. Active(Of(o, n))' = Active(Of(o, n))
    BY <1>1, CommitOf
  <2>2. QED BY <2>1, LatestStays DEF Onward
<1>2. CASE <<o, n>> = <<req[r].org, req[r].name>>
  <2>1. /\ Of(o, n)' = Of(o, n) \cup {RowOf(r)}
        /\ Active(Of(o, n))' = Active(Of(o, n)) \cup {RowOf(r)} /\ Of(o, n) = Own(r)
    BY <1>2, CommitOf DEF Own
  <2>2. PICK new, k : new = RowOf(r) /\ k = Newest(Own(r))
    OBVIOUS
  <2>3. /\ new \in Rows /\ k \in Nat /\ Versions(Of(o, n)) = 1 .. k /\ new.version = k + 1
    BY <2>1, <2>2, CommitIs DEF RowOf
  <2>4. PICK S : S = Active(Of(o, n)) \cup {new}
    OBVIOUS
  <2>5. S \in SUBSET Rows /\ Versions(S) \subseteq (1 .. k) \cup {k + 1} /\ k + 1 \in Versions(S)
    <3>1. Active(Of(o, n)) \in SUBSET Rows
      BY OfIsRows
    <3>2. Versions(Active(Of(o, n))) \subseteq Versions(Of(o, n))
      BY DEF Versions, Active
    <3>3. Versions(S) = Versions(Active(Of(o, n))) \cup {k + 1}
      BY <2>3, <2>4 DEF Versions
    <3>4. QED BY <2>3, <2>4, <3>1, <3>2, <3>3
  <2>6. Newest(S) = k + 1
    <3>1. \A w \in Versions(S) : w <= k + 1
      BY <2>3, <2>5
    <3>2. QED BY <2>5, <3>1, NewestIs
  <2>7. Latest(o, n)' = k + 1
    <3>1. Active(Of(o, n))' = S
      BY <2>1, <2>2, <2>4
    <3>2. QED BY <2>6, <3>1 DEF Latest, Newest, Versions
  <2>8. k + 1 \in Versions(Of(o, n)')
    BY <2>1, <2>2, <2>3 DEF Versions
  <2>9. \A w \in Versions(Of(o, n)) : w < k + 1
    BY <2>3
  <2>10. QED BY <2>7, <2>8, <2>9 DEF Onward
<1>3. QED BY <1>1, <1>2

LEMMA ForgetGoesOn ==
  ASSUME DocsTyped, DocsKept, NEW r \in Requests, ForgetCommit(r), NEW o \in Orgs, NEW n \in Names
  PROVE  Onward(o, n)
<1>1. PICK S, T, L : S = Active(Of(o, n)) /\ T = S \ L /\ L = req[r].locked
  OBVIOUS
<1>2. /\ Active(Of(o, n))' = T /\ S \in SUBSET Rows
  BY <1>1, ForgetNumbers, OfIsRows
<1>3. Latest(o, n) = Newest(S) /\ Latest(o, n)' = Newest(T)
  <2>1. Latest(o, n) = Newest(S)
    BY <1>1 DEF Latest
  <2>2. Latest(o, n)' = Newest(T)
    BY <1>2 DEF Latest, Newest, Versions
  <2>3. QED BY <2>1, <2>2
<1>4. CASE T = {}
  BY <1>3, <1>4, NewestOfNone DEF Onward
<1>5. CASE T # {}
  <2>1. PICK m \in Nat : Versions(S) \subseteq 0 .. m
    <3>1. Newest(Of(o, n)) \in Nat /\ Versions(Of(o, n)) = 1 .. Newest(Of(o, n))
      BY HowMany
    <3>2. Versions(S) \subseteq Versions(Of(o, n))
      BY <1>1 DEF Versions, Active
    <3>3. QED BY <3>1, <3>2
  <2>2. Newest(S) \in Versions(S) /\ \A w \in Versions(S) : w <= Newest(S)
    BY <1>1, <1>2, <1>5, <2>1, NewestExists
  <2>3. PICK top \in S : top.version = Newest(S)
    BY <2>2 DEF Versions
  <2>4. PICK row \in T : TRUE
    BY <1>5
  <2>5. row.version <= top.version /\ row \in Rows /\ top \in Rows
    BY <1>1, <1>2, <2>2, <2>3, <2>4 DEF Versions
  <2>6. top \notin L
    <3>1. SUFFICES ASSUME top \in L
                   PROVE  FALSE
      OBVIOUS
    <3>2. top \in Active(Own(r)) /\ \A a \in Active(Own(r)) \ L : a.version > top.version
      BY <1>1, <3>1, ForgetCommitIs
    <3>3. S = Active(Own(r))
      BY <1>1, <2>3, <3>2 DEF Own, Of, Active
    <3>4. row.version > top.version
      BY <1>1, <2>4, <3>2, <3>3
    <3>5. QED BY <2>5, <3>4 DEF Rows
  <2>7. T \in SUBSET Rows /\ Newest(S) \in Versions(T) /\ \A w \in Versions(T) : w <= Newest(S)
    BY <1>1, <1>2, <2>2, <2>3, <2>6 DEF Versions
  <2>8. Newest(T) = Newest(S)
    BY <2>7, NewestIs
  <2>9. QED BY <1>3, <2>8 DEF Onward
<1>6. QED BY <1>4, <1>5

LEMMA ReadersGoOn ==
  ASSUME DocsTyped, DocsKept, [DocsNext]_docsVars, NEW o \in Orgs, NEW n \in Names
  PROVE  Onward(o, n)
<1>1. CASE rows' = rows
  <2>1. Active(Of(o, n))' = Active(Of(o, n))
    BY <1>1 DEF Active, Of
  <2>2. QED BY <2>1, LatestStays DEF Onward
<1>2. CASE rows' # rows
  <2>1. PICK r \in Requests : Step(r)
    BY <1>2 DEF DocsNext, docsVars
  <2>2. SaveCommit(r) \/ ForgetCommit(r)
    BY <1>2, <2>1 DEF Step, SetByTool, StatementSet, Curate, SaveRead, PlaybookForm, WikiForm,
         ForgetUpdate, ExpandRead, SaveRejected, PlaybookPost, WikiPost, SaveInsert,
         SaveRefused, ExpandSkill, ExpandDone, PlanSet, ObjectiveSet, KeyResultSet,
         InitiativeSet, Add, TreePlan, TreeObjectives, TreeKeyResults, TreeInitiatives, Show,
         SoulSet, AbsorbRead, AbsorbWrite, Upsert, Abort
  <2>3. QED BY <2>2, CommitGoesOn, ForgetGoesOn
<1>3. QED BY <1>1, <1>2

LEMMA DocsStart ==
  ASSUME DocsInit
  PROVE  DocsTyped /\ DocsKept
<1>1. rows = {} /\ goals = {} /\ soul = NoSoul /\ req = [r \in Requests |-> Fresh]
  BY DEF DocsInit
<1>2. \A r \in Requests : req[r] = Fresh
  BY <1>1
<1>3. DocsTyped
  <2>1. NoSoul \in Souls
    BY DEF NoSoul, Souls
  <2>2. req \in [Requests -> DocLocals]
    BY <1>1, FreshTyped
  <2>3. QED BY <1>1, <1>2, <2>1, <2>2, FreshTyped DEF DocsTyped
<1>4. RowsSorted
  <2>1. \A o, n : Of(o, n) = {} /\ Versions(Of(o, n)) = {}
    BY <1>1 DEF Of, Versions
  <2>2. \A o, n : Newest(Of(o, n)) = 0
    BY <2>1, NewestOfNone
  <2>3. ASSUME NEW o \in Orgs, NEW n \in Names
        PROVE  Numbered(o, n)
    <3>1. 1 .. 0 = {}
      OBVIOUS
    <3>2. QED BY <2>1, <2>2, <3>1 DEF Numbered
  <2>4. Sorted
    BY <1>1 DEF Sorted
  <2>5. QED BY <2>3, <2>4 DEF RowsSorted
<1>5. \A r \in Requests : Saving(r) /\ Forgetting(r)
  BY <1>2, FreshIs DEF Saving, Forgetting
<1>6. \A r \in Requests : Expanding(r)
  <2>1. Len(<<>>) = 0 /\ DOMAIN <<>> = {}
    OBVIOUS
  <2>2. QED BY <1>2, <2>1, FreshIs DEF Expanding
<1>7. \A q, r \in Requests : Alone(q, r) /\ (q # r => req[q].locked \cap req[r].locked = {})
  BY <1>2, FreshIs DEF Alone
<1>8. QED BY <1>3, <1>4, <1>5, <1>6, <1>7 DEF DocsKept

(* The versions of a name are numbered from 1 without gap or duplicate,    *)
(* and a save is refused only when another took its number meanwhile,      *)
(* whatever runs at once or is cut off.                                    *)
THEOREM SavesAreNumbered == DocsSpec => []SavesNumbered
<1>1. DocsTyped /\ DocsKept => SavesNumbered
  BY DEF DocsKept, RowsSorted, Sorted, Numbered, Saving, Own, Of, SavesNumbered
<1>2. QED BY <1>1, DocsStart, DocsStays, PTL DEF DocsSpec

(* An expanded playbook keeps its pins, and what it cannot show was not    *)
(* there or is forgotten.                                                  *)
THEOREM PlaybooksKeepPins == DocsSpec => []ComposedAsPinned
<1>1. DocsTyped /\ DocsKept => ComposedAsPinned
  BY DEF DocsKept, Expanding, Shown, ComposedAsPinned
<1>2. QED BY <1>1, DocsStart, DocsStays, PTL DEF DocsSpec

(* A version that becomes the one readers are given is newer than every    *)
(* one the name ever had.                                                  *)
THEOREM ReadersNeverGoBack == DocsSpec => NeverGoesBack
<1>1. DocsTyped /\ DocsKept /\ [DocsNext]_docsVars =>
        [\A o \in Orgs, n \in Names : Onward(o, n)]_docsVars
  BY ReadersGoOn
<1>2. [\A o \in Orgs, n \in Names : Onward(o, n)]_docsVars =>
        [\A o \in Orgs, n \in Names :
           Latest(o, n)' \in {Latest(o, n), 0} \cup {v \in Versions(Of(o, n)') :
                                \A w \in Versions(Of(o, n)) : w < v}]_docsVars
  BY DEF Onward
<1>3. QED BY <1>1, <1>2, DocsStart, DocsStays, PTL DEF DocsSpec, NeverGoesBack

----------------------------------------------------------------------------
(* Goals, trees and the soul.                                              *)
OfTree(r) == TreePlan(r) \/ TreeObjectives(r) \/ TreeKeyResults(r) \/ TreeInitiatives(r)
OfSoul(r) == SoulSet(r) \/ AbsorbRead(r) \/ AbsorbWrite(r)

(* A request that goes on with neither.                                    *)
Elsewhere(r) ==
  /\ Turns(r) /\ req[r].pc # "done"
  /\ ~ (req'[r].op = "tree" /\ req'[r].pc \in Reading \cup {"done"})
  /\ req'[r].pc # "absorb" /\ ~ (req'[r].pc = "done" /\ req'[r].op \in {"soul", "absorb"})

LEMMA SavesElsewhere ==
  ASSUME DocsTyped, DocsKept, NEW r \in Requests,
         \/ \E o \in Orgs, n \in Names :
              SetByTool(r, o, n) \/ StatementSet(r, o, n) \/ Curate(r, o, n)
         \/ PlaybookPost(r) \/ WikiPost(r)
  PROVE  Elsewhere(r)
<1>1. PICK o \in Orgs, n \in Names, recipes \in SUBSET Seq(Refs) : SaveRead(r, o, n, recipes)
  <2>1. CASE \E o \in Orgs, n \in Names :
               SetByTool(r, o, n) \/ StatementSet(r, o, n) \/ Curate(r, o, n)
    BY <2>1, RecipesAre DEF SetByTool, StatementSet, Curate
  <2>2. CASE PlaybookPost(r) \/ WikiPost(r)
    <3>1. /\ req[r].org \in Orgs /\ req[r].name \in Names
          /\ {req[r].recipe} \in SUBSET Seq(Refs) /\ {<<>>} \in SUBSET Seq(Refs)
      BY <2>2 DEF DocsTyped, Purposeful, PlaybookPost, WikiPost, DocLocals
    <3>2. QED BY <2>2, <3>1 DEF PlaybookPost, WikiPost
  <2>3. QED BY <2>1, <2>2
<1>2. req[r].pc # "done"
  BY DEF SetByTool, StatementSet, Curate, PlaybookPost, WikiPost, Begin
<1>3. Newest(Of(o, n)) \in Nat
  BY HowMany
<1>4. Turns(r) /\ \E recipe \in recipes : req'[r] = Save(o, n, recipe, Newest(Of(o, n)) + 1)
  BY <1>1, <1>3, SaveReadTurns
<1>5. req'[r].pc = "insert"
  BY <1>4, FreshTyped DEF Save, DocLocals
<1>6. QED BY <1>2, <1>4, <1>5 DEF Elsewhere, Reading

LEMMA RestElsewhere ==
  ASSUME DocsTyped, DocsKept, NEW r \in Requests,
         \/ \E o \in Orgs, n \in Names :
              PlaybookForm(r, o, n) \/ WikiForm(r, o, n) \/ ForgetUpdate(r, o, n)
              \/ ExpandRead(r, o, n)
         \/ SaveRejected(r) \/ SaveInsert(r) \/ SaveRefused(r) \/ SaveCommit(r)
         \/ ForgetCommit(r) \/ ExpandSkill(r) \/ ExpandDone(r) \/ Abort(r)
  PROVE  Elsewhere(r)
<1>1. CASE \E o \in Orgs, n \in Names : PlaybookForm(r, o, n) \/ WikiForm(r, o, n)
  BY <1>1, FormTurns DEF Elsewhere, Reading, PlaybookForm, WikiForm, Begin
<1>2. CASE \E o \in Orgs, n \in Names : ForgetUpdate(r, o, n)
  <2>1. PICK o \in Orgs, n \in Names : ForgetUpdate(r, o, n)
    BY <1>2
  <2>2. Turns(r) /\ req'[r].pc = "forget"
    BY <2>1, ForgetTurns
  <2>3. req[r].pc = "new"
    BY <2>1 DEF ForgetUpdate, Begin
  <2>4. QED BY <2>2, <2>3 DEF Elsewhere, Reading
<1>3. CASE \E o \in Orgs, n \in Names : ExpandRead(r, o, n)
  BY <1>3, ExpandTurns DEF Elsewhere, Reading, ExpandRead, Begin
<1>4. CASE SaveRejected(r)
  BY <1>4, RejectedTurns DEF Elsewhere, Reading, SaveRejected
<1>5. CASE SaveInsert(r) \/ SaveRefused(r)
  <2>1. PICK pc \in {"commit", "refused"} :
          Become(r, [req[r] EXCEPT !.pc = pc]) /\ req[r].pc = "insert"
    BY <1>5 DEF SaveInsert, SaveRefused
  <2>2. Turns(r) /\ req'[r].pc = pc
    BY <2>1, GoesOn
  <2>3. QED BY <2>1, <2>2 DEF Elsewhere, Reading
<1>6. CASE SaveCommit(r)
  BY <1>6, CommitIs DEF Elsewhere, SaveCommit
<1>7. CASE ForgetCommit(r)
  BY <1>7, ForgetCommitIs DEF Elsewhere, ForgetCommit
<1>8. CASE ExpandSkill(r)
  <2>1. req[r].pc = "expand" /\ req[r] \in DocLocals
    BY <1>8 DEF ExpandSkill, DocsTyped
  <2>2. Turns(r) /\ \E x : req'[r] = [req[r] EXCEPT !.sections = x]
    BY <1>8, SkillTurns
  <2>3. req'[r].pc = "expand"
    BY <2>1, <2>2 DEF DocLocals
  <2>4. QED BY <2>1, <2>2, <2>3 DEF Elsewhere, Reading
<1>9. CASE ExpandDone(r)
  <2>1. req[r].pc = "expand" /\ req[r].op = "expand" /\ Become(r, [req[r] EXCEPT !.pc = "done"])
    BY <1>9 DEF ExpandDone, DocsTyped, Purposeful
  <2>2. Turns(r) /\ req'[r].op = "expand"
    BY <2>1, GoesOn
  <2>3. req'[r].pc = "done"
    BY <2>1, GoesOn
  <2>4. QED BY <2>1, <2>2, <2>3 DEF Elsewhere
<1>10. CASE Abort(r)
  <2>1. req[r].pc # "done" /\ Become(r, [req[r] EXCEPT !.pc = "failed", !.locked = {}])
    BY <1>10 DEF Abort
  <2>2. Turns(r) /\ req'[r] = [req[r] EXCEPT !.pc = "failed", !.locked = {}]
    BY <2>1, LetsGo
  <2>3. req'[r].pc = "failed"
    BY <2>2 DEF DocsTyped, DocLocals
  <2>4. QED BY <2>1, <2>2, <2>3 DEF Elsewhere, Reading
<1>11. QED BY <1>1, <1>2, <1>3, <1>4, <1>5, <1>6, <1>7, <1>8, <1>9, <1>10

LEMMA GoalsElsewhere ==
  ASSUME DocsTyped, NEW r \in Requests, GoalSet(r)
  PROVE  Elsewhere(r)
<1>1. PICK goal \in Goals : Add(r, goal)
  BY GoalSetAdds
<1>2. QED BY <1>1, AddTurns DEF Elsewhere, Reading, Add, Begin

LEMMA WhoWrites ==
  ASSUME NEW r \in Requests, Step(r)
  PROVE  /\ GoalSet(r) \/ goals' = goals
         /\ SoulSet(r) \/ AbsorbWrite(r) \/ soul' = soul
<1>1. CASE \E o \in Orgs, n \in Names :
             SetByTool(r, o, n) \/ StatementSet(r, o, n) \/ Curate(r, o, n)
             \/ PlaybookForm(r, o, n) \/ WikiForm(r, o, n)
             \/ ForgetUpdate(r, o, n) \/ ExpandRead(r, o, n)
  BY <1>1 DEF SetByTool, StatementSet, Curate, SaveRead, PlaybookForm, WikiForm, ForgetUpdate,
              ExpandRead
<1>2. CASE SaveRejected(r) \/ PlaybookPost(r) \/ WikiPost(r) \/ SaveInsert(r) \/ SaveRefused(r)
           \/ SaveCommit(r) \/ ForgetCommit(r) \/ ExpandSkill(r) \/ ExpandDone(r) \/ Abort(r)
  BY <1>2 DEF SaveRejected, PlaybookPost, WikiPost, SaveRead, SaveInsert, SaveRefused,
              SaveCommit, ForgetCommit, ExpandSkill, ExpandDone, Abort
<1>3. CASE GoalSet(r)
  BY <1>3 DEF GoalSet, PlanSet, ObjectiveSet, KeyResultSet, InitiativeSet, Add
<1>4. CASE TreePlan(r) \/ TreeObjectives(r) \/ TreeKeyResults(r) \/ TreeInitiatives(r)
  BY <1>4 DEF TreePlan, TreeObjectives, TreeKeyResults, TreeInitiatives, Show
<1>5. CASE SoulSet(r) \/ AbsorbRead(r) \/ AbsorbWrite(r)
  BY <1>5 DEF SoulSet, AbsorbRead, AbsorbWrite, Upsert
<1>6. QED BY <1>1, <1>2, <1>3, <1>4, <1>5 DEF Step, GoalSet

(* A tree is held as it was while others step.                             *)
LEMMA TreeStays ==
  ASSUME NEW q, TreeHeld(q), req'[q] = req[q], goals \subseteq goals'
  PROVE  TreeHeld(q)'
BY DEF TreeHeld, Under, Hanging

LEMMA GoalSetKeeps ==
  ASSUME DocsTyped, GoalsKept, NEW r \in Requests, GoalSet(r)
  PROVE  GoalsKept'
<1>1. PICK goal \in Goals : /\ Add(r, goal) /\ goal.id = r /\ Shaped(goal)
                            /\ goal.of # Nil => goal.of \in Ids("objective")
  BY GoalSetAdds
<1>2. goals' = goals \cup {goal} /\ req[r].pc = "new"
  BY <1>1 DEF Add, Begin
<1>3. Turns(r) /\ req'[r].pc = "done" /\ req'[r].op = "goal"
  BY <1>1, AddTurns
<1>4. \A g \in goals : g.id # r /\ g.id \in Requests
  BY <1>2 DEF GoalsKept, GoalsHang, DocsTyped, Goals
<1>5. GoalsHang'
  <2>1. \A g \in goals' : Shaped(g)' /\ req'[g.id].pc = "done"
    BY <1>1, <1>2, <1>3, <1>4 DEF GoalsKept, GoalsHang, Turns, Shaped
  <2>2. \A g, h \in goals' : g.id = h.id => g = h
    BY <1>1, <1>2, <1>4 DEF GoalsKept, GoalsHang
  <2>3. Hanging(goals')
    BY <1>1, <1>2 DEF GoalsKept, GoalsHang, Hanging, Ids, Kind
  <2>4. QED BY <2>1, <2>2, <2>3 DEF GoalsHang, Hanging
<1>6. \A q \in Requests : TreeHeld(q)'
  <2>1. TreeHeld(r)'
    BY <1>3 DEF TreeHeld
  <2>2. ASSUME NEW q \in Requests, q # r
        PROVE  TreeHeld(q)'
    BY <1>2, <1>3, <2>2, TreeStays DEF GoalsKept, Turns
  <2>3. QED BY <2>1, <2>2
<1>7. QED BY <1>5, <1>6 DEF GoalsKept

LEMMA GoalsStay ==
  ASSUME DocsTyped, GoalsKept, NEW r \in Requests, Turns(r), req[r].pc # "done",
         goals' = goals, TreeHeld(r)'
  PROVE  GoalsKept'
<1>1. GoalsHang'
  <2>1. \A g \in goals : g.id \in Requests /\ req[g.id].pc = "done"
    BY DEF GoalsKept, GoalsHang, DocsTyped, Goals
  <2>2. \A g \in goals' : Shaped(g)' /\ req'[g.id].pc = "done"
    BY <2>1 DEF GoalsKept, GoalsHang, Turns, Shaped
  <2>3. QED BY <2>2 DEF GoalsKept, GoalsHang, Hanging
<1>2. ASSUME NEW q \in Requests, q # r
      PROVE  TreeHeld(q)'
  BY <1>2, TreeStays DEF GoalsKept, Turns
<1>3. QED BY <1>1, <1>2 DEF GoalsKept

LEMMA TreeKeeps ==
  ASSUME DocsTyped, GoalsKept, NEW r \in Requests, OfTree(r)
  PROVE  TreeHeld(r)' /\ Turns(r) /\ req[r].pc # "done" /\ goals' = goals
<1>1. goals' = goals /\ req[r].pc # "done" /\ goals \in SUBSET Goals
  BY DEF OfTree, TreePlan, TreeObjectives, TreeKeyResults, TreeInitiatives, Show, Begin, DocsTyped
<1>2. CASE TreePlan(r)
  <2>1. /\ Turns(r) /\ req'[r].pc = "objectives" /\ req'[r].name \in Requests
        /\ req'[r].base = goals /\ req'[r].shown = {}
    BY <1>2, TreePlanTurns
  <2>2. Levels(req'[r].pc) = {}
    BY <2>1 DEF Levels
  <2>3. Hanging(goals)
    BY DEF GoalsKept, GoalsHang
  <2>4. TreeHeld(r)'
    BY <1>1, <2>1, <2>2, <2>3 DEF TreeHeld, Hanging, Levels
  <2>5. QED BY <1>1, <2>1, <2>4
<1>3. ASSUME NEW from \in Reading, NEW to \in {"key_results", "initiatives", "done"},
             NEW kind, NEW found \in SUBSET goals, Show(r, from, to, found),
             Levels(to) = Levels(from) \cup {kind},
             \A g \in found : g.kind = kind /\ Under(r, g, req[r].shown \cup found),
             \A g \in req[r].base : g.kind = kind /\ Under(r, g, req[r].base) => g \in found
      PROVE  TreeHeld(r)' /\ Turns(r)
  <2>1. /\ Turns(r) /\ req[r].op = "tree" /\ req'[r].op = "tree" /\ req'[r].pc = to
        /\ req'[r].shown = req[r].shown \cup found /\ req'[r].base = req[r].base
        /\ req'[r].name = req[r].name /\ req[r].pc = from
    BY <1>3, ShowTurns DEF Keeps, Show
  <2>2. TreeHeld(r)
    BY DEF GoalsKept
  <2>3. /\ req[r].name \in Requests /\ req[r].base \subseteq goals /\ Hanging(req[r].base)
        /\ req[r].shown \subseteq goals
        /\ \A g \in req[r].shown : g.kind \in Levels(from) /\ Under(r, g, req[r].shown)
        /\ \A g \in req[r].base :
             g.kind \in Levels(from) /\ Under(r, g, req[r].base) => g \in req[r].shown
    BY <1>3, <2>1, <2>2 DEF TreeHeld
  <2>4. \A g, S : Under(r, g, S)' <=> Under(r, g, S)
    BY <2>1 DEF Under
  <2>5. \A g \in req[r].shown : Under(r, g, req[r].shown \cup found)
    BY <2>3 DEF Under
  <2>6. \A g \in req'[r].shown : g.kind \in Levels(to) /\ Under(r, g, req[r].shown \cup found)
    BY <1>3, <2>1, <2>3, <2>5
  <2>7. \A g \in req'[r].base : g.kind \in Levels(to) /\ Under(r, g, req[r].base)
                                  => g \in req'[r].shown
    BY <1>3, <2>1, <2>3
  <2>8. PICK S, B : S = req[r].shown \cup found /\ B = req[r].base
    OBVIOUS
  <2>9. /\ req'[r].shown = S /\ req'[r].base = B
        /\ \A g \in S : g.kind \in Levels(to) /\ Under(r, g, S)'
        /\ \A g \in B : g.kind \in Levels(to) /\ Under(r, g, B)' => g \in S
    BY <2>1, <2>4, <2>6, <2>7, <2>8
  <2>10. TreeHeld(r)'
    BY <1>1, <2>1, <2>3, <2>8, <2>9 DEF TreeHeld, Hanging, Levels, Under
  <2>11. QED BY <2>1, <2>10
<1>4. req[r].pc \in Reading => TreeHeld(r) /\ req[r].op = "tree"
  BY DEF GoalsKept, DocsTyped, Purposeful
<1>5. Objectives(r) = {h.id : h \in {g \in req[r].shown : g.kind = "objective"}}
  BY DEF Objectives
<1>6. CASE TreeObjectives(r)
  <2> DEFINE found == {g \in Kind("objective") : g.plan = req[r].name}
  <2>1. Show(r, "objectives", "key_results", found)
    BY <1>6 DEF TreeObjectives
  <2>2. found \in SUBSET goals /\ \A g \in found : g.kind = "objective" /\ g.plan = req[r].name
    BY DEF Kind
  <2>3. \A g \in found : Under(r, g, req[r].shown \cup found)
    BY <2>2 DEF Under
  <2>4. req[r].pc = "objectives" /\ req[r].base \subseteq goals
    BY <1>4, <2>1 DEF Show, TreeHeld, Reading
  <2>5. \A g \in req[r].base : g.kind = "objective" /\ Under(r, g, req[r].base) => g \in found
    BY <2>4 DEF Under, Kind
  <2>6. Levels("key_results") = Levels("objectives") \cup {"objective"}
    BY DEF Levels
  <2> HIDE DEF found
  <2>7. QED BY <1>1, <1>3, <2>1, <2>2, <2>3, <2>5, <2>6 DEF Reading
<1>7. ASSUME NEW pc \in {"key_results", "initiatives"}, req[r].pc = pc
      PROVE  /\ \A g \in goals : g.of \in Objectives(r) =>
                  \E h \in req[r].shown : h.kind = "objective" /\ h.id = g.of
                                          /\ h.plan = req[r].name
             /\ \A g, h \in req[r].base : h.kind = "objective" /\ h.id = g.of
                  /\ h.plan = req[r].name => g.of \in Objectives(r)
             /\ req[r].base \subseteq goals
  <2>1. TreeHeld(r) /\ req[r].op = "tree"
    BY <1>4, <1>7 DEF Reading
  <2>2. "objective" \in Levels(pc)
    BY <1>7 DEF Levels
  <2>3. \A h \in req[r].shown : h.kind = "objective" => h.plan = req[r].name
    BY <1>7, <2>1 DEF TreeHeld, Under, Reading
  <2>4. \A h \in req[r].base : h.kind = "objective" /\ h.plan = req[r].name => h \in req[r].shown
    BY <1>7, <2>1, <2>2 DEF TreeHeld, Under, Reading
  <2>5. req[r].base \subseteq goals
    BY <1>7, <2>1 DEF TreeHeld, Reading
  <2>6. QED BY <1>5, <2>3, <2>4, <2>5
<1>8. CASE TreeKeyResults(r)
  <2> DEFINE found == {g \in Kind("key_result") : g.of \in Objectives(r)}
  <2>1. Show(r, "key_results", "initiatives", found) /\ req[r].pc = "key_results"
    BY <1>8 DEF TreeKeyResults, Show
  <2>2. found \in SUBSET goals /\ \A g \in found : g.kind = "key_result" /\ g.of \in Objectives(r)
    BY DEF Kind
  <2>3. \A g \in found : Under(r, g, req[r].shown \cup found)
    BY <1>7, <2>1, <2>2 DEF Under
  <2>4. \A g \in req[r].base : g.kind = "key_result" /\ Under(r, g, req[r].base) => g \in found
    BY <1>7, <2>1 DEF Under, Kind
  <2>5. Levels("initiatives") = Levels("key_results") \cup {"key_result"}
    BY DEF Levels
  <2> HIDE DEF found
  <2>6. QED BY <1>1, <1>3, <2>1, <2>2, <2>3, <2>4, <2>5 DEF Reading
<1>9. CASE TreeInitiatives(r)
  <2> DEFINE found == {g \in Kind("initiative") : g.plan = req[r].name
                                                  /\ g.of \in Objectives(r) \cup {Nil}}
  <2>1. Show(r, "initiatives", "done", found) /\ req[r].pc = "initiatives"
    BY <1>9 DEF TreeInitiatives, Show
  <2>2. found \in SUBSET goals /\ \A g \in found : /\ g.kind = "initiative"
                                                   /\ g.plan = req[r].name
                                                   /\ g.of \in Objectives(r) \cup {Nil}
    BY DEF Kind
  <2>3. \A g \in found : Under(r, g, req[r].shown \cup found)
    BY <1>7, <2>1, <2>2 DEF Under
  <2>4. \A g \in req[r].base : g.kind = "initiative" /\ Under(r, g, req[r].base) => g \in found
    BY <1>7, <2>1 DEF Under, Kind
  <2>5. Levels("done") = Levels("initiatives") \cup {"initiative"}
    BY DEF Levels
  <2> HIDE DEF found
  <2>6. QED BY <1>1, <1>3, <2>1, <2>2, <2>3, <2>4, <2>5 DEF Reading
<1>10. QED BY <1>1, <1>2, <1>6, <1>8, <1>9 DEF OfTree

----------------------------------------------------------------------------
(* The soul.                                                               *)

(* A request that goes on and has nothing to do with it.                   *)
Silent(r) ==
  /\ Turns(r) /\ req[r].pc # "done" /\ req'[r].pc # "absorb"
  /\ ~ (req'[r].pc = "done" /\ req'[r].op \in {"soul", "absorb"})

LEMMA TreeSilent ==
  ASSUME DocsTyped, NEW r \in Requests, OfTree(r)
  PROVE  Silent(r)
<1>1. CASE TreePlan(r)
  BY <1>1, TreePlanTurns DEF Silent, TreePlan, Begin
<1>2. ASSUME NEW from \in Reading, NEW to \in {"key_results", "initiatives", "done"},
             NEW found \in SUBSET goals, Show(r, from, to, found)
      PROVE  Silent(r)
  <2>1. Turns(r) /\ req'[r].op = "tree" /\ req'[r].pc = to
    BY <1>2, ShowTurns DEF Show
  <2>2. req[r].pc = from
    BY <1>2 DEF Show
  <2>3. QED BY <2>1, <2>2 DEF Silent, Reading
<1>3. CASE TreeObjectives(r)
  <2>1. {g \in Kind("objective") : g.plan = req[r].name} \in SUBSET goals
    BY DEF Kind
  <2>2. QED BY <1>2, <1>3, <2>1 DEF TreeObjectives, Reading
<1>4. CASE TreeKeyResults(r)
  <2>1. {g \in Kind("key_result") : g.of \in Objectives(r)} \in SUBSET goals
    BY DEF Kind
  <2>2. QED BY <1>2, <1>4, <2>1 DEF TreeKeyResults, Reading
<1>5. CASE TreeInitiatives(r)
  <2>1. {g \in Kind("initiative") : g.plan = req[r].name
                                    /\ g.of \in Objectives(r) \cup {Nil}} \in SUBSET goals
    BY DEF Kind
  <2>2. QED BY <1>2, <1>5, <2>1 DEF TreeInitiatives, Reading
<1>6. QED BY <1>1, <1>3, <1>4, <1>5 DEF OfTree

(* What is lost stays lost.                                                *)
LEMMA LostStays ==
  ASSUME NEW r \in Requests, Turns(r), req[r].pc # "done", NEW q \in Requests, Wrote(q), Lost(q)
  PROVE  Lost(q)'
<1>1. q # r /\ req'[q] = req[q]
  BY DEF Turns, Wrote
<1>2. CASE \E p \in Requests : Wrote(p) /\ req[p].n >= req[q].n /\ CutBy(p, req[q].name)
  <2>1. PICK p \in Requests : Wrote(p) /\ req[p].n >= req[q].n /\ CutBy(p, req[q].name)
    BY <1>2
  <2>2. req'[p] = req[p] /\ Wrote(p)'
    BY <2>1 DEF Turns, Wrote
  <2>3. CutBy(p, req[q].name)'
    BY <1>1, <2>1, <2>2 DEF CutBy
  <2>4. QED BY <1>1, <2>1, <2>2, <2>3 DEF Lost
<1>3. CASE \E p \in Requests : Wrote(p) /\ req[p].n > req[q].n /\ req[p].from < req[q].n
  <2>1. PICK p \in Requests : Wrote(p) /\ req[p].n > req[q].n /\ req[p].from < req[q].n
    BY <1>3
  <2>2. req'[p] = req[p] /\ Wrote(p)'
    BY <2>1 DEF Turns, Wrote
  <2>3. QED BY <1>1, <2>1, <2>2 DEF Lost
<1>4. QED BY <1>2, <1>3 DEF Lost

LEMMA WroteStays ==
  ASSUME NEW r \in Requests, Turns(r), NEW q \in Requests, q # r
  PROVE  Wrote(q)' <=> Wrote(q)
BY DEF Turns, Wrote

LEMMA SilentKeepsSoul ==
  ASSUME DocsTyped, SoulKept, NEW r \in Requests, Silent(r), soul' = soul
  PROVE  SoulKept'
<1>1. Turns(r) /\ req[r].pc # "done" /\ ~ Wrote(r)' /\ req'[r].pc # "absorb"
  BY DEF Silent, Wrote
<1>2. ASSUME NEW q \in Requests, Wrote(q)'
      PROVE  Wrote(q) /\ req'[q] = req[q] /\ q # r /\ (Lost(q) => Lost(q)')
  BY <1>1, <1>2, WroteStays, LostStays DEF Turns
<1>3. Len(soul'.body) <= SoulMax
  BY DEF SoulKept
<1>4. ASSUME NEW q \in Requests, Wrote(q)'
      PROVE  req'[q].n > 0 /\ req'[q].n <= soul'.version /\ (Within(soul.body, req[q].name)' \/ Lost(q)')
  BY <1>2, <1>4 DEF SoulKept, Within
<1>5. ASSUME NEW p \in Requests, req'[p].pc = "absorb"
      PROVE  /\ req'[p].from <= soul'.version /\ Len(req'[p].body) <= SoulMax
             /\ \A q \in Requests : Wrote(q)' =>
                  req'[q].n > req'[p].from \/ Within(req[p].body, req[q].name)' \/ Lost(q)'
  <2>1. p # r /\ req'[p] = req[p]
    BY <1>1, <1>5 DEF Turns
  <2>2. QED BY <1>2, <1>5, <2>1 DEF SoulKept, Within
<1>6. QED BY <1>3, <1>4, <1>5 DEF SoulKept

LEMMA AbsorbReadKeepsSoul ==
  ASSUME DocsTyped, SoulKept, NEW r \in Requests, AbsorbRead(r)
  PROVE  SoulKept'
<1>1. /\ Turns(r) /\ req'[r].pc = "absorb" /\ req'[r].body = soul.body
      /\ req'[r].from = soul.version
  BY AbsorbReadTurns
<1>2. req[r].pc # "done" /\ soul' = soul /\ soul.version \in Nat
  BY DEF AbsorbRead, Begin, DocsTyped, Souls
<1>3. ASSUME NEW q \in Requests, Wrote(q)'
      PROVE  Wrote(q) /\ req'[q] = req[q] /\ (Lost(q) => Lost(q)')
  <2>1. q # r
    BY <1>1, <1>3 DEF Wrote
  <2>2. QED BY <1>1, <1>2, <1>3, <2>1, WroteStays, LostStays DEF Turns
<1>4. Len(soul'.body) <= SoulMax
  BY <1>2 DEF SoulKept
<1>5. ASSUME NEW q \in Requests, Wrote(q)'
      PROVE  req'[q].n > 0 /\ req'[q].n <= soul'.version /\ (Within(soul.body, req[q].name)' \/ Lost(q)')
  BY <1>2, <1>3, <1>5 DEF SoulKept, Within
<1>6. ASSUME NEW p \in Requests, req'[p].pc = "absorb"
      PROVE  /\ req'[p].from <= soul'.version /\ Len(req'[p].body) <= SoulMax
             /\ \A q \in Requests : Wrote(q)' =>
                  req'[q].n > req'[p].from \/ Within(req[p].body, req[q].name)' \/ Lost(q)'
  <2>1. CASE p = r
    BY <1>1, <1>2, <1>4, <1>5, <2>1 DEF Within
  <2>2. CASE p # r
    <3>1. req'[p] = req[p]
      BY <1>1, <2>2 DEF Turns
    <3>2. QED BY <1>2, <1>3, <1>6, <3>1 DEF SoulKept, Within
  <2>3. QED BY <2>1, <2>2
<1>7. QED BY <1>4, <1>5, <1>6 DEF SoulKept

(* What a text holds is kept, or cut by its writer.                        *)
LEMMA KeptOrCut ==
  ASSUME NEW body \in Seq(Requests \cup {Nil}), NEW x, Within(body, x)
  PROVE  \/ Within(Compressed(body), x)
         \/ Len(body) > SoulMax /\ \E i \in SoulMax .. Len(body) : body[i] = x
<1>1. SoulMax \in Nat /\ Len(body) \in Nat /\ DOMAIN body = 1 .. Len(body)
  BY DocsAssumption
<1>2. PICK i \in 1 .. Len(body) : body[i] = x
  BY <1>1 DEF Within
<1>3. PICK kept : kept = Compressed(body)
  OBVIOUS
<1>4. CASE Len(body) <= SoulMax
  BY <1>4, CompressedIs
<1>5. CASE Len(body) > SoulMax /\ i >= SoulMax
  BY <1>1, <1>2, <1>5
<1>6. CASE Len(body) > SoulMax /\ i < SoulMax
  <2>1. kept \in Seq(Requests \cup {Nil}) /\ Len(kept) = SoulMax /\ kept[i] = x
    BY <1>2, <1>3, <1>6, CompressedIs
  <2>2. i \in DOMAIN kept
    BY <1>1, <1>2, <1>6, <2>1
  <2>3. QED BY <1>3, <2>1, <2>2 DEF Within
<1>7. QED BY <1>1, <1>2, <1>4, <1>5, <1>6

(* A body that is written with what its writer knew.                       *)
LEMMA UpsertKeepsSoul ==
  ASSUME DocsTyped, SoulKept, NEW r \in Requests, NEW op \in {"soul", "absorb"},
         NEW note \in Requests, NEW body \in Seq(Requests \cup {Nil}),
         Upsert(r, op, note, body), req[r].pc # "done", Within(body, note),
         req[r].from <= soul.version,
         \A q \in Requests : Wrote(q) =>
           req[q].n > req[r].from \/ Within(body, req[q].name) \/ Lost(q)
  PROVE  SoulKept'
<1>1. /\ Turns(r) /\ req'[r].pc = "done" /\ req'[r].op = op /\ req'[r].n = soul.version + 1
      /\ req'[r].name = note /\ req'[r].body = body /\ req'[r].from = req[r].from
      /\ soul.version \in Nat /\ req[r].from \in Nat
  <2>1. req[r].from \in Nat
    BY DEF DocsTyped, DocLocals
  <2>2. QED BY <2>1, UpsertTurns
<1>2. soul'.version = soul.version + 1 /\ soul'.body = Compressed(body)
  BY DEF Upsert
<1>3. PICK kept : kept = Compressed(body)
  OBVIOUS
<1>4. kept \in Seq(Requests \cup {Nil}) /\ Len(kept) <= SoulMax
  BY <1>3, CompressedIs
<1>5. Wrote(r)'
  BY <1>1 DEF Wrote
<1>6. ASSUME NEW x, Within(body, x)
      PROVE  Within(kept, x) \/ CutBy(r, x)'
  BY <1>1, <1>3, <1>6, KeptOrCut DEF CutBy
<1>7. Within(kept, note) \/ Lost(r)'
  BY <1>1, <1>5, <1>6 DEF Lost
<1>8. ASSUME NEW q \in Requests, q # r, Wrote(q)'
      PROVE  /\ Wrote(q) /\ req'[q] = req[q] /\ req[q].n \in Nat
             /\ req[q].n > 0 /\ req[q].n <= soul.version /\ (Lost(q) => Lost(q)')
  <2>1. Wrote(q) /\ req'[q] = req[q] /\ req[q].n \in Nat
    BY <1>1, <1>8, WroteStays DEF Turns, DocsTyped, DocLocals
  <2>2. QED BY <1>1, <2>1, LostStays DEF SoulKept
<1>9. ASSUME NEW q \in Requests, Wrote(q)'
      PROVE  /\ req'[q].n > 0 /\ req'[q].n <= soul'.version
             /\ Within(kept, req'[q].name) \/ Lost(q)'
  <2>1. CASE q = r
    BY <1>1, <1>2, <1>7, <2>1
  <2>2. CASE q # r
    <3>1. /\ Wrote(q) /\ req'[q] = req[q] /\ req[q].n \in Nat
          /\ req[q].n > 0 /\ req[q].n <= soul.version /\ (Lost(q) => Lost(q)')
      BY <1>8, <1>9, <2>2
    <3>2. CASE req[q].n > req[r].from
      <4>1. req'[r].n > req'[q].n /\ req'[r].from < req'[q].n
        BY <1>1, <3>1, <3>2
      <4>2. QED BY <1>1, <1>2, <1>5, <3>1, <4>1 DEF Lost
    <3>3. CASE Within(body, req[q].name)
      <4>1. CutBy(r, req[q].name)' => Lost(q)'
        BY <1>1, <1>5, <3>1 DEF Lost, CutBy
      <4>2. QED BY <1>1, <1>2, <1>6, <3>1, <3>3, <4>1
    <3>4. CASE Lost(q)
      BY <1>1, <1>2, <3>1, <3>4
    <3>5. QED BY <3>1, <3>2, <3>3, <3>4
  <2>3. QED BY <2>1, <2>2
<1>10. ASSUME NEW p \in Requests, req'[p].pc = "absorb"
       PROVE  /\ req'[p].from <= soul'.version /\ Len(req'[p].body) <= SoulMax
              /\ \A q \in Requests : Wrote(q)' =>
                   req'[q].n > req'[p].from \/ Within(req[p].body, req[q].name)' \/ Lost(q)'
  <2>1. p # r /\ req'[p] = req[p]
    BY <1>1, <1>10 DEF Turns
  <2>2. req[p].from \in Nat /\ req[p].from <= soul.version /\ Len(req[p].body) <= SoulMax
    BY <1>10, <2>1 DEF SoulKept, DocsTyped, DocLocals
  <2>3. ASSUME NEW q \in Requests, Wrote(q)'
        PROVE  req'[q].n > req'[p].from \/ Within(req[p].body, req[q].name)' \/ Lost(q)'
    <3>1. CASE q = r
      BY <1>1, <2>1, <2>2, <3>1
    <3>2. CASE q # r
      <4>1. Wrote(q) /\ req'[q] = req[q] /\ (Lost(q) => Lost(q)')
        BY <1>8, <2>3, <3>2
      <4>2. QED BY <1>10, <2>1, <4>1 DEF SoulKept, Within
    <3>3. QED BY <3>1, <3>2
  <2>4. QED BY <1>1, <1>2, <2>1, <2>2, <2>3
<1>11. Len(soul'.body) <= SoulMax /\ soul'.body = kept
  BY <1>2, <1>3, <1>4
<1>12. QED BY <1>9, <1>10, <1>11 DEF SoulKept, Within

LEMMA SoulSetKeepsSoul ==
  ASSUME DocsTyped, SoulKept, NEW r \in Requests, SoulSet(r)
  PROVE  SoulKept'
<1>1. req[r].pc = "new"
  BY DEF SoulSet, Begin
<1>2. req[r].from = 0 /\ soul.version \in Nat
  BY <1>1, FreshIs DEF DocsTyped, Souls
<1>3. PICK body \in Seq(Requests \cup {Nil}) : Upsert(r, "soul", r, body) /\ Within(body, r)
  BY SoulSetUpserts
<1>4. \A q \in Requests : Wrote(q) => req[q].n > req[r].from
  BY <1>2 DEF SoulKept
<1>5. req[r].from <= soul.version /\ req[r].pc # "done"
  BY <1>1, <1>2
<1>6. QED BY <1>3, <1>4, <1>5, UpsertKeepsSoul

LEMMA AbsorbWriteKeepsSoul ==
  ASSUME DocsTyped, SoulKept, NEW r \in Requests, AbsorbWrite(r)
  PROVE  SoulKept'
<1>1. req[r].pc = "absorb"
  BY DEF AbsorbWrite
<1>2. PICK note \in Requests, body \in Seq(Requests \cup {Nil}) :
        /\ Upsert(r, "absorb", note, body) /\ Within(body, note)
        /\ \A x : Within(req[r].body, x) => Within(body, x)
  BY AbsorbWriteUpserts
<1>3. /\ req[r].from <= soul.version
      /\ \A q \in Requests : Wrote(q) =>
           req[q].n > req[r].from \/ Within(body, req[q].name) \/ Lost(q)
  BY <1>1, <1>2 DEF SoulKept
<1>4. QED BY <1>1, <1>2, <1>3, UpsertKeepsSoul

LEMMA StepKeepsMore ==
  ASSUME DocsTyped, DocsKept, GoalsKept, SoulKept, NEW r \in Requests, Step(r)
  PROVE  GoalsKept' /\ SoulKept'
<1>1. /\ GoalSet(r) \/ goals' = goals
      /\ SoulSet(r) \/ AbsorbWrite(r) \/ soul' = soul
  BY WhoWrites
<1>2. CASE OfTree(r)
  <2>1. TreeHeld(r)' /\ Turns(r) /\ req[r].pc # "done" /\ goals' = goals /\ soul' = soul
    BY <1>2, TreeKeeps DEF OfTree, TreePlan, TreeObjectives, TreeKeyResults, TreeInitiatives, Show
  <2>2. QED BY <1>2, <2>1, TreeSilent, GoalsStay, SilentKeepsSoul
<1>3. CASE GoalSet(r)
  <2>1. soul' = soul
    BY <1>3 DEF GoalSet, PlanSet, ObjectiveSet, KeyResultSet, InitiativeSet, Add
  <2>2. Silent(r)
    BY <1>3, GoalsElsewhere DEF Elsewhere, Silent
  <2>3. QED BY <1>3, <2>1, <2>2, GoalSetKeeps, SilentKeepsSoul
<1>4. CASE OfSoul(r)
  <2>1. goals' = goals
    BY <1>4 DEF OfSoul, SoulSet, AbsorbRead, AbsorbWrite, Upsert
  <2>2. /\ Turns(r) /\ req[r].pc # "done"
        /\ ~ (req'[r].op = "tree" /\ req'[r].pc \in Reading \cup {"done"})
    <3>1. CASE SoulSet(r)
      <4>1. req[r].pc = "new" /\ \E body \in Seq(Requests \cup {Nil}) : Upsert(r, "soul", r, body)
        BY <3>1, SoulSetUpserts DEF SoulSet, Begin
      <4>2. QED BY <4>1, UpsertTurns
    <3>2. CASE AbsorbRead(r)
      BY <3>2, AbsorbReadTurns DEF AbsorbRead, Begin
    <3>3. CASE AbsorbWrite(r)
      <4>1. /\ req[r].pc = "absorb"
            /\ \E note \in Requests, body \in Seq(Requests \cup {Nil}) : Upsert(r, "absorb", note, body)
        BY <3>3, AbsorbWriteUpserts DEF AbsorbWrite
      <4>2. QED BY <4>1, UpsertTurns
    <3>4. QED BY <1>4, <3>1, <3>2, <3>3 DEF OfSoul
  <2>3. TreeHeld(r)'
    BY <2>2 DEF TreeHeld, Reading
  <2>4. GoalsKept'
    BY <2>1, <2>2, <2>3, GoalsStay
  <2>5. QED BY <1>4, <2>4, SoulSetKeepsSoul, AbsorbReadKeepsSoul, AbsorbWriteKeepsSoul DEF OfSoul
<1>5. CASE ~ OfTree(r) /\ ~ GoalSet(r) /\ ~ OfSoul(r)
  <2>1. Elsewhere(r)
    BY <1>5, SavesElsewhere, RestElsewhere DEF Step, OfTree, GoalSet, OfSoul
  <2>2. goals' = goals /\ soul' = soul
    BY <1>1, <1>5 DEF OfSoul
  <2>3. TreeHeld(r)'
    BY <2>1 DEF Elsewhere, TreeHeld, Reading
  <2>4. Silent(r)
    BY <2>1 DEF Elsewhere, Silent
  <2>5. GoalsKept'
    BY <2>1, <2>2, <2>3, GoalsStay DEF Elsewhere
  <2>6. QED BY <2>2, <2>4, <2>5, SilentKeepsSoul
<1>6. QED BY <1>2, <1>3, <1>4, <1>5

LEMMA MoreStays ==
  ASSUME DocsTyped, DocsKept, GoalsKept, SoulKept, [DocsNext]_docsVars
  PROVE  GoalsKept' /\ SoulKept'
<1>1. CASE DocsNext
  BY <1>1, StepKeepsMore DEF DocsNext
<1>2. CASE UNCHANGED docsVars
  <2>1. goals' = goals /\ soul' = soul /\ req' = req
    BY <1>2 DEF docsVars
  <2>2. GoalsHang'
    BY <2>1 DEF GoalsKept, GoalsHang, Shaped, Hanging
  <2>3. \A r \in Requests : TreeHeld(r)'
    BY <2>1, TreeStays DEF GoalsKept
  <2>4. SoulKept'
    BY <2>1 DEF SoulKept, Wrote, Within, Lost, CutBy
  <2>5. QED BY <2>2, <2>3, <2>4 DEF GoalsKept
<1>3. QED BY <1>1, <1>2

LEMMA MoreStart ==
  ASSUME DocsInit
  PROVE  GoalsKept /\ SoulKept
<1>1. goals = {} /\ soul = NoSoul /\ \A r \in Requests : req[r] = Fresh
  BY DEF DocsInit
<1>2. GoalsKept
  BY <1>1, FreshIs DEF GoalsKept, GoalsHang, Hanging, TreeHeld, Reading
<1>3. Len(soul.body) <= SoulMax
  BY <1>1, DocsAssumption DEF NoSoul
<1>4. SoulKept
  BY <1>1, <1>3, FreshIs DEF SoulKept, Wrote
<1>5. QED BY <1>2, <1>4

(* The tree of a plan that is read while goals are set holds together, and *)
(* what belonged to the plan when it was asked for is in it.               *)
THEOREM TreesHangTogether == DocsSpec => []TreeHangsTogether
<1>1. ASSUME DocsTyped, GoalsKept
      PROVE  TreeHangsTogether
  <2> SUFFICES ASSUME NEW r \in Requests, req[r].op = "tree", req[r].pc = "done"
               PROVE  LET plan == req[r].name
                          own == {g.id : g \in {h \in goals : h.kind = "objective"
                                                              /\ h.plan = plan}}
                          whole(set) == {g \in set :
                            /\ g.kind # "plan"
                            /\ g.plan \in {plan, Nil}
                            /\ g.kind # "objective" => g.of \in own \cup {Nil}}
                      IN  /\ whole(req[r].base) \subseteq req[r].shown
                          /\ req[r].shown \subseteq whole(goals)
                          /\ \A g \in req[r].shown : g.of \in Objectives(r) \cup {Nil}
    BY DEF TreeHangsTogether
  <2>1. PICK plan, own :
          /\ req[r].op = "tree" /\ req[r].pc = "done" /\ plan = req[r].name
          /\ own = {g.id : g \in {h \in goals : h.kind = "objective" /\ h.plan = plan}}
    OBVIOUS
  <2>2. /\ req[r].name \in Requests /\ req[r].base \subseteq goals /\ Hanging(req[r].base)
        /\ req[r].shown \subseteq goals
        /\ \A g \in req[r].shown : Under(r, g, req[r].shown)
        /\ \A g \in req[r].base :
             g.kind \in Levels("done") /\ Under(r, g, req[r].base) => g \in req[r].shown
    BY <1>1, <2>1 DEF GoalsKept, TreeHeld
  <2>3. Levels("done") = {"objective", "key_result", "initiative"}
    BY DEF Levels
  <2>4. \A g \in goals : Shaped(g) /\ g \in Goals
    BY <1>1 DEF GoalsKept, GoalsHang, DocsTyped
  <2>5. \A g, h \in goals : g.id = h.id => g = h
    BY <1>1 DEF GoalsKept, GoalsHang
  <2>6. Nil \notin Requests
    BY DocsAssumption
  <2>7. ASSUME NEW g \in req[r].base, g.kind # "plan", g.plan \in {plan, Nil},
               g.kind # "objective" => g.of \in own \cup {Nil}
        PROVE  g \in req[r].shown
    <3>1. g \in Goals /\ Shaped(g) /\ g \in goals
      BY <2>2, <2>4
    <3>2. g.kind \in Levels("done")
      BY <2>3, <2>7, <3>1 DEF Goals
    <3>3. CASE g.kind = "objective"
      BY <2>1, <2>2, <2>7, <3>1, <3>2, <3>3 DEF Shaped, Under
    <3>4. CASE g.kind # "objective"
      <4>1. g.kind = "initiative" => g.plan = req[r].name
        BY <2>1, <2>7, <3>1 DEF Shaped
      <4>2. CASE g.of = Nil
        <5>1. g.kind = "initiative"
          BY <2>3, <3>1, <3>2, <3>4, <4>2 DEF Shaped
        <5>2. QED BY <2>2, <3>2, <4>1, <4>2, <5>1 DEF Under
      <4>3. CASE g.of # Nil
        <5>1. PICK h \in goals : h.kind = "objective" /\ h.plan = plan /\ h.id = g.of
          BY <2>1, <2>7, <3>4, <4>3
        <5>2. PICK k \in req[r].base : k.kind = "objective" /\ k.id = g.of
          BY <2>2, <4>3 DEF Hanging
        <5>3. k = h
          BY <2>2, <2>5, <5>1, <5>2
        <5>4. Under(r, g, req[r].base)
          BY <2>1, <2>3, <3>2, <3>4, <4>1, <5>1, <5>2, <5>3 DEF Under
        <5>5. QED BY <2>2, <3>2, <5>4
      <4>4. QED BY <4>2, <4>3
    <3>5. QED BY <3>3, <3>4
  <2>8. ASSUME NEW g \in req[r].shown
        PROVE  /\ g \in goals /\ g.kind # "plan" /\ g.plan \in {plan, Nil}
               /\ g.kind # "objective" => g.of \in own \cup {Nil}
               /\ g.of \in Objectives(r) \cup {Nil}
    <3>1. g \in goals /\ Shaped(g) /\ Under(r, g, req[r].shown)
      BY <2>2, <2>4
    <3>2. g.kind # "plan" /\ g.plan \in {plan, Nil}
      BY <2>1, <3>1 DEF Shaped, Under
    <3>3. CASE g.of = Nil
      BY <3>1, <3>2, <3>3
    <3>4. CASE g.of # Nil
      <4>1. PICK h \in req[r].shown : h.kind = "objective" /\ h.id = g.of /\ h.plan = plan
        BY <2>1, <3>1, <3>4 DEF Shaped, Under
      <4>2. g.of \in own
        BY <2>1, <2>2, <4>1
      <4>3. g.of \in Objectives(r)
        BY <4>1 DEF Objectives
      <4>4. QED BY <3>1, <3>2, <4>2, <4>3
    <3>5. QED BY <3>3, <3>4
  <2>9. QED BY <2>1, <2>7, <2>8
<1>2. QED BY <1>1, DocsStart, DocsStays, MoreStart, MoreStays, PTL DEF DocsSpec

(* What was absorbed into the soul is in it, unless there was no room or a *)
(* later writer had not seen it.                                           *)
THEOREM NotesAreKept == DocsSpec => []NotesKept
<1>1. SoulKept => NotesKept
  BY DEF SoulKept, NotesKept, Wrote, Lost
<1>2. QED BY <1>1, DocsStart, DocsStays, MoreStart, MoreStays, PTL DEF DocsSpec
=============================================================================
