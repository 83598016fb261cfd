------------------------ MODULE WorkingMemoryProofs ------------------------
(***************************************************************************)
(* Lemmas about the Redis commands and the distill worker, shared by the   *)
(* proofs of the modules that compose them.  Each lemma is about one       *)
(* command with the half of the state it leaves alone.                     *)
(***************************************************************************)
EXTENDS WorkingMemory, SequenceTheorems, FiniteSetTheorems, TLAPS

(* The entries of a sequence, as DeadJobs and QueuedJobs collect them.     *)
Entries(q) == {q[i] : i \in DOMAIN q}

(* RPUSH adds the job to the entries and nothing else.                     *)
LEMMA AppendEntries ==
  ASSUME NEW S, NEW q \in Seq(S), NEW x \in S
  PROVE  /\ Append(q, x) \in Seq(S)
         /\ Entries(Append(q, x)) = Entries(q) \cup {x}
         /\ Len(Append(q, x)) = Len(q) + 1
<1>1. Append(q, x) \in Seq(S) /\ Len(Append(q, x)) = Len(q) + 1
  OBVIOUS
<1>2. DOMAIN Append(q, x) = 1..(Len(q) + 1) /\ DOMAIN q = 1..Len(q)
  OBVIOUS
<1>3. \A i \in 1..Len(q) : Append(q, x)[i] = q[i]
  OBVIOUS
<1>4. Append(q, x)[Len(q) + 1] = x
  OBVIOUS
<1>5. 1..(Len(q) + 1) = 1..Len(q) \cup {Len(q) + 1} /\ Len(q) \in Nat
  OBVIOUS
<1>6. Entries(Append(q, x)) = Entries(q) \cup {x}
  <2>1. ASSUME NEW y \in Entries(Append(q, x)) PROVE y \in Entries(q) \cup {x}
    BY <1>2, <1>3, <1>4, <1>5 DEF Entries
  <2>2. ASSUME NEW y \in Entries(q) PROVE y \in Entries(Append(q, x))
    BY <1>2, <1>3, <1>5 DEF Entries
  <2>3. x \in Entries(Append(q, x))
    BY <1>2, <1>4, <1>5 DEF Entries
  <2>4. QED BY <2>1, <2>2, <2>3
<1>7. QED BY <1>1, <1>6

(* BLPOP takes the head; the other entries stay.                           *)
LEMMA TailEntries ==
  ASSUME NEW S, NEW q \in Seq(S), q # <<>>
  PROVE  /\ Tail(q) \in Seq(S)
         /\ Head(q) \in Entries(q)
         /\ Head(q) \in S
         /\ Entries(q) = Entries(Tail(q)) \cup {Head(q)}
         /\ Len(Tail(q)) = Len(q) - 1
<1>1. Len(q) \in Nat /\ Len(q) > 0 /\ DOMAIN q = 1..Len(q)
  OBVIOUS
<1>2. Tail(q) \in Seq(S) /\ Len(Tail(q)) = Len(q) - 1
  BY <1>1
<1>3. DOMAIN Tail(q) = 1..(Len(q) - 1)
  BY <1>2
<1>4. \A i \in 1..(Len(q) - 1) : Tail(q)[i] = q[i + 1]
  BY <1>1
<1>5. Head(q) = q[1] /\ 1 \in DOMAIN q /\ q[1] \in S
  BY <1>1
<1>6. ASSUME NEW y \in Entries(Tail(q)) PROVE y \in Entries(q)
  BY <1>1, <1>3, <1>4 DEF Entries
<1>7. ASSUME NEW y \in Entries(q) PROVE y \in Entries(Tail(q)) \cup {Head(q)}
  <2>1. PICK i \in 1..Len(q) : y = q[i]
    BY <1>1 DEF Entries
  <2>2. CASE i = 1
    BY <1>5, <2>1, <2>2
  <2>3. CASE i # 1
    <3>1. i - 1 \in 1..(Len(q) - 1) /\ (i - 1) + 1 = i
      BY <1>1, <2>1, <2>3
    <3>2. Tail(q)[i - 1] = y
      BY <1>4, <2>1, <3>1
    <3>3. QED BY <1>3, <3>1, <3>2 DEF Entries
  <2>4. QED BY <2>2, <2>3
<1>8. QED BY <1>2, <1>5, <1>6, <1>7 DEF Entries

(* The dead-letter list takes the job, perhaps at the price of its oldest  *)
(* entry, and never exceeds its bound.                                     *)
LEMMA DeadLetterEntries ==
  ASSUME NEW job \in Job, dead \in Seq(Job)
  PROVE  /\ DeadLetter(job) \in Seq(Job)
         /\ Entries(DeadLetter(job)) \subseteq Entries(dead) \cup {job}
         /\ Len(DeadLetter(job)) + Trimmed \in {Len(dead) + 1}
         /\ Len(dead) <= DeadLetterMaxLen =>
              Len(DeadLetter(job)) <= DeadLetterMaxLen
         /\ Trimmed \in Nat
<1> DEFINE grown == Append(dead, job)
<1>1. /\ grown \in Seq(Job)
      /\ Entries(grown) = Entries(dead) \cup {job}
      /\ Len(grown) = Len(dead) + 1
  BY AppendEntries
<1>2. Len(dead) \in Nat /\ DeadLetterMaxLen \in Nat /\ grown # <<>>
  BY DeadLetterMaxLenAssumption
<1>3. /\ Tail(grown) \in Seq(Job)
      /\ Entries(Tail(grown)) \subseteq Entries(grown)
      /\ Len(Tail(grown)) = Len(grown) - 1
  BY <1>1, <1>2, TailEntries
<1>4. CASE Len(grown) > DeadLetterMaxLen
  <2>1. DeadLetter(job) = Tail(grown)
    BY <1>4 DEF DeadLetter
  <2>2. Trimmed = 1
    BY <1>1, <1>2, <1>4 DEF Trimmed
  <2> HIDE DEF grown
  <2>3. QED BY <1>1, <1>2, <1>3, <2>1, <2>2
<1>5. CASE ~ (Len(grown) > DeadLetterMaxLen)
  <2>1. DeadLetter(job) = grown
    BY <1>5 DEF DeadLetter
  <2>2. Trimmed = 0
    BY <1>1, <1>2, <1>5 DEF Trimmed
  <2> HIDE DEF grown
  <2>3. QED BY <1>1, <1>2, <1>5, <2>1, <2>2
<1>6. QED BY <1>4, <1>5
----------------------------------------------------------------------------
(* Types.                                                                  *)

(* The initial working memory is well typed.                               *)
LEMMA InitTyped == WMInit => WMTypeOK
<1> SUFFICES ASSUME WMInit PROVE WMTypeOK
  OBVIOUS
<1>1. /\ issued \subseteq Sessions /\ brain \subseteq Turns
      /\ meta \in [Sessions -> MetaState]
      /\ agentOf \in [Sessions -> Agents \cup {None}]
      /\ turns \in [Sessions -> SUBSET Turns]
  BY DEF WMInit, MetaState
<1>2. queue \in Seq(Job) /\ dead \in Seq(Job)
  BY DEF WMInit
<1>3. worker \in Busy \cup {Idle, Down}
  BY DEF WMInit
<1>4. count \in Tally
  BY DEF WMInit, Tally
<1>5. QED BY <1>1, <1>2, <1>3, <1>4 DEF WMTypeOK

(* The counters stay natural numbers.                                      *)
LEMMA Counted ==
  ASSUME NEW k \in Nat, NEW x \in Tally
  PROVE  /\ [x EXCEPT !.pushed = @ + k] \in Tally
         /\ [x EXCEPT !.settled = @ + k] \in Tally
         /\ [x EXCEPT !.lost = @ + k] \in Tally
         /\ [x EXCEPT !.trimmed = @ + k] \in Tally
<1>1. [x EXCEPT !.pushed = @ + k] \in Tally
  BY DEF Tally
<1>2. [x EXCEPT !.settled = @ + k] \in Tally
  BY DEF Tally
<1>3. [x EXCEPT !.lost = @ + k] \in Tally
  BY DEF Tally
<1>4. [x EXCEPT !.trimmed = @ + k] \in Tally
  BY DEF Tally
<1>5. QED BY <1>1, <1>2, <1>3, <1>4

(* Whatever part of the transcript was ingested, the brain holds turns.    *)
LEMMA BrainTyped ==
  ASSUME brain \subseteq Turns, worker.transcript \subseteq Turns,
         \E done \in SUBSET worker.transcript : brain' = brain \cup done
  PROVE  brain' \subseteq Turns
OBVIOUS

(* RPUSH of a job keeps the types.                                         *)
LEMMA PushTyped ==
  ASSUME WMTypeOK, NEW s \in Sessions, PushJob(s), UNCHANGED store
  PROVE  WMTypeOK'
<1>1. PICK sig \in Signatures :
        queue' = Append(queue, [sid |-> s, attempts |-> 0, sig |-> sig])
  BY DEF PushJob
<1>2. [sid |-> s, attempts |-> 0, sig |-> sig] \in Job
  BY SignaturesAssumption DEF Job
<1>3. queue' \in Seq(Job)
  BY <1>1, <1>2, AppendEntries DEF WMTypeOK
<1>4. count' \in Tally
  BY Counted DEF PushJob, WMTypeOK
<1>5. QED BY <1>3, <1>4 DEF PushJob, WMTypeOK, store

(* A worker that is neither idle nor down holds a job.                     *)
LEMMA BusyHolds ==
  ASSUME WMTypeOK
  PROVE  /\ worker.pc \in {"popped", "rejected", "read"} <=> worker \in Busy
         /\ worker \in Busy => worker.job \in Job
                              /\ worker.transcript \subseteq Turns
         /\ worker = Idle => worker.pc = "idle"
         /\ worker = Down => worker.pc = "down"
BY DEF WMTypeOK, Busy, Idle, Down

(* The retry of a failed job keeps the types of the two lists.             *)
LEMMA RequeueTyped ==
  ASSUME WMTypeOK, NEW job \in Job, Requeue(job)
  PROVE  /\ queue' \in Seq(Job) /\ dead' \in Seq(Job)
         /\ count' \in Tally
<1> DEFINE again == [job EXCEPT !.attempts = @ + 1]
<1>1. again \in Job
  BY DEF Job
<1>2. queue \in Seq(Job) /\ dead \in Seq(Job)
        /\ count \in Tally
  BY DEF WMTypeOK
<1> HIDE DEF again
<1>3. CASE again.attempts >= MaxDistillAttempts
  <2>1. /\ dead' = DeadLetter(again) /\ queue' = queue
        /\ count' = [count EXCEPT !.trimmed = @ + Trimmed]
    BY <1>3 DEF Requeue, again
  <2>2. DeadLetter(again) \in Seq(Job) /\ Trimmed \in Nat
    BY <1>1, <1>2, DeadLetterEntries
  <2>3. count' \in Tally
    BY <1>2, <2>1, <2>2, Counted
  <2>4. QED BY <1>2, <2>1, <2>2, <2>3
<1>4. CASE ~ (again.attempts >= MaxDistillAttempts)
  <2>1. queue' = Append(queue, again) /\ dead' = dead /\ count' = count
    BY <1>4 DEF Requeue, again
  <2>2. QED BY <1>1, <1>2, <2>1, AppendEntries
<1>5. QED BY <1>3, <1>4

(* Every step and every fault of the worker keeps the types.               *)
LEMMA WorkerTyped ==
  ASSUME WMTypeOK, WorkerStep \/ WorkerFault, UNCHANGED store
  PROVE  WMTypeOK'
<1>1. /\ queue \in Seq(Job) /\ dead \in Seq(Job) /\ brain \subseteq Turns
      /\ turns \in [Sessions -> SUBSET Turns] /\ count \in Tally
  BY DEF WMTypeOK
<1>2. SUFFICES /\ queue' \in Seq(Job) /\ dead' \in Seq(Job)
               /\ worker' \in Busy \cup {Idle, Down}
               /\ brain' \subseteq Turns /\ count' \in Tally
  BY DEF WMTypeOK, store
<1>3. CASE Pop
  <2>1. Tail(queue) \in Seq(Job) /\ Head(queue) \in Job
    BY <1>1, <1>3, TailEntries DEF Pop
  <2>2. worker' \in Busy
    BY <1>3, <2>1 DEF Pop, Busy
  <2>3. QED BY <1>1, <1>3, <2>1, <2>2 DEF Pop
<1>4. CASE RejectJob
  <2>1. worker.job \in Job
    BY <1>4, BusyHolds DEF RejectJob
  <2>2. DeadLetter(worker.job) \in Seq(Job) /\ Trimmed \in Nat
    BY <1>1, <2>1, DeadLetterEntries
  <2>3. count' \in Tally
    BY <1>1, <1>4, <2>2, Counted DEF RejectJob
  <2>4. QED BY <1>1, <1>4, <2>2, <2>3 DEF RejectJob
<1>5. CASE ReadTranscript
  <2>1. worker \in Busy /\ worker.job.sid \in Sessions
    BY <1>5, BusyHolds DEF ReadTranscript, Job
  <2>2. turns[worker.job.sid] \subseteq Turns
    BY <1>1, <2>1
  <2>3. [worker EXCEPT !.pc = "read", !.transcript = turns[worker.job.sid]]
          \in Busy
    BY <2>1, <2>2 DEF Busy
  <2>4. worker' \in Busy \cup {Idle}
    BY <1>5, <2>3 DEF ReadTranscript
  <2>5. count' \in Tally
    <3>1. \/ UNCHANGED count
          \/ count' = [count EXCEPT !.settled = @ + 1]
      BY <1>5, Zenon DEF ReadTranscript
    <3>2. QED BY <1>1, <3>1, Counted
  <2>6. QED BY <1>1, <1>5, <2>4, <2>5 DEF ReadTranscript
<1>6. CASE Distill
  <2>1. worker.transcript \subseteq Turns
    BY <1>6, BusyHolds DEF Distill
  <2>2. count' \in Tally
    BY <1>1, <1>6, Counted DEF Distill
  <2>3. QED BY <1>1, <1>6, <2>1, <2>2 DEF Distill
<1>7. CASE FailJob
  <2>1. worker.job \in Job /\ worker.transcript \subseteq Turns
    BY <1>7, BusyHolds DEF FailJob
  <2>2. queue' \in Seq(Job) /\ dead' \in Seq(Job) /\ count' \in Tally
    BY <1>7, <2>1, RequeueTyped DEF FailJob
  <2>3. brain' \subseteq Turns
    BY <1>1, <1>7, <2>1, BrainTyped DEF FailJob
  <2>4. QED BY <1>7, <2>2, <2>3 DEF FailJob
<1>8. CASE CrashWorker
  <2>1. worker.transcript \subseteq Turns
    BY <1>8, BusyHolds DEF CrashWorker
  <2>2. brain' \subseteq Turns
    BY <1>1, <1>8, <2>1, BrainTyped DEF CrashWorker
  <2>3. count' \in Tally
    BY <1>1, <1>8, Counted DEF CrashWorker
  <2>4. QED BY <1>1, <1>8, <2>2, <2>3 DEF CrashWorker
<1>9. CASE LoseLoop
  <2>1. worker.transcript \subseteq Turns
    BY <1>9, BusyHolds DEF LoseLoop
  <2>2. brain' \subseteq Turns
    BY <1>1, <1>9, <2>1, BrainTyped DEF LoseLoop
  <2>3. count' \in Tally
    BY <1>1, <1>9, Counted DEF LoseLoop
  <2>4. QED BY <1>1, <1>9, <2>2, <2>3 DEF LoseLoop
<1>10. CASE RestartWorker
  BY <1>1, <1>10 DEF RestartWorker
<1>11. QED
  BY <1>3, <1>4, <1>5, <1>6, <1>7, <1>8, <1>9, <1>10 DEF WorkerStep, WorkerFault

----------------------------------------------------------------------------
(* Which sessions have jobs.                                               *)

LEMMA JobSets ==
  /\ QueuedJobs = Entries(queue) /\ DeadJobs = Entries(dead)
  /\ QueuedJobs' = Entries(queue') /\ DeadJobs' = Entries(dead')
BY DEF QueuedJobs, DeadJobs, Entries

(* The job in hand, by the state of the worker.                            *)
LEMMA InHand ==
  /\ worker.pc \in {"popped", "rejected", "read"} => JobsInHand = {worker.job}
  /\ worker \in {Idle, Down} => JobsInHand = {}
  /\ worker'.pc \in {"popped", "rejected", "read"} =>
       JobsInHand' = {worker'.job}
  /\ worker' \in {Idle, Down} => JobsInHand' = {}
BY DEF JobsInHand, Idle, Down

(* A retry moves the job in hand to one of the two lists, under the same   *)
(* session id.                                                             *)
LEMMA RequeueSids ==
  ASSUME WMTypeOK, NEW job \in Job, Requeue(job)
  PROVE  \E again \in Job :
           /\ again.sid = job.sid
           /\ again.attempts = job.attempts + 1
           /\ \/ /\ Entries(queue') = Entries(queue) \cup {again}
                 /\ Len(queue') = Len(queue) + 1
                 /\ again.attempts < MaxDistillAttempts
                 /\ UNCHANGED <<dead, count>>
              \/ /\ UNCHANGED queue
                 /\ dead' = DeadLetter(again)
                 /\ count' = [count EXCEPT !.trimmed = @ + Trimmed]
<1> DEFINE again == [job EXCEPT !.attempts = @ + 1]
<1>1. /\ again \in Job /\ again.sid = job.sid
      /\ again.attempts = job.attempts + 1 /\ again.attempts \in Nat
  BY DEF Job
<1>2. queue \in Seq(Job) /\ MaxDistillAttempts \in Nat
  BY MaxDistillAttemptsAssumption DEF WMTypeOK
<1> HIDE DEF again
<1>3. CASE again.attempts >= MaxDistillAttempts
  <2>1. /\ dead' = DeadLetter(again) /\ queue' = queue
        /\ count' = [count EXCEPT !.trimmed = @ + Trimmed]
    BY <1>3 DEF Requeue, again
  <2>2. QED BY <1>1, <2>1
<1>4. CASE ~ (again.attempts >= MaxDistillAttempts)
  <2>1. queue' = Append(queue, again) /\ dead' = dead /\ count' = count
    BY <1>4 DEF Requeue, again
  <2>2. /\ Entries(queue') = Entries(queue) \cup {again}
        /\ Len(queue') = Len(queue) + 1
    BY <1>1, <1>2, <2>1, AppendEntries
  <2>3. again.attempts < MaxDistillAttempts
    BY <1>1, <1>2, <1>4
  <2>4. QED BY <1>1, <2>1, <2>2, <2>3
<1>5. QED BY <1>3, <1>4

(* A step of the worker gives no session a job it did not have, and        *)
(* settles at most one.                                                    *)
LEMMA WorkerSids ==
  ASSUME WMTypeOK, WorkerStep \/ WorkerFault
  PROVE  /\ JobSids' \subseteq JobSids
         /\ UNCHANGED Due \/ \E s \in Due : Due' = Due \ {s}
<1>1. queue \in Seq(Job) /\ dead \in Seq(Job)
  BY DEF WMTypeOK
<1> DEFINE Sids(jobs) == {job.sid : job \in jobs}
<1>2. /\ JobSids = Sids(Entries(queue) \cup JobsInHand \cup Entries(dead))
      /\ JobSids' = Sids(Entries(queue') \cup JobsInHand' \cup Entries(dead'))
      /\ Due = Sids(Entries(queue) \cup JobsInHand)
      /\ Due' = Sids(Entries(queue') \cup JobsInHand')
  BY JobSets DEF JobSids, Due
<1> HIDE DEF Sids
(* The job in hand leaves for good, perhaps to the dead-letter list.       *)
<1>3. ASSUME NEW held \in Job, JobsInHand = {held}, JobsInHand' = {},
             UNCHANGED queue,
             Sids(Entries(dead')) \subseteq Sids(Entries(dead)) \cup {held.sid}
      PROVE  /\ JobSids' \subseteq JobSids
             /\ UNCHANGED Due \/ \E s \in Due : Due' = Due \ {s}
  <2>1. JobSids' \subseteq JobSids
    BY <1>2, <1>3 DEF Sids
  <2>2. Due = Due' \cup {held.sid}
    BY <1>2, <1>3 DEF Sids
  <2>3. QED BY <2>1, <2>2
<1>4. CASE Pop
  <2>1. Entries(queue) = Entries(queue') \cup {Head(queue)}
    BY <1>1, <1>4, TailEntries DEF Pop
  <2>2. JobsInHand = {}
    BY <1>4, InHand DEF Pop
  <2>3. JobsInHand' = {Head(queue)}
    BY <1>4 DEF Pop, JobsInHand
  <2>4. UNCHANGED dead
    BY <1>4 DEF Pop
  <2>5. QED BY <1>2, <2>1, <2>2, <2>3, <2>4
<1>5. CASE RejectJob
  <2>1. worker.job \in Job /\ JobsInHand = {worker.job} /\ JobsInHand' = {}
    BY <1>5, BusyHolds, InHand DEF RejectJob
  <2>2. Entries(dead') \subseteq Entries(dead) \cup {worker.job}
    BY <1>1, <1>5, <2>1, DeadLetterEntries DEF RejectJob
  <2>3. Sids(Entries(dead')) \subseteq Sids(Entries(dead)) \cup {worker.job.sid}
    BY <2>2 DEF Sids
  <2>4. QED BY <1>3, <1>5, <2>1, <2>3 DEF RejectJob
<1>6. CASE ReadTranscript
  <2>1. worker.job \in Job /\ JobsInHand = {worker.job}
    BY <1>6, BusyHolds, InHand DEF ReadTranscript
  <2>2. \/ worker' = Idle
        \/ worker' = [worker EXCEPT !.pc = "read",
                                    !.transcript = turns[worker.job.sid]]
    BY <1>6 DEF ReadTranscript
  <2>3. UNCHANGED <<queue, dead>>
    BY <1>6 DEF ReadTranscript
  <2>4. CASE worker' = Idle
    BY <1>3, <2>1, <2>3, <2>4, InHand
  <2>5. CASE worker' = [worker EXCEPT !.pc = "read",
                                      !.transcript = turns[worker.job.sid]]
    <3>1. worker \in Busy
      BY <1>6, BusyHolds DEF ReadTranscript
    <3>2. worker'.pc = "read" /\ worker'.job = worker.job
      BY <2>5, <3>1 DEF Busy
    <3>3. JobsInHand' = JobsInHand
      BY <2>1, <3>2, InHand
    <3>4. QED BY <1>2, <2>3, <3>3
  <2>6. QED BY <2>2, <2>4, <2>5
<1>7. CASE Distill
  <2>1. worker.job \in Job /\ JobsInHand = {worker.job} /\ JobsInHand' = {}
    BY <1>7, BusyHolds, InHand DEF Distill
  <2>2. QED BY <1>3, <1>7, <2>1 DEF Distill
<1>8. CASE FailJob
  <2>1. worker.job \in Job /\ JobsInHand = {worker.job} /\ JobsInHand' = {}
    BY <1>8, BusyHolds, InHand DEF FailJob
  <2>2. PICK again \in Job :
          /\ again.sid = worker.job.sid
          /\ \/ /\ Entries(queue') = Entries(queue) \cup {again}
                /\ UNCHANGED dead
             \/ /\ UNCHANGED queue
                /\ dead' = DeadLetter(again)
    BY <1>8, <2>1, RequeueSids DEF FailJob
  <2>3. CASE /\ Entries(queue') = Entries(queue) \cup {again}
             /\ UNCHANGED dead
    <3>1. JobSids' = JobSids /\ Due' = Due
      BY <1>2, <2>1, <2>2, <2>3 DEF Sids
    <3>2. QED BY <3>1
  <2>4. CASE UNCHANGED queue /\ dead' = DeadLetter(again)
    <3>1. Entries(dead') \subseteq Entries(dead) \cup {again}
      BY <1>1, <2>4, DeadLetterEntries
    <3>2. Sids(Entries(dead'))
            \subseteq Sids(Entries(dead)) \cup {worker.job.sid}
      BY <2>2, <3>1 DEF Sids
    <3>3. QED BY <1>3, <2>1, <2>4, <3>2
  <2>5. QED BY <2>2, <2>3, <2>4
<1>9. CASE CrashWorker
  <2>1. worker.job \in Job /\ JobsInHand = {worker.job} /\ JobsInHand' = {}
    BY <1>9, BusyHolds, InHand DEF CrashWorker
  <2>2. QED BY <1>3, <1>9, <2>1 DEF CrashWorker
<1>10. CASE LoseLoop
  <2>1. worker.job \in Job /\ JobsInHand = {worker.job} /\ JobsInHand' = {}
    BY <1>10, BusyHolds, InHand DEF LoseLoop
  <2>2. QED BY <1>3, <1>10, <2>1 DEF LoseLoop
<1>11. CASE RestartWorker
  <2>1. JobsInHand = {} /\ JobsInHand' = {}
    BY <1>11, InHand DEF RestartWorker
  <2>2. QED BY <1>2, <1>11, <2>1 DEF RestartWorker
<1>12. QED
  BY <1>4, <1>5, <1>6, <1>7, <1>8, <1>9, <1>10, <1>11
     DEF WorkerStep, WorkerFault

----------------------------------------------------------------------------
(* The invariants of the pipeline, command by command.                     *)

(* The pipeline half of the state determines which sessions have jobs.     *)
LEMMA DistillUnchanged ==
  ASSUME UNCHANGED distill
  PROVE  /\ UNCHANGED <<JobSids, Due, QueuedJobs, JobsInHand, DeadJobs>>
         /\ UNCHANGED <<queue, dead, worker, brain, count>>
BY DEF distill, JobSids, Due, QueuedJobs, JobsInHand, DeadJobs

(* RPUSH of a job adds its session to those that are due.                  *)
LEMMA PushSids ==
  ASSUME WMTypeOK, NEW s \in Sessions, PushJob(s)
  PROVE  /\ JobSids' = JobSids \cup {s}
         /\ Due' = Due \cup {s}
<1>1. PICK sig \in Signatures :
        queue' = Append(queue, [sid |-> s, attempts |-> 0, sig |-> sig])
  BY DEF PushJob
<1> DEFINE job == [sid |-> s, attempts |-> 0, sig |-> sig]
<1>2. job \in Job /\ job.sid = s /\ queue \in Seq(Job)
  BY SignaturesAssumption DEF Job, WMTypeOK
<1> HIDE DEF job
<1>3. Entries(queue') = Entries(queue) \cup {job}
  BY <1>1, <1>2, AppendEntries DEF job
<1>4. UNCHANGED <<JobsInHand, DeadJobs>>
  BY DEF PushJob, JobsInHand, DeadJobs
<1>5. QED BY <1>2, <1>3, <1>4, JobSets DEF JobSids, Due

(* How many jobs the worker holds.                                         *)
LEMMA HandSize ==
  /\ Cardinality({}) = 0
  /\ \A job : Cardinality({job}) = 1
  /\ Cardinality(JobsInHand) \in {0, 1}
  /\ Cardinality(JobsInHand') \in {0, 1}
<1>1. Cardinality({}) = 0 /\ \A job : Cardinality({job}) = 1
  BY FS_EmptySet, FS_Singleton
<1>2. JobsInHand = {} \/ JobsInHand = {worker.job}
  BY DEF JobsInHand
<1>3. JobsInHand' = {} \/ JobsInHand' = {worker'.job}
  BY DEF JobsInHand
<1>4. QED BY <1>1, <1>2, <1>3

(* RPUSH of a job counts it.                                               *)
LEMMA PushConserves ==
  ASSUME WMTypeOK, JobsConserved, NEW s \in Sessions, PushJob(s)
  PROVE  JobsConserved'
<1>1. Len(queue') = Len(queue) + 1 /\ Len(queue) \in Nat
  BY DEF PushJob, WMTypeOK
<1>2. UNCHANGED <<dead, JobsInHand>>
  BY DEF PushJob, JobsInHand
<1>3. /\ count'.pushed = count.pushed + 1 /\ count'.settled = count.settled
      /\ count'.lost = count.lost /\ count'.trimmed = count.trimmed
  BY DEF PushJob, WMTypeOK, Tally
<1>4. /\ count.pushed \in Nat /\ count.settled \in Nat /\ count.lost \in Nat
      /\ count.trimmed \in Nat /\ Len(dead) \in Nat
  BY DEF WMTypeOK, Tally
<1>5. /\ Cardinality(JobsInHand) \in Nat
      /\ Cardinality(JobsInHand') = Cardinality(JobsInHand)
  BY <1>2, HandSize
<1>6. UNCHANGED Len(dead)
  BY <1>2
<1> DEFINE held == Cardinality(JobsInHand)
           held1 == Cardinality(JobsInHand')
<1> HIDE DEF held, held1
<1>7. count.pushed = Len(queue) + held + Len(dead)
                       + count.settled + count.lost + count.trimmed
  BY DEF JobsConserved, held
<1>8. held \in Nat /\ held1 = held
  BY <1>5 DEF held, held1
<1>9. count'.pushed = Len(queue') + held1 + Len(dead)'
                        + count'.settled + count'.lost + count'.trimmed
  BY <1>1, <1>3, <1>4, <1>6, <1>7, <1>8
<1>10. QED BY <1>9 DEF JobsConserved, held1

(* What RPUSH and LTRIM add and drop balances.                             *)
LEMMA Balance ==
  ASSUME NEW d \in Nat, NEW d1 \in Nat, NEW r \in Nat, NEW r1 \in Nat,
         d1 + r1 = d + 1 + r,
         NEW q \in Nat, NEW s \in Nat, NEW l \in Nat
  PROVE  q + 0 + d1 + s + l + r1 = q + 1 + d + s + l + r
OBVIOUS

(* A job that becomes a dead letter is counted, whether or not an older    *)
(* dead letter is trimmed for it.                                          *)
LEMMA DeadLetterConserves ==
  ASSUME WMTypeOK, NEW job \in Job, dead' = DeadLetter(job),
         count' = [count EXCEPT !.trimmed = @ + Trimmed]
  PROVE  /\ count'.pushed = count.pushed /\ count'.settled = count.settled
         /\ count'.lost = count.lost
         /\ Len(queue) + 0 + Len(dead') + count.settled + count.lost
              + count'.trimmed
            = Len(queue) + 1 + Len(dead) + count.settled + count.lost
                + count.trimmed
<1>1. /\ queue \in Seq(Job) /\ dead \in Seq(Job) /\ count \in Tally
      /\ Len(queue) \in Nat /\ Len(dead) \in Nat
      /\ count.settled \in Nat /\ count.lost \in Nat /\ count.trimmed \in Nat
  BY DEF WMTypeOK, Tally
<1>2. /\ Len(dead') + Trimmed = Len(dead) + 1 /\ Trimmed \in Nat
      /\ Len(dead') \in Nat
  BY <1>1, DeadLetterEntries
<1>3. /\ count'.trimmed = count.trimmed + Trimmed
      /\ count'.pushed = count.pushed /\ count'.settled = count.settled
      /\ count'.lost = count.lost
  BY <1>1 DEF Tally
<1>4. /\ Len(dead') + count'.trimmed = Len(dead) + 1 + count.trimmed
      /\ count'.trimmed \in Nat
  BY <1>1, <1>2, <1>3
<1>5. PICK d \in Nat, d1 \in Nat, r \in Nat, r1 \in Nat :
        /\ d = Len(dead) /\ d1 = Len(dead')
        /\ r = count.trimmed /\ r1 = count'.trimmed
  BY <1>1, <1>2, <1>4
<1>6. d1 + r1 = d + 1 + r
  BY <1>4, <1>5
<1>7. PICK q \in Nat, s \in Nat, l \in Nat :
        q = Len(queue) /\ s = count.settled /\ l = count.lost
  BY <1>1
<1>8. q + 0 + d1 + s + l + r1 = q + 1 + d + s + l + r
  BY <1>6, Balance
<1>9. QED BY <1>3, <1>5, <1>7, <1>8

(* No step and no fault of the worker drops or multiplies a job unseen.    *)
LEMMA WorkerConserves ==
  ASSUME WMTypeOK, JobsConserved, WorkerStep \/ WorkerFault
  PROVE  JobsConserved'
<1>1. /\ queue \in Seq(Job) /\ dead \in Seq(Job) /\ count \in Tally
      /\ Len(queue) \in Nat /\ Len(dead) \in Nat
      /\ count.pushed \in Nat /\ count.settled \in Nat
      /\ count.lost \in Nat /\ count.trimmed \in Nat
  BY DEF WMTypeOK, Tally
<1> DEFINE hand == Cardinality(JobsInHand)
           next == Cardinality(JobsInHand')
<1>2. SUFFICES
        /\ hand \in Nat /\ next \in Nat
        /\ count'.pushed = count.pushed
        /\ Len(queue') + next + Len(dead') + count'.settled + count'.lost
             + count'.trimmed
           = Len(queue) + hand + Len(dead) + count.settled + count.lost
               + count.trimmed
  BY DEF JobsConserved
<1>3. hand \in {0, 1} /\ next \in {0, 1}
  BY HandSize
<1>4. CASE Pop
  <2>1. hand = 0
    BY <1>4, InHand, HandSize DEF Pop
  <2>2. next = 1
    <3>1. JobsInHand' = {Head(queue)}
      BY <1>4 DEF Pop, JobsInHand
    <3>2. QED BY <3>1, HandSize
  <2>3. Len(queue') = Len(queue) - 1 /\ UNCHANGED <<dead, count>>
    BY <1>1, <1>4, TailEntries DEF Pop
  <2> HIDE DEF hand, next
  <2>4. QED BY <1>1, <2>1, <2>2, <2>3
<1>5. CASE RejectJob
  <2>1. hand = 1 /\ next = 0
    BY <1>5, InHand, HandSize DEF RejectJob
  <2>2. worker.job \in Job
    BY <1>5, BusyHolds DEF RejectJob
  <2> HIDE DEF hand, next
  <2>3. QED BY <1>5, <2>1, <2>2, DeadLetterConserves DEF RejectJob
<1>6. CASE ReadTranscript
  <2>1. hand = 1 /\ worker \in Busy
    BY <1>6, InHand, HandSize, BusyHolds DEF ReadTranscript
  <2>2. CASE turns[worker.job.sid] = {}
    <3>1. worker' = Idle /\ count' = [count EXCEPT !.settled = @ + 1]
      BY <1>6, <2>2, Zenon DEF ReadTranscript
    <3>2. next = 0
      BY <3>1, InHand, HandSize
    <3>3. /\ count'.settled = count.settled + 1 /\ count'.lost = count.lost
          /\ count'.pushed = count.pushed /\ count'.trimmed = count.trimmed
      BY <1>1, <3>1 DEF Tally
    <3>4. UNCHANGED <<queue, dead>>
      BY <1>6 DEF ReadTranscript
    <3> HIDE DEF hand, next
    <3>5. QED BY <1>1, <2>1, <3>2, <3>3, <3>4
  <2>3. CASE turns[worker.job.sid] # {}
    <3>1. /\ UNCHANGED <<count, queue, dead>>
          /\ worker' = [worker EXCEPT !.pc = "read",
                                     !.transcript = turns[worker.job.sid]]
      BY <1>6, <2>3, Zenon DEF ReadTranscript
    <3>2. worker'.pc = "read"
      BY <2>1, <3>1 DEF Busy
    <3>3. next = 1
      BY <3>2, InHand, HandSize
    <3> HIDE DEF hand, next
    <3>4. QED BY <1>1, <2>1, <3>1, <3>3
  <2>4. QED BY <2>2, <2>3
<1>7. CASE Distill
  <2>1. hand = 1 /\ next = 0
    BY <1>7, InHand, HandSize DEF Distill
  <2>2. /\ count'.settled = count.settled + 1 /\ count'.lost = count.lost
        /\ count'.pushed = count.pushed /\ count'.trimmed = count.trimmed
        /\ UNCHANGED <<queue, dead>>
    BY <1>1, <1>7 DEF Distill, Tally
  <2> HIDE DEF hand, next
  <2>3. QED BY <1>1, <2>1, <2>2
<1>8. CASE FailJob
  <2>1. hand = 1 /\ next = 0 /\ worker.job \in Job
    BY <1>8, InHand, HandSize, BusyHolds DEF FailJob
  <2>2. PICK again \in Job :
          \/ Len(queue') = Len(queue) + 1 /\ UNCHANGED <<dead, count>>
          \/ /\ UNCHANGED queue
             /\ dead' = DeadLetter(again)
             /\ count' = [count EXCEPT !.trimmed = @ + Trimmed]
    BY <1>8, <2>1, RequeueSids DEF FailJob
  <2>3. CASE Len(queue') = Len(queue) + 1 /\ UNCHANGED <<dead, count>>
    <3> HIDE DEF hand, next
    <3>1. QED BY <1>1, <2>1, <2>3
  <2>4. CASE /\ UNCHANGED queue
             /\ dead' = DeadLetter(again)
             /\ count' = [count EXCEPT !.trimmed = @ + Trimmed]
    <3> HIDE DEF hand, next
    <3>1. QED BY <2>1, <2>4, DeadLetterConserves
  <2>5. QED BY <2>2, <2>3, <2>4
<1>9. CASE CrashWorker \/ LoseLoop
  <2>1. hand = 1 /\ next = 0
    BY <1>9, InHand, HandSize DEF CrashWorker, LoseLoop
  <2>2. /\ count'.lost = count.lost + 1 /\ count'.settled = count.settled
        /\ count'.pushed = count.pushed /\ count'.trimmed = count.trimmed
        /\ UNCHANGED <<queue, dead>>
    BY <1>1, <1>9 DEF CrashWorker, LoseLoop, Tally
  <2> HIDE DEF hand, next
  <2>3. QED BY <1>1, <2>1, <2>2
<1>10. CASE RestartWorker
  <2>1. hand = 0 /\ next = 0
    BY <1>10, InHand, HandSize DEF RestartWorker
  <2>2. UNCHANGED <<queue, dead, count>>
    BY <1>10 DEF RestartWorker
  <2> HIDE DEF hand, next
  <2>3. QED BY <1>1, <2>1, <2>2
<1>11. QED
  BY <1>4, <1>5, <1>6, <1>7, <1>8, <1>9, <1>10 DEF WorkerStep, WorkerFault

(* The phase of a session depends on nothing but its hash and its birth.   *)
LEMMA PhaseFrame ==
  ASSUME UNCHANGED <<issued, meta>>
  PROVE  UNCHANGED Phase
BY DEF Phase

(* Closing, opening and expiring move one session through its phases.      *)
LEMMA PhaseMoves ==
  ASSUME WMTypeOK, NEW s \in Sessions, NEW a, UNCHANGED Due
  PROVE  /\ OpenSession(s, a) => Contract!Open(s)
         /\ MarkClosed(s) /\ s \in issued => Contract!Close(s) \/ UNCHANGED Phase
         /\ \A t : PushTurn(s, t) => UNCHANGED Phase
         /\ ExpireSession(s) => Contract!Expire(s) \/ UNCHANGED Phase
<1>1. /\ meta \in [Sessions -> MetaState] /\ issued \subseteq Sessions
      /\ Phase \in [Sessions -> {"new", "open", "closed", "gone"}]
      /\ \A r \in Sessions : Phase[r] =
           IF r \notin issued THEN "new"
           ELSE IF meta[r] \in {"open", "closed"} THEN meta[r] ELSE "gone"
  BY DEF WMTypeOK, Phase
<1>2. /\ DOMAIN Phase' = Sessions
      /\ \A r \in Sessions : Phase'[r] =
           IF r \notin issued' THEN "new"
           ELSE IF meta'[r] \in {"open", "closed"} THEN meta'[r] ELSE "gone"
  BY DEF Phase
<1>3. ASSUME OpenSession(s, a)
      PROVE  Contract!Open(s)
  <2>1. /\ s \notin issued /\ issued' = issued \cup {s}
        /\ meta' = [meta EXCEPT ![s] = "open"]
    BY <1>3 DEF OpenSession
  <2>2. Phase[s] = "new" /\ Phase' = [Phase EXCEPT ![s] = "open"]
    BY <1>1, <1>2, <2>1 DEF Phase
  <2>3. QED BY <2>2 DEF Contract!Open
<1>4. ASSUME MarkClosed(s), s \in issued
      PROVE  Contract!Close(s) \/ UNCHANGED Phase
  <2>1. /\ meta' = [meta EXCEPT ![s] = IF @ = "open" THEN "closed"
                                      ELSE IF @ = "absent" THEN "ghost" ELSE @]
        /\ issued' = issued
    BY <1>4 DEF MarkClosed
  <2>2. CASE meta[s] = "open"
    <3>1. Phase[s] = "open" /\ Phase' = [Phase EXCEPT ![s] = "closed"]
      BY <1>1, <1>2, <1>4, <2>1, <2>2 DEF Phase
    <3>2. QED BY <3>1 DEF Contract!Close
  <2>3. CASE meta[s] # "open"
    <3>1. \A r \in Sessions : Phase'[r] = Phase[r]
      BY <1>1, <1>2, <2>1, <2>3 DEF MetaState
    <3>2. QED BY <3>1 DEF Phase
  <2>4. QED BY <2>2, <2>3
<1>5. ASSUME ExpireSession(s)
      PROVE  Contract!Expire(s) \/ UNCHANGED Phase
  <2>1. /\ meta' = [meta EXCEPT ![s] = IF @ = "ghost" THEN "ghost" ELSE "absent"]
        /\ issued' = issued
    BY <1>5 DEF ExpireSession
  <2>2. CASE s \in issued /\ meta[s] \in {"open", "closed"}
    <3>1. Phase[s] \in {"open", "closed"} /\ Phase' = [Phase EXCEPT ![s] = "gone"]
      BY <1>1, <1>2, <2>1, <2>2 DEF Phase
    <3>2. QED BY <3>1 DEF Contract!Expire
  <2>3. CASE ~ (s \in issued /\ meta[s] \in {"open", "closed"})
    <3>1. \A r \in Sessions : Phase'[r] = Phase[r]
      BY <1>1, <1>2, <2>1, <2>3 DEF MetaState
    <3>2. QED BY <3>1 DEF Phase
  <2>4. QED BY <2>2, <2>3
<1>6. ASSUME NEW t, PushTurn(s, t)
      PROVE  UNCHANGED Phase
  <2>1. /\ meta' = [meta EXCEPT ![s] = IF @ = "ghost" THEN "fading" ELSE @]
        /\ issued' = issued
    BY <1>6 DEF PushTurn
  <2>2. \A r \in Sessions : Phase'[r] = Phase[r]
    BY <1>1, <1>2, <2>1 DEF MetaState
  <2>3. QED BY <2>2 DEF Phase
<1>7. QED BY <1>3, <1>4, <1>5, <1>6

----------------------------------------------------------------------------
(* Modules whose every step is one command, one step of the worker, or     *)
(* nothing, get the invariants of the pipeline from these lemmas.          *)

Command ==
  \/ UNCHANGED wmVars
  \/ /\ UNCHANGED distill
     /\ \E s \in Sessions :
          \/ \E a \in Agents : OpenSession(s, a)
          \/ s \in issued /\ MarkClosed(s)
          \/ \E t \in Turns : PushTurn(s, t)
          \/ ExpireSession(s)
  \/ /\ UNCHANGED store
     /\ \E s \in issued : ~ IsOpen(s) /\ PushJob(s)
  \/ UNCHANGED store /\ (WorkerStep \/ WorkerFault)

(* Commands keep the types.                                                *)
LEMMA CommandTyped ==
  ASSUME WMTypeOK, Command
  PROVE  WMTypeOK'
<1>1. CASE UNCHANGED wmVars
  BY <1>1 DEF wmVars, WMTypeOK
<1>2. ASSUME UNCHANGED distill, NEW s \in Sessions,
             \/ \E a \in Agents : OpenSession(s, a)
             \/ MarkClosed(s)
             \/ \E t \in Turns : PushTurn(s, t)
             \/ ExpireSession(s)
      PROVE  WMTypeOK'
  <2>1. ASSUME NEW a \in Agents, OpenSession(s, a)
        PROVE  WMTypeOK'
    BY <1>2, <2>1 DEF OpenSession, WMTypeOK, MetaState, distill
  <2>2. CASE MarkClosed(s)
    BY <1>2, <2>2 DEF MarkClosed, WMTypeOK, MetaState, distill
  <2>3. ASSUME NEW t \in Turns, PushTurn(s, t)
        PROVE  WMTypeOK'
    BY <1>2, <2>3 DEF PushTurn, WMTypeOK, MetaState, distill
  <2>4. CASE ExpireSession(s)
    BY <1>2, <2>4 DEF ExpireSession, WMTypeOK, MetaState, distill
  <2>5. QED BY <1>2, <2>1, <2>2, <2>3, <2>4
<1>3. ASSUME UNCHANGED store, NEW s \in issued, PushJob(s)
      PROVE  WMTypeOK'
  BY <1>3, PushTyped DEF WMTypeOK
<1>4. CASE UNCHANGED store /\ (WorkerStep \/ WorkerFault)
  BY <1>4, WorkerTyped
<1>5. QED BY <1>1, <1>2, <1>3, <1>4 DEF Command

(* An id once issued stays issued and keeps its agent, and its session     *)
(* never opens again.                                                      *)
LEMMA CommandKeeps ==
  ASSUME WMTypeOK, Command
  PROVE  /\ issued \subseteq issued'
         /\ \A s \in issued : meta[s] # "open" => meta'[s] # "open"
         /\ \A s \in issued : agentOf'[s] = agentOf[s]
<1>1. /\ issued \subseteq Sessions /\ meta \in [Sessions -> MetaState]
      /\ agentOf \in [Sessions -> Agents \cup {None}]
  BY DEF WMTypeOK
<1>2. CASE UNCHANGED <<issued, meta, agentOf>>
  BY <1>2
<1>3. ASSUME NEW s \in Sessions,
             \/ \E a \in Agents : OpenSession(s, a)
             \/ MarkClosed(s)
             \/ \E t \in Turns : PushTurn(s, t)
             \/ ExpireSession(s)
      PROVE  /\ issued \subseteq issued'
             /\ \A r \in issued : meta[r] # "open" => meta'[r] # "open"
             /\ \A r \in issued : agentOf'[r] = agentOf[r]
  <2>1. ASSUME NEW a \in Agents, OpenSession(s, a)
        PROVE  /\ issued \subseteq issued'
               /\ \A r \in issued : meta'[r] = meta[r]
               /\ \A r \in issued : agentOf'[r] = agentOf[r]
    BY <1>1, <2>1 DEF OpenSession
  <2>2. CASE MarkClosed(s)
    BY <1>1, <2>2 DEF MarkClosed
  <2>3. ASSUME NEW t \in Turns, PushTurn(s, t)
        PROVE  /\ UNCHANGED <<issued, agentOf>>
               /\ \A r \in issued : meta[r] # "open" => meta'[r] # "open"
    BY <1>1, <2>3 DEF PushTurn
  <2>4. CASE ExpireSession(s)
    BY <1>1, <2>4 DEF ExpireSession
  <2>5. QED BY <1>3, <2>1, <2>2, <2>3, <2>4
<1>4. QED BY <1>2, <1>3 DEF Command, wmVars, store

(* The sessions with jobs are changed by the close of a session and by the *)
(* worker only.                                                            *)
LEMMA CommandSids ==
  ASSUME WMTypeOK, Command
  PROVE  \/ JobSids' \subseteq JobSids
         \/ \E s \in issued : ~ IsOpen(s) /\ JobSids' = JobSids \cup {s}
<1>1. CASE UNCHANGED distill
  BY <1>1, DistillUnchanged
<1>2. ASSUME NEW s \in issued, ~ IsOpen(s), PushJob(s)
      PROVE  JobSids' = JobSids \cup {s}
  BY <1>2, PushSids DEF WMTypeOK
<1>3. CASE WorkerStep \/ WorkerFault
  BY <1>3, WorkerSids
<1>4. QED BY <1>1, <1>2, <1>3 DEF Command, wmVars, distill

LEMMA CommandJobs ==
  ASSUME WMTypeOK, JobOnlyForClosed, Command
  PROVE  JobOnlyForClosed'
BY CommandKeeps, CommandSids DEF JobOnlyForClosed, IsOpen

(* Every command is a step of the contract or hidden from it.              *)
LEMMA CommandRefines ==
  ASSUME WMTypeOK, JobOnlyForClosed, Command
  PROVE  Contract!Next \/ UNCHANGED <<Phase, Due>>
<1>1. CASE UNCHANGED wmVars
  <2>1. UNCHANGED distill /\ UNCHANGED <<issued, meta>>
    BY <1>1 DEF wmVars, distill
  <2>2. QED BY <2>1, DistillUnchanged, PhaseFrame
<1>2. ASSUME UNCHANGED distill, NEW s \in Sessions,
             \/ \E a \in Agents : OpenSession(s, a)
             \/ s \in issued /\ MarkClosed(s)
             \/ \E t \in Turns : PushTurn(s, t)
             \/ ExpireSession(s)
      PROVE  Contract!Next \/ UNCHANGED <<Phase, Due>>
  <2>1. UNCHANGED Due
    BY <1>2, DistillUnchanged
  <2>2. \/ \E a \in Agents : Contract!Open(s)
        \/ Contract!Close(s) \/ Contract!Expire(s) \/ UNCHANGED Phase
    BY <1>2, <2>1, PhaseMoves
  <2>3. QED BY <2>1, <2>2 DEF Contract!Next
<1>3. ASSUME UNCHANGED store, NEW s \in issued, ~ IsOpen(s), PushJob(s)
      PROVE  Contract!Next
  <2>1. s \in Sessions /\ Phase[s] \in {"closed", "gone"}
    BY <1>3 DEF Phase, WMTypeOK, IsOpen
  <2>2. Due' = Due \cup {s} /\ UNCHANGED Phase
    BY <1>3, <2>1, PushSids, PhaseFrame DEF store
  <2>3. QED BY <2>1, <2>2 DEF Contract!Next, Contract!Enqueue
<1>4. CASE UNCHANGED store /\ (WorkerStep \/ WorkerFault)
  <2>1. UNCHANGED Phase
    BY <1>4, PhaseFrame DEF store
  <2>2. UNCHANGED Due \/ \E s \in Due : Due' = Due \ {s}
    BY <1>4, WorkerSids
  <2>3. Due \subseteq Sessions
    BY DEF JobOnlyForClosed, JobSids, Due, WMTypeOK
  <2>4. QED BY <2>1, <2>2, <2>3 DEF Contract!Next, Contract!Settle
<1>5. QED BY <1>1, <1>2, <1>3, <1>4 DEF Command
=============================================================================
