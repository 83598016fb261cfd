---------------------------- MODULE CurateQueue ----------------------------
(***************************************************************************)
(* The curation pipeline: the distill workers count the facts they ingest  *)
(* per subject and queue a subject once it has enough of them              *)
(* (mark_subject_dirty, enqueue_curate of memory/working.py, called by     *)
(* distill/worker.py); the curator (distill/curator_worker.py) pops the    *)
(* subject, asks the LLM for an article and stores it as the next version  *)
(* of the subject's wiki page (memory/wiki.py).                            *)
(*                                                                         *)
(* An action is one Redis command or one SQL statement of a worker, the    *)
(* grain at which the processes interleave.  The facts that one distill    *)
(* job brings about one subject are a batch: the job counts them as one.   *)
(***************************************************************************)
EXTENDS Naturals, Sequences, FiniteSets

CONSTANTS Distillers,         \* distill worker processes
          Curators,           \* curator worker processes
          Subjects,
          Batches,
          None,               \* no batch
          Subject,            \* the subject of each batch
          Threshold,          \* TEAMSHARED_CURATE_THRESHOLD
          MaxCurateAttempts,  \* MAX_CURATE_ATTEMPTS
          Signatures,         \* signature outcomes a producer may cause
          Faults              \* the faults of the environment that may happen

ASSUME BatchesAssumption == IsFiniteSet(Batches) /\ None \notin Batches
ASSUME SubjectAssumption == Subject \in [Batches -> Subjects]
ASSUME ThresholdAssumption == Threshold \in Nat \ {0}
ASSUME MaxCurateAttemptsAssumption == MaxCurateAttempts \in Nat \ {0}
ASSUME SignaturesAssumption == Signatures \subseteq {"good", "bad"}
ASSUME FaultsAssumption == Faults \subseteq {"llm", "expiry", "redis error", "crash"}

VARIABLES facts,      \* batches in the vector store
          counted,    \* per subject, the batches in its counter (INCR)
          pending,    \* working:curate:pending
          queue,      \* working:curate:queue
          dead,       \* working:curate:dead
          page,       \* per subject, the batches behind each page version
          curated,    \* history: batches some finished curation has read
          harmed,     \* history: subjects a fault of Redis or a process has hit
          distiller,  \* control state and locals of each distill worker
          curator     \* control state and locals of each curator

vars == <<facts, counted, pending, queue, dead, page, curated, harmed, distiller,
          curator>>
redis == <<counted, pending, queue, dead>>
database == <<facts, page, curated, harmed>>

----------------------------------------------------------------------------
Job == [subject: Subjects, attempts: Nat, sig: {"good", "bad"}]

(* batch is the one being marked, todo the rest of the distill job.        *)
Marking == [pc: {"delete", "sadd", "rpush"}, batch: Batches, todo: SUBSET Batches]
NextMark == [pc: {"incr"}, batch: {None}, todo: (SUBSET Batches) \ {{}}]
Resting == [pc |-> "idle", batch |-> None, todo |-> {}]

Waiting == [pc |-> "idle", job |-> <<>>, seen |-> {}, n |-> 0]
Curating == [pc: {"clear", "reject", "reject clear", "read", "ask", "insert"},
             job: Job, seen: SUBSET Batches, n: Nat]

CurateTypeOK ==
  /\ facts \subseteq Batches
  /\ counted \in [Subjects -> SUBSET Batches]
  /\ pending \subseteq Subjects
  /\ queue \in Seq(Job)
  /\ dead \in Seq(Job)
  /\ page \in [Subjects -> Seq(SUBSET Batches)]
  /\ curated \subseteq Batches
  /\ harmed \subseteq Subjects
  /\ distiller \in [Distillers -> Marking \cup NextMark \cup {Resting}]
  /\ curator \in [Curators -> Curating \cup {Waiting}]

Init ==
  /\ facts = {}
  /\ counted = [s \in Subjects |-> {}]
  /\ pending = {}
  /\ queue = <<>>
  /\ dead = <<>>
  /\ page = [s \in Subjects |-> <<>>]
  /\ curated = {}
  /\ harmed = {}
  /\ distiller = [d \in Distillers |-> Resting]
  /\ curator = [c \in Curators |-> Waiting]

About(s) == {b \in Batches : Subject[b] = s}

----------------------------------------------------------------------------
(* The distill worker, once it has ingested the facts of a job.            *)

Ingest(d) ==
  /\ distiller[d].pc = "idle"
  /\ \E B \in (SUBSET (Batches \ facts)) \ {{}} :
       /\ \A a, b \in B : Subject[a] = Subject[b] => a = b
       /\ facts' = facts \cup B
       /\ distiller' = [distiller EXCEPT ![d] =
                          [pc |-> "incr", batch |-> None, todo |-> B]]
  /\ UNCHANGED <<redis, page, curated, harmed, curator>>

(* The next subject of the distill job, if there is one.                   *)
Turn(d, left) ==
  distiller' = [distiller EXCEPT ![d] =
                  IF left = {} THEN Resting
                  ELSE [pc |-> "incr", batch |-> None, todo |-> left]]

(* INCR, with the EXPIRE that follows it: below the threshold that is all. *)
Count(d) ==
  /\ distiller[d].pc = "incr"
  /\ \E b \in distiller[d].todo :
       LET s == Subject[b]
           left == distiller[d].todo \ {b}
       IN  /\ counted' = [counted EXCEPT ![s] = @ \cup {b}]
           /\ IF Cardinality(counted'[s]) < Threshold
              THEN Turn(d, left)
              ELSE distiller' = [distiller EXCEPT ![d] =
                                   [pc |-> "delete", batch |-> b, todo |-> left]]
  /\ UNCHANGED <<pending, queue, dead, database, curator>>

(* DELETE of the counter, whatever was counted since.                      *)
Reset(d) ==
  /\ distiller[d].pc = "delete"
  /\ counted' = [counted EXCEPT ![Subject[distiller[d].batch]] = {}]
  /\ distiller' = [distiller EXCEPT ![d].pc = "sadd"]
  /\ UNCHANGED <<pending, queue, dead, database, curator>>

(* enqueue_curate, SADD: a pending subject is not queued again.            *)
SetPending(d) ==
  LET s == Subject[distiller[d].batch]
  IN  /\ distiller[d].pc = "sadd"
      /\ pending' = pending \cup {s}
      /\ IF s \in pending
         THEN Turn(d, distiller[d].todo)
         ELSE distiller' = [distiller EXCEPT ![d].pc = "rpush"]
      /\ UNCHANGED <<counted, queue, dead, database, curator>>

(* enqueue_curate, RPUSH.                                                  *)
Push(d) ==
  /\ distiller[d].pc = "rpush"
  /\ \E sig \in Signatures :
       queue' = Append(queue, [subject |-> Subject[distiller[d].batch],
                               attempts |-> 0, sig |-> sig])
  /\ Turn(d, distiller[d].todo)
  /\ UNCHANGED <<counted, pending, dead, database, curator>>

(* The batches the distill job has not finished marking.                   *)
Unmarked(d) == (distiller[d].todo \cup {distiller[d].batch}) \ {None}

(* A Redis error while one subject is marked is logged, and the next       *)
(* subject is marked.                                                      *)
MarkFails(d) ==
  /\ "redis error" \in Faults
  /\ \E b \in Unmarked(d) :
       /\ distiller[d].pc = "incr" \/ b = distiller[d].batch
       /\ harmed' = harmed \cup {Subject[b]}
       /\ Turn(d, distiller[d].todo \ {b})
  /\ UNCHANGED <<redis, facts, page, curated, curator>>

DistillerCrash(d) ==
  /\ "crash" \in Faults
  /\ distiller[d].pc # "idle"
  /\ harmed' = harmed \cup {Subject[b] : b \in Unmarked(d)}
  /\ distiller' = [distiller EXCEPT ![d] = Resting]
  /\ UNCHANGED <<redis, facts, page, curated, curator>>

(* The counter has the TTL of a session.                                   *)
ExpireCount(s) ==
  /\ "expiry" \in Faults
  /\ counted[s] # {}
  /\ counted' = [counted EXCEPT ![s] = {}]
  /\ harmed' = harmed \cup {s}
  /\ UNCHANGED <<pending, queue, dead, facts, page, curated, distiller, curator>>

----------------------------------------------------------------------------
(* The curator.                                                            *)

(* pop_curate_job, BLPOP.                                                  *)
Pop(c) ==
  /\ curator[c].pc = "idle"
  /\ queue # <<>>
  /\ queue' = Tail(queue)
  /\ curator' = [curator EXCEPT ![c].pc = IF Head(queue).sig = "good" THEN "clear"
                                                                      ELSE "reject",
                                ![c].job = Head(queue)]
  /\ UNCHANGED <<counted, pending, dead, database, distiller>>

(* A job whose signature does not verify: dead letter ...                  *)
Reject(c) ==
  /\ curator[c].pc = "reject"
  /\ dead' = Append(dead, curator[c].job)
  /\ curator' = [curator EXCEPT ![c].pc = "reject clear"]
  /\ UNCHANGED <<counted, pending, queue, database, distiller>>

(* Mutant: the subject of a rejected job stays pending.                    *)
BugNoCleanup(c) ==
  /\ curator[c].pc = "reject clear"
  /\ curator' = [curator EXCEPT ![c] = Waiting]
  /\ UNCHANGED <<redis, database, distiller>>

(* ... and SREM of the subject it claims to be about.                      *)
RejectClear(c) ==
  /\ curator[c].pc = "reject clear"
  /\ pending' = pending \ {curator[c].job.subject}
  /\ curator' = [curator EXCEPT ![c] = Waiting]
  /\ UNCHANGED <<counted, queue, dead, database, distiller>>

(* pop_curate_job, SREM: from here on the subject may be queued again.     *)
Clear(c) ==
  /\ curator[c].pc = "clear"
  /\ pending' = pending \ {curator[c].job.subject}
  /\ curator' = [curator EXCEPT ![c].pc = "read"]
  /\ UNCHANGED <<counted, queue, dead, database, distiller>>

(* _handle: the facts of the subject are read.  A batch is in the store    *)
(* before it is counted, so there are some.                                *)
Read(c) ==
  LET about == facts \cap About(curator[c].job.subject)
  IN  /\ curator[c].pc = "read"
      /\ curator' = [curator EXCEPT ![c] =
                       IF about = {} THEN Waiting
                       ELSE [@ EXCEPT !.pc = "ask", !.seen = about]]
      /\ UNCHANGED <<redis, database, distiller>>

(* The LLM has answered: upsert_page reads the highest version.            *)
Number(c) ==
  /\ curator[c].pc = "ask"
  /\ curator' = [curator EXCEPT ![c].pc = "insert",
                   ![c].n = Len(page[curator[c].job.subject]) + 1]
  /\ UNCHANGED <<redis, database, distiller>>

(* An answer without a body ends the job: no page, no retry.               *)
EmptyAnswer(c) ==
  /\ "llm" \in Faults
  /\ curator[c].pc = "ask"
  /\ curated' = curated \cup curator[c].seen
  /\ curator' = [curator EXCEPT ![c] = Waiting]
  /\ UNCHANGED <<redis, facts, page, harmed, distiller>>

(* Mutant: a job that failed for good is dropped.                          *)
BugDrop(job) ==
  LET again == [job EXCEPT !.attempts = @ + 1]
  IN  /\ queue' = IF again.attempts >= MaxCurateAttempts THEN queue
                  ELSE Append(queue, again)
      /\ UNCHANGED dead

(* Mutant: the attempt is not written back to the job.                     *)
BugUncounted(job) == queue' = Append(queue, job) /\ UNCHANGED dead

(* requeue_curate_job: the pending set is not asked.                       *)
Requeue(job) ==
  LET again == [job EXCEPT !.attempts = @ + 1]
  IN  IF again.attempts >= MaxCurateAttempts
      THEN dead' = Append(dead, again) /\ UNCHANGED queue
      ELSE queue' = Append(queue, again) /\ UNCHANGED dead

(* upsert_page, INSERT and COMMIT: a version number that was taken         *)
(* meanwhile violates UNIQUE (org_id, slug, version), and the job fails.   *)
Insert(c) ==
  LET s == curator[c].job.subject
  IN  /\ curator[c].pc = "insert"
      /\ \/ /\ curator[c].n = Len(page[s]) + 1
            /\ page' = [page EXCEPT ![s] = Append(@, curator[c].seen)]
            /\ curated' = curated \cup curator[c].seen
            /\ UNCHANGED <<queue, dead>>
         \/ /\ curator[c].n # Len(page[s]) + 1
            /\ Requeue(curator[c].job)
            /\ UNCHANGED <<page, curated>>
      /\ curator' = [curator EXCEPT ![c] = Waiting]
      /\ UNCHANGED <<counted, pending, facts, harmed, distiller>>

(* The database or the LLM fails.                                          *)
FailJob(c) ==
  /\ "llm" \in Faults
  /\ curator[c].pc \in {"read", "ask", "insert"}
  /\ Requeue(curator[c].job)
  /\ curator' = [curator EXCEPT ![c] = Waiting]
  /\ UNCHANGED <<counted, pending, database, distiller>>

(* The process ends, or Redis fails while a popped job is cleared, rejected *)
(* or requeued: the job is gone.                                           *)
CuratorCrash(c) ==
  /\ \/ "crash" \in Faults
     \/ "redis error" \in Faults /\ curator[c].pc \in {"clear", "reject", "reject clear"}
  /\ curator[c].pc # "idle"
  /\ harmed' = harmed \cup {curator[c].job.subject}
  /\ curator' = [curator EXCEPT ![c] = Waiting]
  /\ UNCHANGED <<redis, facts, page, curated, distiller>>

----------------------------------------------------------------------------
DistillerStep(d) == Count(d) \/ Reset(d) \/ SetPending(d) \/ Push(d)

CuratorStep(c) ==
  Pop(c) \/ Reject(c) \/ RejectClear(c) \/ Clear(c) \/ Read(c) \/ Number(c)
    \/ EmptyAnswer(c) \/ Insert(c) \/ FailJob(c)

Next ==
  \/ \E d \in Distillers : Ingest(d) \/ DistillerStep(d) \/ MarkFails(d)
                             \/ DistillerCrash(d)
  \/ \E c \in Curators : CuratorStep(c) \/ CuratorCrash(c)
  \/ \E s \in Subjects : ExpireCount(s)

Spec == Init /\ [][Next]_vars

(* Both workers are loops that wait only for Redis, Postgres and the LLM,  *)
(* all of which answer or time out.                                        *)
Fairness ==
  /\ \A d \in Distillers : WF_vars(DistillerStep(d))
  /\ \A c \in Curators : WF_vars(CuratorStep(c))

FairSpec == Spec /\ Fairness

----------------------------------------------------------------------------
(* Properties.                                                             *)

Queued(s) == \E i \in DOMAIN queue : queue[i].subject = s
Dead(s) == \E i \in DOMAIN dead : dead[i].subject = s
Enqueuing(s, pcs) ==
  \E d \in Distillers : distiller[d].pc \in pcs /\ Subject[distiller[d].batch] = s
Holding(s, pcs) ==
  \E c \in Curators : curator[c].pc \in pcs /\ curator[c].job.subject = s

(* A pending subject has a job: one in the queue, one about to be pushed,  *)
(* or one just popped whose flag is about to be cleared.                   *)
HasJob(s) ==
  Queued(s) \/ Enqueuing(s, {"rpush"}) \/ Holding(s, {"clear", "reject", "reject clear"})

(* No interleaving of workers leaves a flag without a job, as long as no   *)
(* fault hits the subject.                                                 *)
PendingHasJob == \A s \in pending \ harmed : HasJob(s)

(* A curation that will read every fact there is now: its job is queued,   *)
(* or held before its read, or a distill worker is about to queue it.      *)
Upcoming(s) ==
  \/ Queued(s)
  \/ Enqueuing(s, {"delete", "sadd", "rpush"})
  \/ Holding(s, {"clear", "reject", "read"})

(* No fact is forgotten between the counter, the flag, the queue and the   *)
(* curator: it was read by a curation, or is being worked on, or is in the *)
(* counter, or about to be; unless a job of its subject was dead-lettered, *)
(* or a fault hit the subject.                                             *)
FactsAccounted ==
  \A b \in facts :
    \/ b \in curated
    \/ b \in counted[Subject[b]]
    \/ \E d \in Distillers : b \in distiller[d].todo
    \/ \E c \in Curators : curator[c].pc \in {"ask", "insert"} /\ b \in curator[c].seen
    \/ Upcoming(Subject[b])
    \/ Dead(Subject[b])
    \/ Subject[b] \in harmed

(* With nothing under way, fewer than Threshold batches of a subject are   *)
(* unread by any curation that finished (debounce of mark_subject_dirty).  *)
Quiet ==
  /\ queue = <<>>
  /\ \A d \in Distillers : distiller[d].pc = "idle"
  /\ \A c \in Curators : curator[c].pc = "idle"
QuietIsCurated ==
  Quiet => \A s \in Subjects :
    \/ Dead(s) \/ s \in harmed
    \/ Cardinality((facts \cap About(s)) \ curated) < Threshold

(* A fact whose subject has a curation coming is curated, or the job is    *)
(* dead-lettered for an operator to see, or a fault hits the subject.      *)
CurationSettles ==
  \A b \in Batches :
    b \in facts /\ Upcoming(Subject[b])
      ~> b \in curated \/ Dead(Subject[b]) \/ Subject[b] \in harmed
=============================================================================
