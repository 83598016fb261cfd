--------------------------- MODULE WorkingMemory ---------------------------
(***************************************************************************)
(* The Redis state of the working-memory pillar (memory/working.py) and    *)
(* the distillation worker that drains its queue (distill/worker.py).      *)
(*                                                                         *)
(* Every operator of the first half is one Redis round trip: a command or  *)
(* a MULTI pipeline, the grain at which concurrent request handlers        *)
(* interleave.  AutoCapture composes these commands into the handlers of   *)
(* the program; the worker is complete here.                               *)
(*                                                                         *)
(* One org is modelled: every key carries the org id as a prefix and no    *)
(* command touches two orgs.                                               *)
(***************************************************************************)
EXTENDS Naturals, Sequences, FiniteSets

CONSTANTS Agents,              \* agents of the org
          Sessions,            \* pool the fresh session ids are drawn from
          Turns,               \* turns that may ever be appended
          None,                \* the absent agent, session or turn
          MaxDistillAttempts,  \* MAX_DISTILL_ATTEMPTS
          DeadLetterMaxLen,    \* DEAD_LETTER_MAX_LEN
          Signatures,          \* signature outcomes a producer may cause
          Faults,              \* the faults of the environment that may happen
          PushBound            \* model bound: jobs ever pushed

ASSUME NoneAssumption == None \notin Agents \cup Sessions \cup Turns
ASSUME TurnsAssumption == IsFiniteSet(Turns)
ASSUME MaxDistillAttemptsAssumption == MaxDistillAttempts \in Nat \ {0}
ASSUME DeadLetterMaxLenAssumption == DeadLetterMaxLen \in Nat \ {0}
ASSUME SignaturesAssumption == Signatures \subseteq {"good", "bad"}
ASSUME FaultsAssumption ==
  Faults \subseteq {"expiry", "client crash", "worker crash", "redis error"}

VARIABLES issued,   \* session ids ever returned by open_session
          meta,     \* the session hash of each id
          agentOf,  \* its "agent" field
          turns,    \* the turns list of each id
          queue,    \* working:distill:queue
          dead,     \* working:distill:dead
          worker,   \* the distill worker: control state, job and transcript
          brain,    \* turns whose content reached durable memory
          count     \* history: jobs pushed, settled, lost and trimmed

store == <<issued, meta, agentOf, turns>>
distill == <<queue, dead, worker, brain, count>>
wmVars == <<issued, meta, agentOf, turns, queue, dead, worker, brain, count>>

----------------------------------------------------------------------------
(* "absent": no hash, never opened or expired; "open": closed_at is empty;
   "closed": closed_at is set; "ghost": a hash that holds nothing but
   closed_at and has no TTL; "fading": a ghost that was given a TTL.       *)
MetaState == {"absent", "open", "closed", "ghost", "fading"}

Job == [sid: Sessions, attempts: Nat, sig: {"good", "bad"}]
Idle == [pc |-> "idle", job |-> <<>>, transcript |-> {}]
Down == [pc |-> "down", job |-> <<>>, transcript |-> {}]
Busy == [pc: {"popped", "rejected", "read"}, job: Job, transcript: SUBSET Turns]
Tally == [pushed: Nat, settled: Nat, lost: Nat, trimmed: Nat]

WMTypeOK ==
  /\ issued \subseteq Sessions
  /\ meta \in [Sessions -> MetaState]
  /\ agentOf \in [Sessions -> Agents \cup {None}]
  /\ turns \in [Sessions -> SUBSET Turns]
  /\ queue \in Seq(Job)
  /\ dead \in Seq(Job)
  /\ worker \in Busy \cup {Idle, Down}
  /\ brain \subseteq Turns
  /\ count \in Tally

WMInit ==
  /\ issued = {}
  /\ meta = [s \in Sessions |-> "absent"]
  /\ agentOf = [s \in Sessions |-> None]
  /\ turns = [s \in Sessions |-> {}]
  /\ queue = <<>>
  /\ dead = <<>>
  /\ worker = Idle
  /\ brain = {}
  /\ count = [pushed |-> 0, settled |-> 0, lost |-> 0, trimmed |-> 0]

----------------------------------------------------------------------------
(* Redis commands of the request handlers.                                 *)

(* Mutant: the id is derived from the agent instead of drawn at random.    *)
BugReusedId(s, a) ==
  /\ issued' = issued \cup {s}
  /\ meta' = [meta EXCEPT ![s] = "open"]
  /\ agentOf' = [agentOf EXCEPT ![s] = a]
  /\ UNCHANGED turns

(* open_session: one pipeline writes the hash under a fresh random id.     *)
OpenSession(s, a) ==
  /\ s \in Sessions \ issued
  /\ issued' = issued \cup {s}
  /\ meta' = [meta EXCEPT ![s] = "open"]
  /\ agentOf' = [agentOf EXCEPT ![s] = a]
  /\ UNCHANGED turns

(* _require_open: the hash exists and closed_at is empty.                  *)
IsOpen(s) == meta[s] = "open"

(* get_metadata succeeds on any hash that exists, closed ones included.    *)
HasMetadata(s) == meta[s] # "absent"

(* append_turn, second round trip: RPUSH and EXPIRE.  RPUSH creates the    *)
(* list when it is missing and looks at no other key; EXPIRE gives a TTL   *)
(* to the hash, a ghost included.                                          *)
PushTurn(s, t) ==
  /\ turns' = [turns EXCEPT ![s] = @ \cup {t}]
  /\ meta' = [meta EXCEPT ![s] = IF @ = "ghost" THEN "fading" ELSE @]
  /\ UNCHANGED <<issued, agentOf>>

(* close_session, HSET closed_at: on a key that has just expired HSET      *)
(* creates a new hash, and nothing sets a TTL on it.                       *)
MarkClosed(s) ==
  /\ meta' = [meta EXCEPT ![s] = IF @ = "open" THEN "closed"
                                   ELSE IF @ = "absent" THEN "ghost" ELSE @]
  /\ UNCHANGED <<issued, agentOf, turns>>

(* close_session, RPUSH of the signed job.                                 *)
PushJob(s) ==
  /\ count.pushed < PushBound
  /\ \E sig \in Signatures :
       queue' = Append(queue, [sid |-> s, attempts |-> 0, sig |-> sig])
  /\ count' = [count EXCEPT !.pushed = @ + 1]
  /\ UNCHANGED <<dead, worker, brain>>

(* The idle TTL: the hash and the list are given the same TTL in the same  *)
(* pipeline, so they expire together.  A ghost hash has no TTL.            *)
ExpireSession(s) ==
  /\ "expiry" \in Faults
  /\ meta[s] \in {"open", "closed", "fading"} \/ turns[s] # {}
  /\ meta' = [meta EXCEPT ![s] = IF @ = "ghost" THEN "ghost" ELSE "absent"]
  /\ turns' = [turns EXCEPT ![s] = {}]
  /\ UNCHANGED <<issued, agentOf>>

----------------------------------------------------------------------------
(* The distill worker.                                                     *)

(* _push_dead_letter: RPUSH and LTRIM keep the newest entries.             *)
DeadLetter(job) ==
  LET grown == Append(dead, job)
  IN  IF Len(grown) > DeadLetterMaxLen THEN Tail(grown) ELSE grown

Trimmed == IF Len(dead) >= DeadLetterMaxLen THEN 1 ELSE 0

(* BLPOP removes the job; from here on only the worker's memory holds it.  *)
Pop ==
  /\ worker = Idle
  /\ queue # <<>>
  /\ queue' = Tail(queue)
  /\ worker' = [pc |-> IF Head(queue).sig = "good" THEN "popped" ELSE "rejected",
                job |-> Head(queue), transcript |-> {}]
  /\ UNCHANGED <<dead, brain, count>>

(* A job whose signature does not verify: dead letter, no retry.           *)
RejectJob ==
  /\ worker.pc = "rejected"
  /\ dead' = DeadLetter(worker.job)
  /\ count' = [count EXCEPT !.trimmed = @ + Trimmed]
  /\ worker' = Idle
  /\ UNCHANGED <<queue, brain>>

(* _handle, first await: the transcript is read; an empty one is skipped.  *)
ReadTranscript ==
  /\ worker.pc = "popped"
  /\ LET transcript == turns[worker.job.sid]
     IN  IF transcript = {}
         THEN /\ worker' = Idle
              /\ count' = [count EXCEPT !.settled = @ + 1]
         ELSE /\ worker' = [worker EXCEPT !.pc = "read",
                                          !.transcript = transcript]
              /\ UNCHANGED count
  /\ UNCHANGED <<queue, dead, brain>>

(* _handle, the rest: summarize and ingest everything.                     *)
Distill ==
  /\ worker.pc = "read"
  /\ brain' = brain \cup worker.transcript
  /\ worker' = Idle
  /\ count' = [count EXCEPT !.settled = @ + 1]
  /\ UNCHANGED <<queue, dead>>

(* Mutant: no return after the dead letter, the job is also requeued.      *)
BugNoReturn(job) ==
  LET again == [job EXCEPT !.attempts = @ + 1]
  IN  /\ queue' = Append(queue, again)
      /\ IF again.attempts >= MaxDistillAttempts
         THEN /\ dead' = DeadLetter(again)
              /\ count' = [count EXCEPT !.trimmed = @ + Trimmed]
         ELSE UNCHANGED <<dead, count>>

(* Mutant: the attempt is not written back to the job.                     *)
BugUncounted(job) == queue' = Append(queue, job) /\ UNCHANGED <<dead, count>>

(* requeue_distill_job: one more attempt, or the dead-letter list.         *)
Requeue(job) ==
  LET again == [job EXCEPT !.attempts = @ + 1]
  IN  IF again.attempts >= MaxDistillAttempts
      THEN /\ dead' = DeadLetter(again)
           /\ count' = [count EXCEPT !.trimmed = @ + Trimmed]
           /\ UNCHANGED queue
      ELSE /\ queue' = Append(queue, again)
           /\ UNCHANGED <<dead, count>>

(* The summarizer or an ingestion fails, after any part of the transcript  *)
(* has been ingested.                                                      *)
FailJob ==
  /\ worker.pc \in {"popped", "read"}
  /\ \E done \in SUBSET worker.transcript : brain' = brain \cup done
  /\ Requeue(worker.job)
  /\ worker' = Idle

(* The process ends while it holds a job: a crash, or SIGTERM, whose       *)
(* handler closes the Redis client under the running job so that even the  *)
(* requeue raises.  The process is then started again.  A Redis error      *)
(* while a rejected job is dead-lettered has the same effect: the loop     *)
(* catches it as a failed pop.                                             *)
CrashWorker ==
  /\ "worker crash" \in Faults
  /\ worker.pc \in {"popped", "rejected", "read"}
  /\ \E done \in SUBSET worker.transcript : brain' = brain \cup done
  /\ worker' = Idle
  /\ count' = [count EXCEPT !.lost = @ + 1]
  /\ UNCHANGED <<queue, dead>>

(* Redis fails while the failed job is being requeued: the exception       *)
(* leaves the loop of start(), and _main waits for a signal, not for it.   *)
LoseLoop ==
  /\ "redis error" \in Faults
  /\ worker.pc \in {"popped", "read"}
  /\ \E done \in SUBSET worker.transcript : brain' = brain \cup done
  /\ worker' = Down
  /\ count' = [count EXCEPT !.lost = @ + 1]
  /\ UNCHANGED <<queue, dead>>

(* An operator restarts the process.                                       *)
RestartWorker ==
  /\ worker = Down
  /\ worker' = Idle
  /\ UNCHANGED <<queue, dead, brain, count>>

WorkerStep == Pop \/ RejectJob \/ ReadTranscript \/ Distill \/ FailJob
WorkerFault == CrashWorker \/ LoseLoop \/ RestartWorker

----------------------------------------------------------------------------
(* Sessions with a distillation job somewhere in the pipeline.             *)
JobsInHand == IF worker.pc \in {"popped", "rejected", "read"} THEN {worker.job} ELSE {}
QueuedJobs == {queue[i] : i \in DOMAIN queue}
DeadJobs == {dead[i] : i \in DOMAIN dead}
Due == {job.sid : job \in QueuedJobs \cup JobsInHand}

JobSids == {job.sid : job \in QueuedJobs \cup JobsInHand \cup DeadJobs}

(* A session is only handed to the distiller after it was closed: no job,  *)
(* waiting, held by the worker or dead-lettered, names a session that can  *)
(* still take turns (close_session sets closed_at before it pushes).       *)
JobOnlyForClosed ==
  \A s \in JobSids : s \in issued /\ ~ IsOpen(s)

(* Every job ever pushed is waiting, held, settled, dead-lettered, or was  *)
(* lost with the process that held it; retries neither drop nor multiply   *)
(* a job (pop, requeue and dead-letter take turns at owning it).           *)
JobsConserved ==
  count.pushed = Len(queue) + Cardinality(JobsInHand) + Len(dead)
                 + count.settled + count.lost + count.trimmed

(* Sessions obey the contract of the pillar.                               *)
Phase ==
  [s \in Sessions |->
    IF s \notin issued THEN "new"
    ELSE IF meta[s] \in {"open", "closed"} THEN meta[s] ELSE "gone"]

Contract == INSTANCE SessionContract WITH phase <- Phase, due <- Due

ContractSpec == Contract!Spec
=============================================================================
