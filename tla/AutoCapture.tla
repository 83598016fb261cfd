---------------------------- MODULE AutoCapture ----------------------------
(***************************************************************************)
(* Implicit capture: WorkingMemory.record_turn (memory/working.py), called *)
(* once per MCP tool call by ToolCallCaptureMiddleware and once per posted *)
(* turn by ingest_turns (server/capture.py).                               *)
(*                                                                         *)
(* A client is one handler of the asyncio server, or of one of several     *)
(* server processes.  It runs record_turn as a chain of Redis round trips  *)
(* and other clients, the distill worker and the idle TTL step between any *)
(* two of them: record_turn takes no lock and no WATCH.                    *)
(***************************************************************************)
EXTENDS WorkingMemory

CONSTANTS Clients,   \* concurrent handlers
          MaxTurns,  \* TEAMSHARED_CAPTURE_MAX_TURNS
          Author     \* the agent of each turn

ASSUME MaxTurnsAssumption == MaxTurns \in Nat
ASSUME AuthorAssumption == Author \in [Turns -> Agents]

VARIABLES pointer,   \* working:{org}:agent:{agent}:autosession
          client,    \* control state and locals of each handler
          fate       \* history: what became of each turn

vars == <<wmVars, pointer, client, fate>>

----------------------------------------------------------------------------
NoPointer == [sid |-> None, n |-> 0]

PC == {"get", "close meta", "close mark", "close push", "open", "check",
       "push", "set"}
Naming == PC \ {"get", "open"}   \* where sid names a session

Resting == [pc |-> "idle", agent |-> None, turn |-> None, sid |-> None,
            n |-> 0, retried |-> FALSE]

(* sid is "existing" until the old session is closed, "session_id" after;  *)
(* n is turn_count.                                                        *)
Handling ==
  {h \in [pc: PC, agent: Agents, turn: Turns, sid: Sessions \cup {None},
          n: Nat, retried: BOOLEAN] : h.pc \in Naming => h.sid # None}

TypeOK ==
  /\ WMTypeOK
  /\ pointer \in [Agents -> [sid: Sessions \cup {None}, n: Nat]]
  /\ client \in [Clients -> Handling \cup {Resting}]
  /\ fate \in [Turns -> {"new", "begun", "listed", "accepted", "dropped"}]

Init ==
  /\ WMInit
  /\ pointer = [a \in Agents |-> NoPointer]
  /\ client = [c \in Clients |-> Resting]
  /\ fate = [t \in Turns |-> "new"]

----------------------------------------------------------------------------
(* record_turn, one action per round trip.                                 *)

Goto(c, pc) == client' = [client EXCEPT ![c].pc = pc]

(* A tool call has returned, or a turn was posted: record_turn is called.  *)
Begin(c, t) ==
  /\ client[c].pc = "idle"
  /\ fate[t] = "new"
  /\ client' = [client EXCEPT ![c] = [Resting EXCEPT !.pc = "get",
                                    !.agent = Author[t], !.turn = t]]
  /\ fate' = [fate EXCEPT ![t] = "begun"]
  /\ UNCHANGED <<wmVars, pointer>>

(* GET of the pointer.  With no pointer a session is opened; a fresh one   *)
(* is appended to; a full one, or one idle for long, is closed first.  Any *)
(* time may have passed, so a pointer may always be found idle.            *)
GetPointer(c) ==
  LET p == pointer[client[c].agent]
  IN  /\ client[c].pc = "get"
      /\ \/ /\ p.sid = None
            /\ Goto(c, "open")
         \/ /\ p.sid # None
            /\ p.n < MaxTurns
            /\ client' = [client EXCEPT ![c].pc = "check", ![c].sid = p.sid]
         \/ /\ p.sid # None
            /\ client' = [client EXCEPT ![c].pc = "close meta",
                                        ![c].sid = p.sid]
      /\ UNCHANGED <<wmVars, pointer, fate>>

(* Mutant: the old session is left as it is.                               *)
BugNoRollover(c) ==
  /\ client[c].pc = "close meta"
  /\ Goto(c, "open")
  /\ UNCHANGED <<wmVars, pointer, fate>>

(* close_session, the reads: an unknown session is a KeyError, suppressed  *)
(* by record_turn; one that is closed already is not told apart.           *)
CloseMeta(c) ==
  /\ client[c].pc = "close meta"
  /\ Goto(c, IF HasMetadata(client[c].sid) THEN "close mark" ELSE "open")
  /\ UNCHANGED <<wmVars, pointer, fate>>

CloseMark(c) ==
  /\ client[c].pc = "close mark"
  /\ MarkClosed(client[c].sid)
  /\ Goto(c, "close push")
  /\ UNCHANGED <<distill, pointer, fate>>

(* Mutant: record_turn closes with distill=False.                          *)
BugNoDistill(c) ==
  /\ client[c].pc = "close push"
  /\ Goto(c, "open")
  /\ UNCHANGED <<wmVars, pointer, fate>>

ClosePush(c) ==
  /\ client[c].pc = "close push"
  /\ PushJob(client[c].sid)
  /\ Goto(c, "open")
  /\ UNCHANGED <<store, pointer, fate>>

Open(c) ==
  /\ client[c].pc = "open"
  /\ \E s \in Sessions :
       /\ OpenSession(s, client[c].agent)
       /\ client' = [client EXCEPT ![c].pc = "check", ![c].sid = s]
  /\ UNCHANGED <<distill, pointer, fate>>

(* append_turn, first round trip.  A session that is gone or closed makes  *)
(* record_turn open another and try again, once: the second failure is     *)
(* raised and the turn is dropped.                                         *)
AppendCheck(c) ==
  /\ client[c].pc = "check"
  /\ \/ /\ IsOpen(client[c].sid)
        /\ Goto(c, "push")
        /\ UNCHANGED fate
     \/ /\ ~ IsOpen(client[c].sid)
        /\ ~ client[c].retried
        /\ client' = [client EXCEPT ![c].pc = "open", ![c].retried = TRUE]
        /\ UNCHANGED fate
     \/ /\ ~ IsOpen(client[c].sid)
        /\ client[c].retried
        /\ client' = [client EXCEPT ![c] = Resting]
        /\ fate' = [fate EXCEPT ![client[c].turn] = "dropped"]
  /\ UNCHANGED <<wmVars, pointer>>

AppendPush(c) ==
  LET s == client[c].sid
  IN  /\ client[c].pc = "push"
      /\ PushTurn(s, client[c].turn)
      /\ client' = [client EXCEPT ![c].pc = "set",
                                  ![c].n = Cardinality(turns'[s])]
      /\ fate' = [fate EXCEPT ![client[c].turn] = "listed"]
      /\ UNCHANGED <<distill, pointer>>

SetPointer(c) ==
  LET a == client[c].agent
  IN  /\ client[c].pc = "set"
      /\ pointer' = [pointer EXCEPT ![a] = [sid |-> client[c].sid,
                                            n |-> client[c].n]]
      /\ fate' = [fate EXCEPT ![client[c].turn] = "accepted"]
      /\ client' = [client EXCEPT ![c] = Resting]
      /\ UNCHANGED wmVars

----------------------------------------------------------------------------
(* The environment.                                                        *)

(* The pointer gets the TTL of the session just after the session got it,  *)
(* and so expires after it, unless a handler that appended to the session  *)
(* since then ended before it wrote the pointer.                           *)
ExpirePointer(a) ==
  /\ "expiry" \in Faults
  /\ pointer[a].sid # None
  /\ IsOpen(pointer[a].sid) => "client crash" \in Faults
  /\ pointer' = [pointer EXCEPT ![a] = NoPointer]
  /\ UNCHANGED <<wmVars, client, fate>>

Expire(s) ==
  /\ ExpireSession(s)
  /\ UNCHANGED <<distill, pointer, client, fate>>

(* A server process ends, or the request is cancelled, between two round   *)
(* trips; a Redis error that record_turn does not catch does the same.     *)
ClientCrash(c) ==
  /\ "client crash" \in Faults
  /\ client[c].pc # "idle"
  /\ client' = [client EXCEPT ![c] = Resting]
  /\ fate' = [fate EXCEPT ![client[c].turn] =
                            IF @ = "listed" THEN "listed" ELSE "dropped"]
  /\ UNCHANGED <<wmVars, pointer>>

ClientStep(c) ==
  \/ GetPointer(c) \/ CloseMeta(c) \/ CloseMark(c) \/ ClosePush(c)
  \/ Open(c) \/ AppendCheck(c) \/ AppendPush(c) \/ SetPointer(c)

Worker == WorkerStep /\ UNCHANGED <<store, pointer, client, fate>>

WorkerFaults == WorkerFault /\ UNCHANGED <<store, pointer, client, fate>>

Next ==
  \/ \E c \in Clients, t \in Turns : Begin(c, t)
  \/ \E c \in Clients : ClientStep(c) \/ ClientCrash(c)
  \/ \E a \in Agents : ExpirePointer(a)
  \/ \E s \in Sessions : Expire(s)
  \/ Worker
  \/ WorkerFaults

Spec == Init /\ [][Next]_vars

(* A handler that was started is run by the event loop, and the worker     *)
(* loops on BLPOP: both get their turn.                                    *)
Fairness == WF_vars(Worker) /\ \A c \in Clients : WF_vars(ClientStep(c))

FairSpec == Spec /\ Fairness

----------------------------------------------------------------------------
(* Properties.                                                             *)

(* A session with a job is settled: the retries end, in a summary or on    *)
(* the dead-letter list.                                                   *)
JobsSettle == \A s \in Sessions : s \in Due ~> s \notin Due

----------------------------------------------------------------------------
(* What the handlers hold between two round trips.                         *)

(* A handler and a pointer only name sessions that were opened, and a      *)
(* handler about to push a job has seen its session leave "open".          *)
HandlersHold ==
  /\ \A a \in Agents : pointer[a].sid \in issued \cup {None}
  /\ \A c \in Clients : client[c].sid \in issued \cup {None}
  /\ \A c \in Clients : client[c].pc = "close push" => ~ IsOpen(client[c].sid)

----------------------------------------------------------------------------
(* Properties of the capture session.                                      *)

(* A single rolling session per agent: two sessions of one agent are never *)
(* open at the same time (docstring of record_turn).                       *)
SingleRollingSession ==
  \A s1, s2 \in issued :
    IsOpen(s1) /\ IsOpen(s2) /\ agentOf[s1] = agentOf[s2] => s1 = s2

(* A turn of a session is in the brain, or the session will be distilled:  *)
(* it is the agent's rolling session, or a handler still works on it, or a *)
(* job for it waits, runs or failed for good.                              *)
NoTurnStranded ==
  \A s \in Sessions : \A t \in turns[s] \ brain :
    \/ pointer[Author[t]].sid = s
    \/ \E c \in Clients : client[c].sid = s
    \/ s \in Due
    \/ \E job \in DeadJobs : job.sid = s

=============================================================================
