---------------------------- MODULE SessionTools ---------------------------
(***************************************************************************)
(* The session tools of memory/facade.py (session_open, session_append,    *)
(* session_ensure, session_commit, session_close) and the session mapping  *)
(* of the chat gateway (resolve_conversation_session of memory/working.py, *)
(* called by server/gateway_api.py), over the Redis state of WorkingMemory *)
(* and the agent-state keys of memory/agent_state.py.                      *)
(*                                                                         *)
(* A call is one tool call or chat request: a chain of Redis round trips,  *)
(* with other calls, the distill worker and the TTLs between any two.  The *)
(* tools share their tails: each tail is one group of actions, entered by  *)
(* whichever tool needs it.  One repo, and one chat per agent, is          *)
(* modelled: their keys have nothing in common with those of others.       *)
(***************************************************************************)
EXTENDS WorkingMemory

CONSTANTS Calls,     \* the calls, which also name the turn each may append
          Caller,    \* the agent that makes each call
          Named,     \* the agents each call may name to write as (agent=)
          Ops,       \* the operations the calls may be
          InFlight,  \* bound on the calls that run at a time
          MishapBound \* model bound: keys that expire and calls that are cut off

ASSUME CallsAssumption == Calls \subseteq Turns
ASSUME CallerAssumption == Caller \in [Calls -> Agents]
ASSUME NamedAssumption == Named \in [Calls -> SUBSET Agents]
ASSUME OpsAssumption ==
  Ops \subseteq {"open", "append", "answer", "ensure", "rotate", "commit",
                 "commit close", "close", "discard", "ask", "chat"}
ASSUME InFlightAssumption == InFlight \in Nat \ {0}
ASSUME MishapBoundAssumption == MishapBound \in Nat

VARIABLES active,  \* agent-state:...:conversation/active-session of each agent
          pin,     \* the conversation key of the chat of each agent
          call,    \* control state and locals of each call
          landed,  \* history: the sessions the turn of each call was pushed to
          handed,  \* history: sessions a job was pushed for
          mishaps  \* history: keys that expired and calls that were cut off

vars == <<wmVars, active, pin, call, landed, handed, mishaps>>
redisKeys == <<active, pin>>
history == <<landed, handed, mishaps>>

----------------------------------------------------------------------------
(* Where sid names a session, and where it may be None.                    *)
Naming == {"inspect", "pinned", "owner", "check", "push", "recheck", "repush",
           "set", "set pin", "reset", "close owner", "close meta",
           "close mark", "close push", "clear"}
Asking == {"pointer", "pin", "open", "reopen"}
Ended == {"done", "raised", "cut"}

(* "append" knows the repo and the state id, "answer" and "ask" do not;    *)
(* "ask" opens a session first, "chat" resolves one; "rotate"              *)
(* is session_ensure with fresh=True, "commit close" session_commit with   *)
(* close=True, "discard" session_close with distill=False.  as is the      *)
(* agent whose name session_open or session_ensure was given, if another   *)
(* than the caller.                                                        *)
Local ==
  {l \in [pc: Naming \cup Asking \cup Ended \cup {"new"}, op: Ops \cup {None},
          sid: Sessions \cup {None}, says: BOOLEAN, as: Agents \cup {None}] :
     l.pc \in Naming => l.sid # None}

Fresh == [pc |-> "new", op |-> None, sid |-> None, says |-> FALSE, as |-> None]

ToolTypeOK ==
  /\ WMTypeOK
  /\ active \in [Agents -> Sessions \cup {None}]
  /\ pin \in [Agents -> Sessions \cup {None}]
  /\ call \in [Calls -> Local]
  /\ landed \in [Calls -> SUBSET Sessions]
  /\ handed \subseteq Sessions
  /\ mishaps \in Nat

Init ==
  /\ WMInit
  /\ active = [a \in Agents |-> None]
  /\ pin = [a \in Agents |-> None]
  /\ call = [c \in Calls |-> Fresh]
  /\ landed = [c \in Calls |-> {}]
  /\ handed = {}
  /\ mishaps = 0

Goto(c, pc) == call' = [call EXCEPT ![c].pc = pc]
Hold(c, s, pc) == call' = [call EXCEPT ![c].pc = pc, ![c].sid = s]

----------------------------------------------------------------------------
(* A call arrives.  Any session id that was returned may be passed.        *)
BeginAs(c, a, op, s, says, pc) ==
  /\ op \in Ops
  /\ call' = [call EXCEPT ![c] = [pc |-> pc, op |-> op, sid |-> s, says |-> says, as |-> a]]
Begin(c, op, s, says, pc) == BeginAs(c, None, op, s, says, pc)

(* _write_principal: the caller writes under its own name, or another.     *)
Names(c) == {None} \cup (Named[c] \ {Caller[c]})
Writer(c) == IF call[c].as = None THEN Caller[c] ELSE call[c].as

(* memory_session_open.                                                    *)
ToOpen(c) == \E a \in Names(c) : BeginAs(c, a, "open", None, FALSE, "open")

(* memory_session_ensure, with or without a turn of the user.              *)
ToEnsure(c) ==
  \E a \in Names(c), op \in {"ensure", "rotate"}, user \in BOOLEAN :
    BeginAs(c, a, op, None, user, "pointer")

(* memory_session_append, with and without the repo.                       *)
ToAppend(c) == \E op \in {"append", "answer"}, s \in issued : Begin(c, op, s, TRUE, "owner")

(* context_commit, where the session may be left out.                      *)
ToCommit(c) ==
  \E op \in {"commit", "commit close"} :
    \/ Begin(c, op, None, TRUE, "pointer")
    \/ \E s \in issued : Begin(c, op, s, TRUE, "owner")

(* memory_session_close.                                                   *)
ToClose(c) == \E op \in {"close", "discard"}, s \in issued : Begin(c, op, s, FALSE, "close owner")

(* The session append of prepare_llm_messages, to the session given or to  *)
(* one it opens.                                                           *)
ToSay(c, s) ==
  IF s = None THEN Begin(c, "ask", None, TRUE, "open") ELSE Begin(c, "answer", s, TRUE, "owner")

(* resolve_conversation_session, for a chat request.                       *)
ToResolve(c) == Begin(c, "chat", None, FALSE, "pin")

Room(c) ==
  /\ call[c].pc = "new"
  /\ Cardinality({d \in Calls : call[d].pc \in Naming \cup Asking}) < InFlight

Start(c) ==
  /\ Room(c)
  /\ \/ ToOpen(c) \/ ToEnsure(c) \/ ToAppend(c) \/ ToCommit(c) \/ ToClose(c)
     \/ ToSay(c, None)
     \/ ToResolve(c)
  /\ UNCHANGED <<wmVars, redisKeys, history>>

----------------------------------------------------------------------------
(* Which session.                                                          *)

(* agent_state.get.                                                        *)
GetPointer(c) ==
  LET s == active[Caller[c]]
  IN  /\ call[c].pc = "pointer"
      /\ Hold(c, s, IF s = None THEN "open"
                    ELSE IF call[c].op \in {"ensure", "rotate"} THEN "inspect"
                    ELSE "owner")
      /\ UNCHANGED <<wmVars, redisKeys, history>>

(* session_ensure, get_metadata: the session is resumed when it is open    *)
(* and the writer's, unless a fresh one is asked for.                      *)
Inspect(c) ==
  LET reusable == IsOpen(call[c].sid) /\ agentOf[call[c].sid] = Writer(c)
  IN  /\ call[c].pc = "inspect"
      /\ Goto(c, IF ~ reusable \/ call[c].op = "rotate" THEN "close meta"
                 ELSE IF call[c].says THEN "owner" ELSE "done")
      /\ UNCHANGED <<wmVars, redisKeys, history>>

(* resolve_conversation_session: GET, and the check of the pinned session. *)
GetPin(c) ==
  LET s == pin[Caller[c]]
  IN  /\ call[c].pc = "pin"
      /\ Hold(c, s, IF s = None THEN "open" ELSE "pinned")
      /\ UNCHANGED <<wmVars, redisKeys, history>>

CheckPinned(c) ==
  /\ call[c].pc = "pinned"
  /\ Goto(c, IF IsOpen(call[c].sid) THEN "done" ELSE "open")
  /\ UNCHANGED <<wmVars, redisKeys, history>>

(* open_session.  session_commit and prepare_llm_messages without a        *)
(* session append to it without setting the pointer.                       *)
Open(c) ==
  /\ call[c].pc = "open"
  /\ \E s \in Sessions :
       /\ OpenSession(s, Writer(c))
       /\ Hold(c, s, CASE call[c].op \in {"ensure", "rotate"} -> "set"
                       [] call[c].op = "chat" -> "set pin"
                       [] call[c].op = "open" -> "done"
                       [] OTHER -> "owner")
  /\ UNCHANGED <<distill, redisKeys, history>>

(* agent_state.set.                                                        *)
SetActive(c) ==
  /\ call[c].pc = "set"
  /\ active' = [active EXCEPT ![Caller[c]] = call[c].sid]
  /\ Goto(c, IF call[c].says THEN "owner" ELSE "done")
  /\ UNCHANGED <<wmVars, pin, history>>

SetPin(c) ==
  /\ call[c].pc = "set pin"
  /\ pin' = [pin EXCEPT ![Caller[c]] = call[c].sid]
  /\ Goto(c, "done")
  /\ UNCHANGED <<wmVars, active, history>>

----------------------------------------------------------------------------
(* session_append.                                                         *)

(* The hash says who owns the session: a ghost hash names no agent.        *)
Owned(c) == meta[call[c].sid] \in {"open", "closed"}
              /\ agentOf[call[c].sid] = Caller[c]

(* get_metadata: gone is reopened, someone else's is a PermissionError.    *)
Owner(c) ==
  /\ call[c].pc = "owner"
  /\ Goto(c, IF ~ HasMetadata(call[c].sid) THEN "reopen"
             ELSE IF Owned(c) THEN "check" ELSE "raised")
  /\ UNCHANGED <<wmVars, redisKeys, history>>

(* append_turn, _require_open.                                             *)
Check(c) ==
  /\ call[c].pc = "check"
  /\ Goto(c, IF IsOpen(call[c].sid) THEN "push" ELSE "reopen")
  /\ UNCHANGED <<wmVars, redisKeys, history>>

(* append_turn, RPUSH.                                                     *)
Land(c) ==
  /\ PushTurn(call[c].sid, c)
  /\ landed' = [landed EXCEPT ![c] = @ \cup {call[c].sid}]

AfterAppend(c) == IF call[c].op = "commit close" THEN "close owner" ELSE "done"

(* Mutant: the append falls through to the reopening.                      *)
BugFallThrough(c) ==
  /\ call[c].pc = "push"
  /\ Land(c)
  /\ Goto(c, "reopen")
  /\ UNCHANGED <<distill, redisKeys, handed, mishaps>>

Push(c) ==
  /\ call[c].pc = "push"
  /\ Land(c)
  /\ Goto(c, AfterAppend(c))
  /\ UNCHANGED <<distill, redisKeys, handed, mishaps>>

(* The session is gone or closed: the turn goes to a fresh one, of the     *)
(* caller.                                                                 *)
Reopen(c) ==
  /\ call[c].pc = "reopen"
  /\ \E s \in Sessions : OpenSession(s, Caller[c]) /\ Hold(c, s, "recheck")
  /\ UNCHANGED <<distill, redisKeys, history>>

(* append_turn again, now without a net.                                   *)
Recheck(c) ==
  /\ call[c].pc = "recheck"
  /\ Goto(c, IF IsOpen(call[c].sid) THEN "repush" ELSE "raised")
  /\ UNCHANGED <<wmVars, redisKeys, history>>

(* The pointer follows when state id and repo are known.                   *)
Repush(c) ==
  /\ call[c].pc = "repush"
  /\ Land(c)
  /\ Goto(c, IF call[c].op \in {"answer", "ask"} THEN "done" ELSE "reset")
  /\ UNCHANGED <<distill, redisKeys, handed, mishaps>>

Reset(c) ==
  /\ call[c].pc = "reset"
  /\ active' = [active EXCEPT ![Caller[c]] = call[c].sid]
  /\ Goto(c, AfterAppend(c))
  /\ UNCHANGED <<wmVars, pin, history>>

----------------------------------------------------------------------------
(* session_close and close_session.                                        *)

(* _require_session_owner.                                                 *)
CloseOwner(c) ==
  /\ call[c].pc = "close owner"
  /\ Goto(c, IF Owned(c) THEN "close meta" ELSE "raised")
  /\ UNCHANGED <<wmVars, redisKeys, history>>

(* get_metadata: session_ensure suppresses the KeyError, the others raise. *)
CloseMeta(c) ==
  /\ call[c].pc = "close meta"
  /\ Goto(c, IF HasMetadata(call[c].sid) THEN "close mark"
             ELSE IF call[c].op \in {"ensure", "rotate"} THEN "open"
             ELSE "raised")
  /\ UNCHANGED <<wmVars, redisKeys, history>>

(* Mutant: session_ensure closes with distill=False.                       *)
BugRotateDiscards(c) ==
  /\ call[c].pc = "close mark"
  /\ MarkClosed(call[c].sid)
  /\ Goto(c, IF call[c].op = "discard" THEN "done"
             ELSE IF call[c].op = "rotate" THEN "open" ELSE "close push")
  /\ UNCHANGED <<distill, redisKeys, history>>

CloseMark(c) ==
  /\ call[c].pc = "close mark"
  /\ MarkClosed(call[c].sid)
  /\ Goto(c, IF call[c].op = "discard" THEN "done" ELSE "close push")
  /\ UNCHANGED <<distill, redisKeys, history>>

ClosePush(c) ==
  /\ call[c].pc = "close push"
  /\ PushJob(call[c].sid)
  /\ handed' = handed \cup {call[c].sid}
  /\ Goto(c, CASE call[c].op \in {"ensure", "rotate"} -> "open"
               [] call[c].op = "commit close" -> "clear"
               [] OTHER -> "done")
  /\ UNCHANGED <<store, redisKeys, landed, mishaps>>

(* session_commit: the pointer is cleared, whatever it says by now.        *)
Clear(c) ==
  /\ call[c].pc = "clear"
  /\ active' = [active EXCEPT ![Caller[c]] = None]
  /\ Goto(c, "done")
  /\ UNCHANGED <<wmVars, pin, history>>

----------------------------------------------------------------------------
(* The environment.                                                        *)

Mishap ==
  /\ mishaps < MishapBound
  /\ mishaps' = mishaps + 1
  /\ UNCHANGED <<landed, handed>>

ExpireKey(a) ==
  /\ Mishap
  /\ "expiry" \in Faults
  /\ \/ active[a] # None /\ active' = [active EXCEPT ![a] = None] /\ UNCHANGED pin
     \/ pin[a] # None /\ pin' = [pin EXCEPT ![a] = None] /\ UNCHANGED active
  /\ UNCHANGED <<wmVars, call>>

Expire(s) ==
  /\ Mishap
  /\ ExpireSession(s)
  /\ UNCHANGED <<distill, redisKeys, call>>

(* The process, or its Redis connection, ends under the call.              *)
Cut(c) ==
  /\ Mishap
  /\ "client crash" \in Faults
  /\ call[c].pc \in Naming \cup Asking
  /\ Goto(c, "cut")
  /\ UNCHANGED <<wmVars, redisKeys>>

(* The mishap befalls what the session tools do not use.                   *)
Elsewhere == Mishap /\ UNCHANGED <<wmVars, redisKeys, call>>

CallStep(c) ==
  \/ GetPointer(c) \/ Inspect(c) \/ GetPin(c) \/ CheckPinned(c) \/ Open(c)
  \/ SetActive(c) \/ SetPin(c)
  \/ Owner(c) \/ Check(c) \/ Push(c) \/ Reopen(c) \/ Recheck(c) \/ Repush(c) \/ Reset(c)
  \/ CloseOwner(c) \/ CloseMeta(c) \/ CloseMark(c) \/ ClosePush(c) \/ Clear(c)

Worker == (WorkerStep \/ WorkerFault) /\ UNCHANGED <<store, redisKeys, call, history>>

Next ==
  \/ \E c \in Calls : Start(c) \/ CallStep(c) \/ Cut(c)
  \/ \E a \in Agents : ExpireKey(a)
  \/ \E s \in Sessions : Expire(s)
  \/ Elsewhere \/ Worker

Spec == Init /\ [][Next]_vars

----------------------------------------------------------------------------
(* Properties.                                                             *)

(* A call that returned has put its turn into the one session it names in  *)
(* its answer, a session of the caller; a call that raised has put it      *)
(* nowhere else.                                                           *)
TurnsLand ==
  \A c \in Calls :
    /\ landed[c] \subseteq {call[c].sid}
    /\ call[c].pc = "done" /\ call[c].says => landed[c] = {call[c].sid}
    /\ \A s \in landed[c] : agentOf[s] = Caller[c]

(* The pointers of an agent lead to its own sessions: the pin always, the  *)
(* active-session pointer unless session_ensure was given another name,    *)
(* and then to a session of that agent.                                    *)
PointersOwn ==
  \A a \in Agents :
    /\ pin[a] # None => agentOf[pin[a]] = a
    /\ active[a] # None /\ agentOf[active[a]] # a =>
         \E c \in Calls : Caller[c] = a /\ Writer(c) = agentOf[active[a]]

(* A closed session was handed to the distiller, or is about to be, or was *)
(* closed with distill=False, or its closing was cut off.                  *)
HandedOver ==
  \A s \in issued : meta[s] = "closed" =>
    \/ s \in handed
    \/ \E c \in Calls : /\ call[c].sid = s
                        /\ \/ call[c].pc \in {"close push", "cut"}
                           \/ call[c].op = "discard"

(* What the calls hold between two round trips: ids that were opened, and  *)
(* a session that takes no turns where its job is about to be pushed, or   *)
(* where session_ensure is about to open another in its place ("otherwise  *)
(* closes it", docstring of session_ensure).                               *)
Left(c) ==
  \/ call[c].pc = "close push"
  \/ call[c].pc = "open" /\ call[c].op \in {"ensure", "rotate"} /\ call[c].sid # None
CallsHold ==
  /\ \A a \in Agents : {active[a], pin[a]} \subseteq issued \cup {None}
  /\ \A c \in Calls : call[c].sid \in issued \cup {None}
  /\ \A c \in Calls : Left(c) => ~ IsOpen(call[c].sid)

=============================================================================
