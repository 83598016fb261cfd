------------------------- MODULE SessionToolsProofs ------------------------
(***************************************************************************)
(* Theorems about SessionTools for every set of agents, sessions and calls *)
(* and any number of calls, expiries and aborted calls at a time; then     *)
(* about ChatGateway, whose requests keep to the session tools, so that    *)
(* what is proved of those holds of them, and where the two turns of a     *)
(* request go.                                                             *)
(***************************************************************************)
EXTENDS ChatGateway, WorkingMemoryProofs

(* The fields of a call.                                                   *)
LEMMA CallTyped ==
  ASSUME ToolTypeOK, NEW c \in Calls
  PROVE  /\ call[c] \in Local
         /\ call[c].sid \in Sessions \cup {None}
         /\ call[c].pc \in Naming => call[c].sid \in Sessions
         /\ call[c].op \in Ops \cup {None} /\ call[c].says \in BOOLEAN
         /\ Caller[c] \in Agents /\ Writer(c) \in Agents /\ c \in Turns
BY CallerAssumption, CallsAssumption DEF ToolTypeOK, Local, Writer

(* One call moves on, perhaps with another session, and keeps the rest.    *)
Moved(c, pc, s) ==
  /\ call' \in [Calls -> Local]
  /\ call'[c].pc = pc /\ call'[c].sid = s
  /\ call'[c].op = call[c].op /\ call'[c].says = call[c].says
  /\ \A d \in Calls \ {c} : call'[d] = call[d]

LEMMA Movement ==
  ASSUME ToolTypeOK, NEW c \in Calls,
         NEW pc \in Naming \cup Asking \cup Ended,
         NEW s \in Sessions \cup {None}, pc \in Naming => s # None
  PROVE  /\ Hold(c, s, pc) => Moved(c, pc, s)
         /\ Goto(c, pc) /\ s = call[c].sid => Moved(c, pc, s)
<1>1. call \in [Calls -> Local] /\ call[c] \in Local
  BY DEF ToolTypeOK
<1>2. [call[c] EXCEPT !.pc = pc, !.sid = s] \in Local
  BY <1>1 DEF Local
<1>3. s = call[c].sid => [call[c] EXCEPT !.pc = pc] \in Local
  BY <1>1 DEF Local
<1>4. ASSUME Hold(c, s, pc)
      PROVE  Moved(c, pc, s)
  <2>1. call' = [call EXCEPT ![c] = [call[c] EXCEPT !.pc = pc, !.sid = s]]
    BY <1>4 DEF Hold
  <2>2. call'[c] = [call[c] EXCEPT !.pc = pc, !.sid = s]
    BY <1>1, <2>1
  <2>3. call' \in [Calls -> Local] /\ \A d \in Calls \ {c} : call'[d] = call[d]
    BY <1>1, <1>2, <2>1
  <2>4. /\ call'[c].pc = pc /\ call'[c].sid = s
        /\ call'[c].op = call[c].op /\ call'[c].says = call[c].says
    BY <1>1, <2>2 DEF Local
  <2>5. QED BY <2>3, <2>4 DEF Moved
<1>5. ASSUME Goto(c, pc), s = call[c].sid
      PROVE  Moved(c, pc, s)
  <2>1. call' = [call EXCEPT ![c] = [call[c] EXCEPT !.pc = pc]]
    BY <1>5 DEF Goto
  <2>2. call'[c] = [call[c] EXCEPT !.pc = pc]
    BY <1>1, <2>1
  <2>3. call' \in [Calls -> Local] /\ \A d \in Calls \ {c} : call'[d] = call[d]
    BY <1>1, <1>3, <1>5, <2>1
  <2>4. /\ call'[c].pc = pc /\ call'[c].sid = s
        /\ call'[c].op = call[c].op /\ call'[c].says = call[c].says
    BY <1>1, <1>5, <2>2 DEF Local
  <2>5. QED BY <2>3, <2>4 DEF Moved
<1>6. QED BY <1>4, <1>5

----------------------------------------------------------------------------
(* Types, and what the calls hold.                                         *)

(* What every action of a call leaves behind: one command of the working   *)
(* memory, one call that has moved, and ids that were issued.              *)
Kept(c) ==
  /\ Command
  /\ call' \in [Calls -> Local]
  /\ \A d \in Calls \ {c} : call'[d] = call[d]
  /\ call'[c].sid \in issued' \cup {None}
  /\ Left(c)' => meta'[call'[c].sid] # "open"
  /\ active' \in [Agents -> issued' \cup {None}]
  /\ pin' \in [Agents -> issued' \cup {None}]
  /\ landed' \in [Calls -> SUBSET Sessions]
  /\ handed' \subseteq Sessions
  /\ mishaps' \in Nat

HeldHere == ToolTypeOK /\ CallsHold

(* The pointers and the calls that wait hold ids that were issued.         *)
LEMMA Holding ==
  ASSUME HeldHere
  PROVE  /\ active \in [Agents -> issued \cup {None}]
         /\ pin \in [Agents -> issued \cup {None}]
         /\ \A c \in Calls : /\ call[c].sid \in issued \cup {None}
                             /\ call[c].pc \in Naming => call[c].sid \in issued
                             /\ Left(c) => meta[call[c].sid] # "open"
         /\ issued \subseteq Sessions /\ None \notin Sessions /\ WMTypeOK
<1>1. ToolTypeOK /\ CallsHold
  BY DEF HeldHere
<1>2. active \in [Agents -> issued \cup {None}] /\ pin \in [Agents -> issued \cup {None}]
  BY <1>1 DEF ToolTypeOK, CallsHold
<1>3. issued \subseteq Sessions /\ None \notin Sessions /\ WMTypeOK
  BY <1>1, NoneAssumption DEF ToolTypeOK, WMTypeOK
<1>4. ASSUME NEW c \in Calls
      PROVE  /\ call[c].sid \in issued \cup {None}
             /\ call[c].pc \in Naming => call[c].sid \in issued
             /\ Left(c) => meta[call[c].sid] # "open"
  BY <1>1, <1>3, CallTyped DEF CallsHold, IsOpen
<1>5. QED BY <1>2, <1>3, <1>4

(* A call that moves, while nothing else but its command happens.          *)
LEMMA MoveKeeps ==
  ASSUME HeldHere, Command, NEW c \in Calls, NEW pc, NEW s, Moved(c, pc, s),
         s \in issued' \cup {None},
         (\/ pc = "close push"
          \/ pc = "open" /\ s # None /\ call[c].op \in {"ensure", "rotate"})
         => meta'[s] # "open",
         \/ UNCHANGED <<active, pin>>
         \/ s # None /\ active' = [active EXCEPT ![Caller[c]] = s] /\ UNCHANGED pin
         \/ s # None /\ pin' = [pin EXCEPT ![Caller[c]] = s] /\ UNCHANGED active,
         landed' \in [Calls -> SUBSET Sessions], handed' \subseteq Sessions,
         mishaps' \in Nat
  PROVE  Kept(c)
<1>1. /\ call' \in [Calls -> Local] /\ \A d \in Calls \ {c} : call'[d] = call[d]
      /\ call'[c].sid = s /\ call'[c].pc = pc /\ call'[c].op = call[c].op
  BY DEF Moved
<1>2. issued \subseteq issued'
  BY CommandKeeps, Holding
<1>3. active' \in [Agents -> issued' \cup {None}] /\ pin' \in [Agents -> issued' \cup {None}]
  <2>1. /\ active \in [Agents -> issued' \cup {None}]
        /\ pin \in [Agents -> issued' \cup {None}]
    BY <1>2, Holding
  <2>2. QED BY <2>1
<1>4. Left(c)' => meta'[call'[c].sid] # "open"
  BY <1>1 DEF Left
<1>5. QED BY <1>1, <1>3, <1>4 DEF Kept

LEMMA QuietKeeps ==
  ASSUME HeldHere, NEW c \in Calls, UNCHANGED <<wmVars, redisKeys, history>>,
         NEW pc, NEW s, Moved(c, pc, s), s \in issued \cup {None},
         (\/ pc = "close push"
          \/ pc = "open" /\ s # None /\ call[c].op \in {"ensure", "rotate"})
         => meta[s] # "open"
  PROVE  Kept(c)
<1>1. Command /\ UNCHANGED <<issued, meta, active, pin, landed, handed, mishaps>>
  BY DEF Command, wmVars, redisKeys, history
<1>2. landed \in [Calls -> SUBSET Sessions] /\ handed \subseteq Sessions /\ mishaps \in Nat
  BY DEF HeldHere, ToolTypeOK
<1>3. QED BY <1>1, <1>2, MoveKeeps

(* A call starts with a session of its request, or none.                   *)
LEMMA StartKeeps ==
  ASSUME HeldHere, NEW c \in Calls, Start(c)
  PROVE  Kept(c)
<1>1. PICK op \in Ops, s \in issued \cup {None}, says \in BOOLEAN, a \in Agents \cup {None},
           pc \in {"open", "pointer", "owner", "close owner", "pin"} :
        /\ BeginAs(c, a, op, s, says, pc)
        /\ pc \in {"owner", "close owner"} => s # None
        /\ pc = "open" => s = None
  <2>1. issued \subseteq Sessions /\ None \notin Sessions
    BY Holding
  <2>2. ASSUME NEW op, NEW s \in issued \cup {None}, NEW says \in BOOLEAN, NEW a \in Agents \cup {None},
               NEW pc \in {"open", "pointer", "owner", "close owner", "pin"},
               BeginAs(c, a, op, s, says, pc),
               pc \in {"owner", "close owner"} => s # None,
               pc = "open" => s = None
        PROVE  \E op1 \in Ops, s1 \in issued \cup {None}, says1 \in BOOLEAN, a1 \in Agents \cup {None},
                  pc1 \in {"open", "pointer", "owner", "close owner", "pin"} :
                 /\ BeginAs(c, a1, op1, s1, says1, pc1)
                 /\ pc1 \in {"owner", "close owner"} => s1 # None
                 /\ pc1 = "open" => s1 = None
    <3>1. op \in Ops
      BY <2>2 DEF BeginAs
    <3>2. QED BY <2>2, <3>1
  <2>3. ASSUME NEW op, NEW s \in issued \cup {None}, NEW says \in BOOLEAN,
               NEW pc \in {"open", "pointer", "owner", "close owner", "pin"},
               Begin(c, op, s, says, pc)
        PROVE  BeginAs(c, None, op, s, says, pc)
    BY <2>3 DEF Begin
  <2>4. \A a \in Names(c) : a \in Agents \cup {None}
    BY NamedAssumption DEF Names
  <2>5. CASE ToOpen(c)
    BY <2>2, <2>4, <2>5 DEF ToOpen
  <2>6. CASE ToEnsure(c)
    BY <2>2, <2>4, <2>6 DEF ToEnsure
  <2>7. CASE ToAppend(c) \/ ToClose(c)
    BY <2>1, <2>2, <2>3, <2>7 DEF ToAppend, ToClose
  <2>8. CASE ToCommit(c)
    BY <2>1, <2>2, <2>3, <2>8 DEF ToCommit
  <2>9. CASE ToSay(c, None) \/ ToResolve(c)
    BY <2>2, <2>3, <2>9 DEF ToSay, ToResolve
  <2>10. QED BY <2>5, <2>6, <2>7, <2>8, <2>9 DEF Start
<1>2. UNCHANGED <<wmVars, redisKeys, history>>
  BY DEF Start
<1>3. Command /\ UNCHANGED <<issued, meta, active, pin, landed, handed, mishaps>>
  BY <1>2 DEF Command, wmVars, redisKeys, history
<1>4. /\ landed \in [Calls -> SUBSET Sessions] /\ handed \subseteq Sessions
      /\ mishaps \in Nat /\ call \in [Calls -> Local]
  BY DEF HeldHere, ToolTypeOK
<1> DEFINE l == [pc |-> pc, op |-> op, sid |-> s, says |-> says, as |-> a]
<1>5. l \in Local /\ l.sid = s /\ l.pc = pc
  BY <1>1, Holding DEF Local, Naming, Asking, Ended
<1>6. call' = [call EXCEPT ![c] = l]
  BY <1>1 DEF BeginAs
<1> HIDE DEF l
<1>7. /\ call' \in [Calls -> Local] /\ call'[c] = l
      /\ \A d \in Calls \ {c} : call'[d] = call[d]
  BY <1>4, <1>5, <1>6
<1>8. ~ Left(c)'
  BY <1>1, <1>5, <1>7 DEF Left
<1>9. QED BY <1>1, <1>3, <1>4, <1>5, <1>7, <1>8, Holding DEF Kept

(* The reads: the call decides where to go next.                           *)
LEMMA ReadKeeps ==
  ASSUME HeldHere, NEW c \in Calls,
         \/ GetPointer(c) \/ Inspect(c) \/ GetPin(c) \/ CheckPinned(c)
         \/ Owner(c) \/ Check(c) \/ Recheck(c) \/ CloseOwner(c) \/ CloseMeta(c)
         \/ Cut(c)
  PROVE  Kept(c)
<1> USE DEF Naming, Asking, Ended
<1>1. ToolTypeOK
  BY DEF HeldHere
<1>2. /\ active[Caller[c]] \in issued \cup {None} /\ pin[Caller[c]] \in issued \cup {None}
      /\ call[c].sid \in issued \cup {None} /\ issued \subseteq Sessions
      /\ call[c].pc \in Naming => call[c].sid # None
  BY <1>1, Holding, CallTyped DEF Naming
<1>3. ASSUME UNCHANGED <<wmVars, redisKeys, history>>,
             NEW s \in {call[c].sid, active[Caller[c]], pin[Caller[c]]},
             NEW pc \in (Naming \cup Asking \cup Ended) \ {"close push"},
             pc \in Naming => s # None,
             Hold(c, s, pc) \/ (s = call[c].sid /\ Goto(c, pc)),
             pc = "open" /\ s # None /\ call[c].op \in {"ensure", "rotate"}
               => meta[s] # "open"
      PROVE  Kept(c)
  <2>1. Moved(c, pc, s)
    <3>1. s \in Sessions \cup {None}
      BY <1>2
    <3>2. QED BY <1>1, <1>3, <3>1, Movement
  <2>2. QED BY <1>2, <1>3, <2>1, QuietKeeps
<1>4. CASE GetPointer(c)
  BY <1>3, <1>4 DEF GetPointer
<1>5. CASE Inspect(c)
  BY <1>2, <1>3, <1>5 DEF Inspect
<1>6. CASE GetPin(c)
  <2>1. UNCHANGED <<wmVars, redisKeys, history>>
    BY <1>6 DEF GetPin
  <2>2. PICK pc \in {"open", "pinned"} :
          Hold(c, pin[Caller[c]], pc) /\ (pin[Caller[c]] = None <=> pc = "open")
    BY <1>6 DEF GetPin
  <2>3. QED BY <1>3, <2>1, <2>2
<1>7. CASE CheckPinned(c)
  BY <1>2, <1>3, <1>7 DEF CheckPinned, IsOpen
<1>8. CASE Owner(c)
  BY <1>2, <1>3, <1>8 DEF Owner
<1>9. CASE Check(c)
  BY <1>2, <1>3, <1>9 DEF Check
<1>10. CASE Recheck(c)
  BY <1>2, <1>3, <1>10 DEF Recheck
<1>11. CASE CloseOwner(c)
  BY <1>2, <1>3, <1>11 DEF CloseOwner
<1>12. CASE CloseMeta(c)
  <2>1. meta[call[c].sid] \in MetaState
    BY <1>1, <1>2, <1>12 DEF ToolTypeOK, WMTypeOK, CloseMeta
  <2>2. HasMetadata(call[c].sid) \/ meta[call[c].sid] # "open"
    BY DEF HasMetadata
  <2>3. QED BY <1>2, <1>3, <1>12, <2>2 DEF CloseMeta
<1>13. CASE Cut(c)
  <2>1. Moved(c, "cut", call[c].sid)
    BY <1>1, <1>13, CallTyped, Movement DEF Cut
  <2>2. Command /\ UNCHANGED <<issued, meta, active, pin, landed, handed>>
          /\ mishaps' = mishaps + 1
    BY <1>13 DEF Cut, Mishap, Command, wmVars, redisKeys
  <2>3. landed \in [Calls -> SUBSET Sessions] /\ handed \subseteq Sessions /\ mishaps \in Nat
    BY <1>1 DEF ToolTypeOK
  <2>4. landed' \in [Calls -> SUBSET Sessions] /\ handed' \subseteq Sessions
    BY <2>2, <2>3
  <2>5. mishaps' \in Nat
    BY <2>2, <2>3
  <2>6. call[c].sid \in issued' \cup {None}
    BY <1>2, <2>2
  <2>7. UNCHANGED <<active, pin>>
    BY <2>2
  <2>8. Command
    BY <2>2
  <2> HIDE DEF Naming, Asking, Ended
  <2>9. QED BY <2>1, <2>4, <2>5, <2>6, <2>7, <2>8, MoveKeeps
<1>14. QED
  BY <1>4, <1>5, <1>6, <1>7, <1>8, <1>9, <1>10, <1>11, <1>12, <1>13

(* The writes: one command, or one SET of a pointer.                       *)
LEMMA WriteKeeps ==
  ASSUME HeldHere, NEW c \in Calls,
         \/ Open(c) \/ SetActive(c) \/ SetPin(c) \/ Push(c) \/ Reopen(c)
         \/ Repush(c) \/ Reset(c) \/ CloseMark(c) \/ ClosePush(c) \/ Clear(c)
  PROVE  Kept(c)
<1> USE DEF Naming, Asking, Ended
<1>1. ToolTypeOK /\ WMTypeOK
  BY Holding DEF HeldHere
<1>2. /\ call[c].sid \in issued \cup {None} /\ issued \subseteq Sessions
      /\ call[c].pc \in Naming => call[c].sid \in issued
      /\ None \notin Sessions
  BY Holding DEF Naming
<1>3. /\ landed \in [Calls -> SUBSET Sessions] /\ handed \subseteq Sessions
      /\ mishaps \in Nat /\ Caller[c] \in Agents /\ Writer(c) \in Agents /\ c \in Turns
  BY <1>1, CallTyped DEF ToolTypeOK
<1>4. ASSUME call[c].sid \in issued, NEW pc \in Naming \cup Asking \cup Ended, Goto(c, pc)
      PROVE  Moved(c, pc, call[c].sid)
  BY <1>1, <1>2, <1>4, Movement
<1>5. ASSUME NEW s \in Sessions, NEW a \in Agents, OpenSession(s, a),
             UNCHANGED <<distill, redisKeys, history>>,
             NEW pc \in {"set", "set pin", "done", "owner", "recheck"}, Hold(c, s, pc)
      PROVE  Kept(c)
  <2>1. Moved(c, pc, s)
    BY <1>1, <1>2, <1>5, Movement
  <2>2. Command /\ issued' = issued \cup {s}
    BY <1>3, <1>5 DEF Command, OpenSession
  <2>3. UNCHANGED <<active, pin, landed, handed, mishaps>>
    BY <1>5 DEF redisKeys, history
  <2>4. QED BY <1>3, <2>1, <2>2, <2>3, MoveKeeps
<1>6. CASE Open(c)
  <2>1. PICK s \in Sessions :
          /\ OpenSession(s, Writer(c))
          /\ Hold(c, s, CASE call[c].op \in {"ensure", "rotate"} -> "set"
                          [] call[c].op = "chat" -> "set pin"
                          [] call[c].op = "open" -> "done"
                          [] OTHER -> "owner")
    BY <1>6 DEF Open
  <2>2. PICK pc \in {"set", "set pin", "done", "owner"} : Hold(c, s, pc)
    BY <2>1
  <2>3. QED BY <1>3, <1>5, <1>6, <2>1, <2>2 DEF Open
<1>7. CASE Reopen(c)
  BY <1>3, <1>5, <1>7 DEF Reopen
<1>8. ASSUME call[c].sid \in issued, UNCHANGED <<wmVars, history>>,
             NEW pc \in {"owner", "done", "close owner"}, Goto(c, pc),
             \/ active' = [active EXCEPT ![Caller[c]] = call[c].sid] /\ UNCHANGED pin
             \/ pin' = [pin EXCEPT ![Caller[c]] = call[c].sid] /\ UNCHANGED active
      PROVE  Kept(c)
  <2>1. Moved(c, pc, call[c].sid)
    BY <1>4, <1>8
  <2>2. Command /\ UNCHANGED <<issued, meta, landed, handed, mishaps>>
    BY <1>8 DEF Command, wmVars, history
  <2>3. call[c].sid # None
    BY <1>2, <1>8
  <2>4. QED BY <1>2, <1>3, <1>8, <2>1, <2>2, <2>3, MoveKeeps
<1>9. CASE SetActive(c)
  BY <1>2, <1>8, <1>9 DEF SetActive
<1>10. CASE SetPin(c)
  BY <1>2, <1>8, <1>10 DEF SetPin
<1>11. CASE Reset(c)
  BY <1>2, <1>8, <1>11 DEF Reset, AfterAppend
<1>12. CASE Push(c) \/ Repush(c)
  <2>1. call[c].sid \in issued /\ call[c].sid \in Sessions
    BY <1>2, <1>12 DEF Push, Repush
  <2>2. PICK pc \in {"done", "reset", "close owner"} : Goto(c, pc)
    BY <1>12 DEF Push, Repush, AfterAppend
  <2>3. /\ PushTurn(call[c].sid, c) /\ UNCHANGED <<distill, redisKeys, handed, mishaps>>
        /\ landed' = [landed EXCEPT ![c] = @ \cup {call[c].sid}]
    BY <1>12 DEF Push, Repush, Land
  <2>4. Command /\ issued' = issued
    BY <1>3, <2>1, <2>3 DEF Command, PushTurn
  <2>5. landed' \in [Calls -> SUBSET Sessions]
    BY <1>3, <2>1, <2>3
  <2>6. Moved(c, pc, call[c].sid)
    BY <1>4, <2>1, <2>2
  <2>7. UNCHANGED <<active, pin, handed, mishaps>>
    BY <2>3 DEF redisKeys
  <2>8. QED BY <1>3, <2>1, <2>4, <2>5, <2>6, <2>7, MoveKeeps
<1>13. CASE CloseMark(c)
  <2>1. call[c].sid \in issued /\ call[c].sid \in Sessions
    BY <1>2, <1>13 DEF CloseMark
  <2>2. PICK pc \in {"done", "close push"} : Goto(c, pc)
    BY <1>13 DEF CloseMark
  <2>3. Command /\ issued' = issued /\ meta'[call[c].sid] # "open"
    BY <1>1, <1>13, <2>1 DEF CloseMark, Command, MarkClosed, WMTypeOK
  <2>4. UNCHANGED <<active, pin, landed, handed, mishaps>>
    BY <1>13 DEF CloseMark, redisKeys, history
  <2>5. Moved(c, pc, call[c].sid)
    BY <1>4, <2>1, <2>2
  <2>6. QED BY <1>3, <2>1, <2>3, <2>4, <2>5, MoveKeeps
<1>14. CASE ClosePush(c)
  <2>1. call[c].sid \in issued /\ call[c].sid \in Sessions /\ meta[call[c].sid] # "open"
    BY <1>2, <1>14, Holding DEF ClosePush, Left
  <2>2. PICK pc \in {"open", "clear", "done"} : Goto(c, pc)
    BY <1>14 DEF ClosePush
  <2>3. Command /\ issued' = issued /\ meta' = meta
    BY <1>14, <2>1 DEF ClosePush, Command, store, IsOpen
  <2>4. UNCHANGED <<active, pin, landed, mishaps>> /\ handed' \subseteq Sessions
    BY <1>3, <1>14, <2>1 DEF ClosePush, redisKeys
  <2>5. Moved(c, pc, call[c].sid)
    BY <1>4, <2>1, <2>2
  <2>6. QED BY <1>3, <2>1, <2>3, <2>4, <2>5, MoveKeeps
<1>15. CASE Clear(c)
  <2>1. call[c].sid \in issued
    BY <1>2, <1>15 DEF Clear
  <2>2. Moved(c, "done", call[c].sid)
    BY <1>4, <1>15, <2>1 DEF Clear
  <2>3. /\ Command /\ UNCHANGED <<issued, meta, pin, landed, handed, mishaps>>
        /\ active' = [active EXCEPT ![Caller[c]] = None]
    BY <1>15 DEF Clear, Command, wmVars, history
  <2>4. active' \in [Agents -> issued' \cup {None}] /\ pin' \in [Agents -> issued' \cup {None}]
    BY <1>3, <2>3, Holding
  <2>5. call'[c].pc = "done"
    BY <2>2 DEF Moved
  <2>6. ~ Left(c)'
    BY <2>5 DEF Left
  <2>7. QED BY <1>3, <2>1, <2>2, <2>3, <2>4, <2>6 DEF Kept, Moved
<1>16. QED
  BY <1>6, <1>7, <1>9, <1>10, <1>11, <1>12, <1>13, <1>14, <1>15

(* What one call leaves behind is enough for all.                          *)
LEMMA KeptHolds ==
  ASSUME HeldHere, NEW c \in Calls, Kept(c)
  PROVE  HeldHere'
<1>1. WMTypeOK' /\ issued \subseteq issued'
      /\ \A s \in issued : meta[s] # "open" => meta'[s] # "open"
  BY CommandTyped, CommandKeeps, Holding DEF Kept
<1>2. issued' \subseteq Sessions
  BY <1>1 DEF WMTypeOK
<1>3. ToolTypeOK'
  <2>1. active' \in [Agents -> Sessions \cup {None}] /\ pin' \in [Agents -> Sessions \cup {None}]
    BY <1>2 DEF Kept
  <2>2. QED BY <1>1, <2>1 DEF ToolTypeOK, Kept
<1>4. ASSUME NEW d \in Calls, d # c
      PROVE  /\ call'[d].sid \in issued' \cup {None}
             /\ Left(d)' => meta'[call'[d].sid] # "open"
  <2>1. call'[d] = call[d]
    BY <1>4 DEF Kept
  <2>2. call[d].sid \in issued \cup {None} /\ Left(d) => meta[call[d].sid] # "open"
    BY Holding
  <2>3. Left(d) => call[d].sid \in issued
    BY <2>2, Holding, CallTyped DEF Left, Naming, HeldHere
  <2>4. QED BY <1>1, <2>1, <2>2, <2>3, Holding DEF Left
<1>5. CallsHold'
  BY <1>4 DEF Kept, CallsHold, IsOpen
<1>6. QED BY <1>3, <1>5 DEF HeldHere

(* Every step is one command, and keeps the types and what calls hold.     *)
LEMMA StepHolds ==
  ASSUME HeldHere, [Next]_vars
  PROVE  HeldHere' /\ Command
<1>1. ASSUME NEW c \in Calls, Start(c) \/ CallStep(c) \/ Cut(c)
      PROVE  HeldHere' /\ Command
  <2>1. Kept(c)
    BY <1>1, StartKeeps, ReadKeeps, WriteKeeps DEF CallStep
  <2>2. QED BY <2>1, KeptHolds DEF Kept
<1>2. ASSUME Command, UNCHANGED call, UNCHANGED landed, UNCHANGED handed, mishaps' \in Nat,
             active' \in [Agents -> issued \cup {None}],
             pin' \in [Agents -> issued \cup {None}]
      PROVE  HeldHere'
  <2>1. /\ WMTypeOK' /\ issued \subseteq issued'
        /\ \A s \in issued : meta[s] # "open" => meta'[s] # "open"
    BY <1>2, CommandTyped, CommandKeeps, Holding
  <2>2. issued' \subseteq Sessions
    BY <2>1 DEF WMTypeOK
  <2>3. active' \in [Agents -> issued' \cup {None}] /\ pin' \in [Agents -> issued' \cup {None}]
    BY <1>2, <2>1
  <2>4. active' \in [Agents -> Sessions \cup {None}] /\ pin' \in [Agents -> Sessions \cup {None}]
    BY <2>2, <2>3
  <2>5. ToolTypeOK'
    BY <1>2, <2>1, <2>4 DEF HeldHere, ToolTypeOK
  <2>6. ASSUME NEW d \in Calls
        PROVE  /\ call'[d].sid \in issued' \cup {None}
               /\ Left(d)' => meta'[call'[d].sid] # "open"
    <3>1. /\ call[d].sid \in issued \cup {None} /\ call'[d] = call[d]
          /\ Left(d) => meta[call[d].sid] # "open"
      BY <1>2, Holding
    <3>2. Left(d) => call[d].sid \in issued
      BY <3>1, Holding DEF Left, Naming
    <3>3. QED BY <2>1, <3>1, <3>2 DEF Left
  <2>7. CallsHold'
    BY <2>3, <2>6 DEF CallsHold, IsOpen
  <2>8. QED BY <2>5, <2>7 DEF HeldHere
<1>3. mishaps \in Nat /\ active \in [Agents -> issued \cup {None}]
      /\ pin \in [Agents -> issued \cup {None}]
  BY Holding DEF HeldHere, ToolTypeOK
<1>4. ASSUME NEW a \in Agents, ExpireKey(a)
      PROVE  HeldHere' /\ Command
  <2>1. Command /\ UNCHANGED <<call, landed, handed>> /\ mishaps' = mishaps + 1
    BY <1>4 DEF ExpireKey, Mishap, Command
  <2>2. \/ active' = [active EXCEPT ![a] = None] /\ UNCHANGED pin
        \/ pin' = [pin EXCEPT ![a] = None] /\ UNCHANGED active
    BY <1>4 DEF ExpireKey
  <2>3. active' \in [Agents -> issued \cup {None}] /\ pin' \in [Agents -> issued \cup {None}]
    BY <1>3, <2>2
  <2>4. mishaps' \in Nat
    BY <1>3, <2>1
  <2>5. QED BY <1>2, <2>1, <2>3, <2>4
<1>5. ASSUME NEW s \in Sessions, Expire(s)
      PROVE  HeldHere' /\ Command
  <2>1. Command /\ UNCHANGED <<call, landed, handed, active, pin>> /\ mishaps' = mishaps + 1
    BY <1>5 DEF Expire, Mishap, Command, redisKeys
  <2>2. mishaps' \in Nat
    BY <1>3, <2>1
  <2>3. QED BY <1>2, <1>3, <2>1, <2>2
<1>6. CASE Elsewhere
  <2>1. Command /\ UNCHANGED <<call, landed, handed, active, pin>> /\ mishaps' = mishaps + 1
    BY <1>6 DEF Elsewhere, Mishap, Command, redisKeys, wmVars
  <2>2. mishaps' \in Nat
    BY <1>3, <2>1
  <2>3. QED BY <1>2, <1>3, <2>1, <2>2
<1>7. CASE Worker
  <2>1. Command /\ UNCHANGED <<call, landed, handed, active, pin, mishaps>>
    BY <1>7 DEF Worker, Command, redisKeys, history
  <2>2. QED BY <1>2, <1>3, <2>1
<1>8. CASE UNCHANGED vars
  <2>1. Command /\ UNCHANGED <<call, landed, handed, active, pin, mishaps>>
    BY <1>8 DEF vars, Command
  <2>2. QED BY <1>2, <1>3, <2>1
<1>9. QED BY <1>1, <1>4, <1>5, <1>6, <1>7, <1>8 DEF Next

LEMMA InitHolds == Init => HeldHere /\ JobOnlyForClosed
<1> SUFFICES ASSUME Init PROVE HeldHere /\ JobOnlyForClosed
  OBVIOUS
<1>1. WMTypeOK
  BY InitTyped DEF Init
<1>2. ToolTypeOK
  BY <1>1 DEF Init, ToolTypeOK, Fresh, Local, Naming
<1>3. CallsHold
  BY DEF Init, CallsHold, Fresh, Left
<1>4. JobSids = {}
  BY DEF Init, WMInit, JobSids, QueuedJobs, JobsInHand, DeadJobs, Idle
<1>5. QED BY <1>2, <1>3, <1>4 DEF HeldHere, JobOnlyForClosed

(* Every reachable state is well typed, and a call never names an absent   *)
(* session where the code dereferences one.                                *)
THEOREM TypeCorrect == Spec => []ToolTypeOK
<1>1. Init => HeldHere
  BY InitHolds
<1>2. HeldHere /\ [Next]_vars => HeldHere'
  BY StepHolds
<1>3. HeldHere => ToolTypeOK
  BY DEF HeldHere
<1>4. QED BY <1>1, <1>2, <1>3, PTL DEF Spec

(* Where a job is about to be pushed, or another session to be opened in   *)
(* the place of one, that one takes no turns any more.                     *)
THEOREM ReplacedAreClosed == Spec => []CallsHold
<1>1. Init => HeldHere
  BY InitHolds
<1>2. HeldHere /\ [Next]_vars => HeldHere'
  BY StepHolds
<1>3. HeldHere => CallsHold
  BY DEF HeldHere
<1>4. QED BY <1>1, <1>2, <1>3, PTL DEF Spec

(* The session tools, the chat gateway and the distill worker together     *)
(* implement the contract of a session.                                    *)
THEOREM ToolsRefineContract == Spec => ContractSpec
<1> DEFINE Inv == HeldHere /\ JobOnlyForClosed
<1>1. Init => Inv
  BY InitHolds
<1>2. Inv /\ [Next]_vars => Inv'
  BY StepHolds, CommandJobs, Holding
<1>3. Init => Contract!Init
  BY DEF Init, WMInit, Contract!Init, Phase, Due, QueuedJobs, JobsInHand, Idle
<1>4. Inv /\ [Next]_vars => [Contract!Next]_(Contract!contract)
  BY StepHolds, CommandRefines, Holding DEF Contract!contract
<1>5. QED
  BY <1>1, <1>2, <1>3, <1>4, PTL DEF ContractSpec, Contract!Spec, Spec

----------------------------------------------------------------------------
(* Where the turns land.                                                   *)

Appending == {"owner", "check", "push", "reopen", "recheck", "repush"}
Closing == {"close owner", "close meta", "close mark", "close push"}
Replacing == {"ensure", "rotate"}

(* Which operation may be where, and which of them say something.          *)
Scripted(l) ==
  /\ l.pc = "new" => l.sid = None
  /\ l.pc = "pointer" => l.op \in Replacing \cup {"commit", "commit close"}
  /\ l.pc \in {"inspect", "set"} => l.op \in Replacing
  /\ l.pc \in {"pin", "pinned", "set pin"} => l.op = "chat"
  /\ l.pc = "open" => l.op \in Replacing \cup {"open", "commit", "commit close", "ask", "chat"}
  /\ l.pc \in Appending \cup {"reset"} => l.says
  /\ l.pc = "close owner" => l.op \in {"commit close", "close", "discard"}
  /\ l.pc \in Closing => l.op \in Replacing \cup {"commit close", "close", "discard"}
  /\ l.pc = "close push" => l.op # "discard"
  /\ l.pc = "clear" => l.op = "commit close"
  /\ l.pc = "new" \/ l.op = "chat" => l.as = None
  /\ l.pc # "new" /\ l.op \in {"open", "close", "discard", "chat"} => ~ l.says
  /\ l.pc # "new" /\ l.op \in {"append", "answer", "commit", "commit close", "ask"} => l.says

(* Before and after the turn of a call is listed.                          *)
Before(l) ==
  \/ l.pc \in {"new", "pointer", "inspect", "pin", "pinned", "open", "set", "set pin"} \cup Appending
  \/ l.pc \in Closing /\ l.op \in Replacing
  \/ ~ l.says
After(l) ==
  /\ l.says
  /\ \/ l.pc \in {"reset", "clear", "done"}
     \/ l.pc \in Closing /\ l.op = "commit close"

(* What has landed, and whose session a call is about to write to.         *)
Lands(c, l, listed, owner) ==
  /\ listed \subseteq {l.sid}
  /\ Before(l) => listed = {}
  /\ After(l) => listed = {l.sid}
  /\ \A s \in listed : owner[s] = Caller[c]
  /\ l.pc \in {"set pin", "check", "push", "recheck", "repush", "reset"} =>
       owner[l.sid] = Caller[c]
  /\ l.pc = "set" => owner[l.sid] = IF l.as = None THEN Caller[c] ELSE l.as

TurnInv ==
  \A c \in Calls : Scripted(call[c]) /\ Lands(c, call[c], landed[c], agentOf)

(* What has landed keeps its owner.                                        *)
LEMMA LandedKeeps ==
  ASSUME HeldHere, TurnInv, Command, NEW c \in Calls
  PROVE  \A s \in landed[c] : agentOf'[s] = Caller[c]
<1>1. Lands(c, call[c], landed[c], agentOf)
  BY DEF TurnInv
<1>2. landed[c] \subseteq {call[c].sid} /\ landed[c] \subseteq Sessions
  BY <1>1 DEF Lands, HeldHere, ToolTypeOK
<1>3. call[c].sid \in issued \cup {None} /\ None \notin Sessions /\ WMTypeOK
  BY Holding
<1>4. \A s \in issued : agentOf'[s] = agentOf[s]
  BY <1>3, CommandKeeps
<1>5. QED BY <1>1, <1>2, <1>3, <1>4 DEF Lands

(* A call that stays where it is.                                          *)
LEMMA StayLands ==
  ASSUME HeldHere, TurnInv, Command, NEW c \in Calls,
         call'[c] = call[c], landed'[c] = landed[c]
  PROVE  Scripted(call'[c]) /\ Lands(c, call'[c], landed'[c], agentOf')
<1>1. Scripted(call[c]) /\ Lands(c, call[c], landed[c], agentOf)
  BY DEF TurnInv
<1>2. \A s \in issued : agentOf'[s] = agentOf[s]
  BY CommandKeeps, Holding
<1>3. call[c].pc \in Naming => call[c].sid \in issued
  BY Holding
<1>4. \A s \in landed[c] : agentOf'[s] = Caller[c]
  BY LandedKeeps
<1>5. QED BY <1>1, <1>2, <1>3, <1>4 DEF Lands, Naming

(* A call that reads, or sets a pointer, lists nothing.                    *)
LEMMA ReadLands ==
  ASSUME HeldHere, TurnInv, NEW c \in Calls,
         \/ GetPointer(c) \/ Inspect(c) \/ GetPin(c) \/ CheckPinned(c)
         \/ Owner(c) \/ Check(c) \/ Recheck(c) \/ CloseOwner(c) \/ CloseMeta(c)
         \/ Cut(c) \/ SetActive(c) \/ SetPin(c) \/ Reset(c) \/ CloseMark(c)
         \/ ClosePush(c) \/ Clear(c)
  PROVE  Scripted(call'[c]) /\ Lands(c, call'[c], landed'[c], agentOf')
<1>1. Scripted(call[c]) /\ Lands(c, call[c], landed[c], agentOf)
  BY DEF TurnInv
<1>2. ToolTypeOK /\ call \in [Calls -> Local]
  BY DEF HeldHere, ToolTypeOK
<1>3. UNCHANGED <<agentOf, landed>>
  BY DEF GetPointer, Inspect, GetPin, CheckPinned, Owner, Check, Recheck,
         CloseOwner, CloseMeta, Cut, SetActive, SetPin, Reset, CloseMark,
         ClosePush, Clear, Mishap, wmVars, history, MarkClosed, store
<1>4. SUFFICES Scripted(call'[c]) /\ Lands(c, call'[c], landed[c], agentOf)
  BY <1>3
<1>5. ASSUME NEW pc, NEW s, Hold(c, s, pc) \/ (s = call[c].sid /\ Goto(c, pc))
      PROVE  /\ call'[c].pc = pc /\ call'[c].sid = s
             /\ call'[c].op = call[c].op /\ call'[c].says = call[c].says
             /\ call'[c].as = call[c].as
  BY <1>2, <1>5 DEF Hold, Goto, Local
<1> USE DEF Scripted, Lands, Before, After, Appending, Closing
<1>6. CASE GetPointer(c)
  <2>1. PICK pc \in {"open", "inspect", "owner"} :
          /\ call[c].pc = "pointer"
          /\ Hold(c, active[Caller[c]], pc)
          /\ pc = "owner" => call[c].op \notin Replacing
          /\ pc = "inspect" => call[c].op \in Replacing
    BY <1>1, <1>6 DEF GetPointer, Replacing
  <2>2. /\ call'[c].pc = pc /\ call'[c].sid = active[Caller[c]]
        /\ call'[c].op = call[c].op /\ call'[c].says = call[c].says /\ call'[c].as = call[c].as
    BY <1>5, <2>1
  <2>3. QED BY <1>1, <2>1, <2>2 DEF Replacing
<1>7. CASE Inspect(c)
  <2>1. PICK pc \in {"close meta", "owner", "done"} :
          /\ call[c].pc = "inspect"
          /\ Goto(c, pc)
          /\ pc = "owner" => call[c].says
          /\ pc = "done" => ~ call[c].says
    BY <1>1, <1>7 DEF Inspect
  <2>2. /\ call'[c].pc = pc /\ call'[c].sid = call[c].sid
        /\ call'[c].op = call[c].op /\ call'[c].says = call[c].says /\ call'[c].as = call[c].as
    BY <1>5, <2>1
  <2>3. QED BY <1>1, <2>1, <2>2 DEF Replacing
<1>8. CASE GetPin(c)
  <2>1. PICK pc \in {"open", "pinned"} :
          /\ call[c].pc = "pin"
          /\ Hold(c, pin[Caller[c]], pc)
    BY <1>1, <1>8 DEF GetPin
  <2>2. /\ call'[c].pc = pc /\ call'[c].sid = pin[Caller[c]]
        /\ call'[c].op = call[c].op /\ call'[c].says = call[c].says /\ call'[c].as = call[c].as
    BY <1>5, <2>1
  <2>3. QED BY <1>1, <2>1, <2>2 DEF Replacing
<1>9. CASE CheckPinned(c)
  <2>1. PICK pc \in {"done", "open"} :
          /\ call[c].pc = "pinned"
          /\ Goto(c, pc)
    BY <1>1, <1>9 DEF CheckPinned
  <2>2. /\ call'[c].pc = pc /\ call'[c].sid = call[c].sid
        /\ call'[c].op = call[c].op /\ call'[c].says = call[c].says /\ call'[c].as = call[c].as
    BY <1>5, <2>1
  <2>3. QED BY <1>1, <2>1, <2>2 DEF Replacing
<1>10. CASE Owner(c)
  <2>1. PICK pc \in {"reopen", "check", "raised"} :
          /\ call[c].pc = "owner"
          /\ Goto(c, pc)
          /\ pc = "check" => agentOf[call[c].sid] = Caller[c]
    BY <1>1, <1>10 DEF Owner, Owned
  <2>2. /\ call'[c].pc = pc /\ call'[c].sid = call[c].sid
        /\ call'[c].op = call[c].op /\ call'[c].says = call[c].says /\ call'[c].as = call[c].as
    BY <1>5, <2>1
  <2>3. QED BY <1>1, <2>1, <2>2 DEF Replacing
<1>11. CASE Check(c)
  <2>1. PICK pc \in {"push", "reopen"} :
          /\ call[c].pc = "check"
          /\ Goto(c, pc)
    BY <1>1, <1>11 DEF Check
  <2>2. /\ call'[c].pc = pc /\ call'[c].sid = call[c].sid
        /\ call'[c].op = call[c].op /\ call'[c].says = call[c].says /\ call'[c].as = call[c].as
    BY <1>5, <2>1
  <2>3. QED BY <1>1, <2>1, <2>2 DEF Replacing
<1>12. CASE Recheck(c)
  <2>1. PICK pc \in {"repush", "raised"} :
          /\ call[c].pc = "recheck"
          /\ Goto(c, pc)
    BY <1>1, <1>12 DEF Recheck
  <2>2. /\ call'[c].pc = pc /\ call'[c].sid = call[c].sid
        /\ call'[c].op = call[c].op /\ call'[c].says = call[c].says /\ call'[c].as = call[c].as
    BY <1>5, <2>1
  <2>3. QED BY <1>1, <2>1, <2>2 DEF Replacing
<1>13. CASE CloseOwner(c)
  <2>1. PICK pc \in {"close meta", "raised"} :
          /\ call[c].pc = "close owner"
          /\ Goto(c, pc)
    BY <1>1, <1>13 DEF CloseOwner
  <2>2. /\ call'[c].pc = pc /\ call'[c].sid = call[c].sid
        /\ call'[c].op = call[c].op /\ call'[c].says = call[c].says /\ call'[c].as = call[c].as
    BY <1>5, <2>1
  <2>3. QED BY <1>1, <2>1, <2>2 DEF Replacing
<1>14. CASE CloseMeta(c)
  <2>1. PICK pc \in {"close mark", "open", "raised"} :
          /\ call[c].pc = "close meta"
          /\ Goto(c, pc)
          /\ pc = "open" => call[c].op \in Replacing
    BY <1>1, <1>14 DEF CloseMeta, Replacing
  <2>2. /\ call'[c].pc = pc /\ call'[c].sid = call[c].sid
        /\ call'[c].op = call[c].op /\ call'[c].says = call[c].says /\ call'[c].as = call[c].as
    BY <1>5, <2>1
  <2>3. QED BY <1>1, <2>1, <2>2 DEF Replacing
<1>15. CASE Cut(c)
  <2>1. PICK pc \in {"cut"} :
          /\ call[c].pc \notin {"new"} \cup Ended
          /\ Goto(c, pc)
    BY <1>1, <1>15 DEF Cut, Naming, Asking, Ended
  <2>2. /\ call'[c].pc = pc /\ call'[c].sid = call[c].sid
        /\ call'[c].op = call[c].op /\ call'[c].says = call[c].says /\ call'[c].as = call[c].as
    BY <1>5, <2>1
  <2>3. QED BY <1>1, <2>1, <2>2 DEF Replacing, Ended
<1>16. CASE SetActive(c)
  <2>1. PICK pc \in {"owner", "done"} :
          /\ call[c].pc = "set"
          /\ Goto(c, pc)
          /\ pc = "owner" <=> call[c].says
    BY <1>1, <1>16 DEF SetActive
  <2>2. /\ call'[c].pc = pc /\ call'[c].sid = call[c].sid
        /\ call'[c].op = call[c].op /\ call'[c].says = call[c].says /\ call'[c].as = call[c].as
    BY <1>5, <2>1
  <2>3. QED BY <1>1, <2>1, <2>2 DEF Replacing
<1>17. CASE SetPin(c)
  <2>1. PICK pc \in {"done"} :
          /\ call[c].pc = "set pin"
          /\ Goto(c, pc)
    BY <1>1, <1>17 DEF SetPin
  <2>2. /\ call'[c].pc = pc /\ call'[c].sid = call[c].sid
        /\ call'[c].op = call[c].op /\ call'[c].says = call[c].says /\ call'[c].as = call[c].as
    BY <1>5, <2>1
  <2>3. QED BY <1>1, <2>1, <2>2 DEF Replacing
<1>18. CASE Reset(c)
  <2>1. PICK pc \in {"close owner", "done"} :
          /\ call[c].pc = "reset"
          /\ Goto(c, pc)
          /\ pc = "close owner" <=> call[c].op = "commit close"
    BY <1>1, <1>18 DEF Reset, AfterAppend
  <2>2. /\ call'[c].pc = pc /\ call'[c].sid = call[c].sid
        /\ call'[c].op = call[c].op /\ call'[c].says = call[c].says /\ call'[c].as = call[c].as
    BY <1>5, <2>1
  <2>3. QED BY <1>1, <2>1, <2>2 DEF Replacing
<1>19. CASE CloseMark(c)
  <2>1. PICK pc \in {"done", "close push"} :
          /\ call[c].pc = "close mark"
          /\ Goto(c, pc)
          /\ pc = "done" <=> call[c].op = "discard"
    BY <1>1, <1>19 DEF CloseMark
  <2>2. /\ call'[c].pc = pc /\ call'[c].sid = call[c].sid
        /\ call'[c].op = call[c].op /\ call'[c].says = call[c].says /\ call'[c].as = call[c].as
    BY <1>5, <2>1
  <2>3. QED BY <1>1, <2>1, <2>2 DEF Replacing
<1>20. CASE ClosePush(c)
  <2>1. PICK pc \in {"open", "clear", "done"} :
          /\ call[c].pc = "close push"
          /\ Goto(c, pc)
          /\ pc = "open" <=> call[c].op \in Replacing
          /\ pc = "clear" <=> call[c].op = "commit close"
    BY <1>1, <1>20 DEF ClosePush, Replacing
  <2>2. /\ call'[c].pc = pc /\ call'[c].sid = call[c].sid
        /\ call'[c].op = call[c].op /\ call'[c].says = call[c].says /\ call'[c].as = call[c].as
    BY <1>5, <2>1
  <2>3. QED BY <1>1, <2>1, <2>2 DEF Replacing
<1>21. CASE Clear(c)
  <2>1. PICK pc \in {"done"} :
          /\ call[c].pc = "clear"
          /\ Goto(c, pc)
    BY <1>1, <1>21 DEF Clear
  <2>2. /\ call'[c].pc = pc /\ call'[c].sid = call[c].sid
        /\ call'[c].op = call[c].op /\ call'[c].says = call[c].says /\ call'[c].as = call[c].as
    BY <1>5, <2>1
  <2>3. QED BY <1>1, <2>1, <2>2 DEF Replacing
<1>22. QED
  BY <1>6, <1>7, <1>8, <1>9, <1>10, <1>11, <1>12, <1>13, <1>14, <1>15, <1>16, <1>17, <1>18, <1>19, <1>20, <1>21

(* A call that opens a session owns it.                                    *)
LEMMA OpenLands ==
  ASSUME HeldHere, TurnInv, NEW c \in Calls, Open(c) \/ Reopen(c)
  PROVE  Scripted(call'[c]) /\ Lands(c, call'[c], landed'[c], agentOf')
<1>1. Scripted(call[c]) /\ Lands(c, call[c], landed[c], agentOf)
  BY DEF TurnInv
<1>2. call \in [Calls -> Local] /\ agentOf \in [Sessions -> Agents \cup {None}]
  BY DEF HeldHere, ToolTypeOK, WMTypeOK
<1>3. PICK s \in Sessions, pc \in {"set", "set pin", "done", "owner", "recheck"} :
        /\ call[c].pc \in {"open", "reopen"}
        /\ OpenSession(s, IF pc = "recheck" THEN Caller[c] ELSE Writer(c)) /\ Hold(c, s, pc)
        /\ pc = "set" => call[c].op \in Replacing
        /\ pc = "set pin" => call[c].op = "chat"
        /\ pc = "done" => call[c].op = "open"
        /\ pc = "owner" => call[c].pc = "open" /\ call[c].op \notin Replacing \cup {"chat", "open"}
        /\ pc = "recheck" => call[c].pc = "reopen"
  <2>1. CASE Open(c)
    <3>1. PICK s \in Sessions :
            /\ OpenSession(s, Writer(c))
            /\ Hold(c, s, CASE call[c].op \in {"ensure", "rotate"} -> "set"
                            [] call[c].op = "chat" -> "set pin"
                            [] call[c].op = "open" -> "done"
                            [] OTHER -> "owner")
      BY <2>1 DEF Open
    <3>2. PICK pc \in {"set", "set pin", "done", "owner"} :
            /\ Hold(c, s, pc)
            /\ pc = "set" => call[c].op \in Replacing
            /\ pc = "set pin" => call[c].op = "chat"
            /\ pc = "done" => call[c].op = "open"
            /\ pc = "owner" => call[c].op \notin Replacing \cup {"chat", "open"}
      BY <3>1 DEF Replacing
    <3>3. call[c].pc = "open"
      BY <2>1 DEF Open
    <3>4. QED BY <3>1, <3>2, <3>3
  <2>2. CASE Reopen(c)
    BY <2>2 DEF Reopen
  <2>3. QED BY <2>1, <2>2
<1>4. landed' = landed
  BY DEF Open, Reopen, history
<1>5. agentOf'[s] = IF pc = "recheck" \/ call[c].as = None THEN Caller[c] ELSE call[c].as
  BY <1>2, <1>3 DEF OpenSession, Writer
<1>6. /\ call'[c].pc = pc /\ call'[c].sid = s
      /\ call'[c].op = call[c].op /\ call'[c].says = call[c].says /\ call'[c].as = call[c].as
  BY <1>2, <1>3 DEF Hold, Local
<1>7. landed[c] = {}
  BY <1>1, <1>3 DEF Lands, Before, Appending
<1>8. Scripted(call'[c])
  BY <1>1, <1>3, <1>6 DEF Scripted, Appending, Closing, Replacing
<1>9. ~ After(call'[c])
  BY <1>1, <1>3, <1>6 DEF Scripted, After, Closing
<1>10. pc = "set pin" => call[c].as = None
  BY <1>1, <1>3 DEF Scripted
<1>11. QED
  BY <1>3, <1>4, <1>5, <1>6, <1>7, <1>8, <1>9, <1>10 DEF Lands

(* A call that lists its turn lists it in the session it names, once.      *)
LEMMA PushLands ==
  ASSUME HeldHere, TurnInv, NEW c \in Calls, Push(c) \/ Repush(c)
  PROVE  Scripted(call'[c]) /\ Lands(c, call'[c], landed'[c], agentOf')
<1>1. Scripted(call[c]) /\ Lands(c, call[c], landed[c], agentOf)
  BY DEF TurnInv
<1>2. call \in [Calls -> Local] /\ landed \in [Calls -> SUBSET Sessions]
  BY DEF HeldHere, ToolTypeOK
<1>3. PICK pc \in {"done", "reset", "close owner"} :
        /\ Goto(c, pc) /\ call[c].pc \in {"push", "repush"}
        /\ pc = "close owner" => call[c].op = "commit close"
  BY DEF Push, Repush, AfterAppend
<1>4. /\ landed' = [landed EXCEPT ![c] = @ \cup {call[c].sid}]
      /\ agentOf' = agentOf
  BY DEF Push, Repush, Land, PushTurn
<1>5. /\ call'[c].pc = pc /\ call'[c].sid = call[c].sid
      /\ call'[c].op = call[c].op /\ call'[c].says = call[c].says /\ call'[c].as = call[c].as
  BY <1>2, <1>3 DEF Goto, Local
<1>6. landed[c] = {} /\ agentOf[call[c].sid] = Caller[c] /\ call[c].says
  BY <1>1, <1>3 DEF Lands, Before, Appending, Scripted
<1>7. landed'[c] = {call[c].sid}
  BY <1>2, <1>4, <1>6
<1>8. Scripted(call'[c])
  BY <1>1, <1>3, <1>5 DEF Scripted, Appending, Closing
<1>9. ~ Before(call'[c])
  BY <1>1, <1>3, <1>5, <1>6 DEF Before, Appending, Closing, Replacing
<1>10. QED
  BY <1>4, <1>5, <1>6, <1>7, <1>8, <1>9 DEF Lands

LEMMA StartLands ==
  ASSUME HeldHere, TurnInv, NEW c \in Calls, Start(c)
  PROVE  Scripted(call'[c]) /\ Lands(c, call'[c], landed'[c], agentOf')
<1>1. Scripted(call[c]) /\ Lands(c, call[c], landed[c], agentOf)
  BY DEF TurnInv
<1>2. call \in [Calls -> Local]
  BY DEF HeldHere, ToolTypeOK
<1>3. landed[c] = {} /\ UNCHANGED <<landed, agentOf>>
  BY <1>1 DEF Start, Room, Lands, Before, wmVars, history
<1>0. ASSUME NEW a, NEW op, NEW s, NEW says, NEW pc, BeginAs(c, a, op, s, says, pc)
      PROVE  /\ call'[c].pc = pc /\ call'[c].op = op
             /\ call'[c].sid = s /\ call'[c].says = says /\ call'[c].as = a
  BY <1>2, <1>0 DEF BeginAs
<1>4. ASSUME NEW op, NEW s, NEW says, NEW pc, Begin(c, op, s, says, pc)
      PROVE  /\ call'[c].pc = pc /\ call'[c].op = op
             /\ call'[c].sid = s /\ call'[c].says = says /\ call'[c].as = None
  BY <1>0, <1>4 DEF Begin
<1>5. \/ call'[c].pc = "open" /\ call'[c].op = "open" /\ ~ call'[c].says
      \/ call'[c].pc = "pointer" /\ call'[c].op \in Replacing
      \/ call'[c].pc = "pointer" /\ call'[c].op \in {"commit", "commit close"} /\ call'[c].says
      \/ call'[c].pc = "owner" /\ call'[c].says
           /\ call'[c].op \in {"append", "answer", "commit", "commit close"}
      \/ call'[c].pc = "close owner" /\ call'[c].op \in {"close", "discard"} /\ ~ call'[c].says
      \/ call'[c].pc = "open" /\ call'[c].op = "ask" /\ call'[c].says
      \/ call'[c].pc = "pin" /\ call'[c].op = "chat" /\ ~ call'[c].says /\ call'[c].as = None
  <2>1. ASSUME NEW a, BeginAs(c, a, "open", None, FALSE, "open")
        PROVE  call'[c].pc = "open" /\ call'[c].op = "open" /\ ~ call'[c].says
    BY <1>0, <2>1
  <2>2. ASSUME NEW a, NEW op \in {"ensure", "rotate"}, NEW user \in BOOLEAN,
               BeginAs(c, a, op, None, user, "pointer")
        PROVE  call'[c].pc = "pointer" /\ call'[c].op \in Replacing
    BY <1>0, <2>2 DEF Replacing
  <2>3. ASSUME NEW op \in {"append", "answer", "commit", "commit close"},
               NEW s \in issued, Begin(c, op, s, TRUE, "owner")
        PROVE  call'[c].pc = "owner" /\ call'[c].says /\ call'[c].op = op
    BY <1>4, <2>3
  <2>4. ASSUME NEW op \in {"commit", "commit close"}, Begin(c, op, None, TRUE, "pointer")
        PROVE  call'[c].pc = "pointer" /\ call'[c].op = op /\ call'[c].says
    BY <1>4, <2>4
  <2>5. ASSUME NEW op \in {"close", "discard"}, NEW s \in issued,
               Begin(c, op, s, FALSE, "close owner")
        PROVE  call'[c].pc = "close owner" /\ call'[c].op = op /\ ~ call'[c].says
    BY <1>4, <2>5
  <2>6. CASE Begin(c, "ask", None, TRUE, "open")
    BY <1>4, <2>6
  <2>7. CASE Begin(c, "chat", None, FALSE, "pin")
    BY <1>4, <2>7
  <2>8. QED
    BY <2>1, <2>2, <2>3, <2>4, <2>5, <2>6, <2>7
    DEF Start, ToOpen, ToEnsure, ToAppend, ToCommit, ToClose, ToSay, ToResolve
<1>6. Scripted(call'[c])
  BY <1>5 DEF Scripted, Appending, Closing, Replacing
<1>7. ~ After(call'[c])
  BY <1>5 DEF After, Closing
<1>8. QED BY <1>3, <1>5, <1>6, <1>7 DEF Lands

(* Every step keeps to the script and to what may land where.              *)
LEMMA StepTurns ==
  ASSUME HeldHere, TurnInv, [Next]_vars
  PROVE  TurnInv'
<1>1. Command /\ HeldHere'
  BY StepHolds
<1>2. ASSUME NEW c \in Calls, Start(c) \/ CallStep(c) \/ Cut(c)
      PROVE  TurnInv'
  <2>1. Scripted(call'[c]) /\ Lands(c, call'[c], landed'[c], agentOf')
    BY <1>2, StartLands, ReadLands, OpenLands, PushLands DEF CallStep
  <2>2. ASSUME NEW d \in Calls, d # c
        PROVE  call'[d] = call[d] /\ landed'[d] = landed[d]
    <3>1. call'[d] = call[d]
      BY <1>2, <2>2, StartKeeps, ReadKeeps, WriteKeeps DEF CallStep, Kept
    <3>2. landed' = landed \/ landed' = [landed EXCEPT ![c] = @ \cup {call[c].sid}]
      BY <1>2 DEF Start, CallStep, Cut, Mishap, GetPointer, Inspect, GetPin,
                  CheckPinned, Open, SetActive, SetPin, Owner, Check, Push,
                  Reopen, Recheck, Repush, Reset, CloseOwner, CloseMeta,
                  CloseMark, ClosePush, Clear, Land, history
    <3>3. landed \in [Calls -> SUBSET Sessions]
      BY DEF HeldHere, ToolTypeOK
    <3>4. QED BY <2>2, <3>1, <3>2, <3>3
  <2>3. QED BY <1>1, <2>1, <2>2, StayLands DEF TurnInv
<1>3. ASSUME UNCHANGED <<call, landed>>
      PROVE  TurnInv'
  BY <1>1, <1>3, StayLands DEF TurnInv
<1>4. ASSUME \/ \E a \in Agents : ExpireKey(a)
             \/ \E s \in Sessions : Expire(s)
             \/ Elsewhere \/ Worker \/ UNCHANGED vars
      PROVE  UNCHANGED <<call, landed>>
  BY <1>4 DEF ExpireKey, Expire, Elsewhere, Worker, vars, Mishap, history
<1>5. QED BY <1>2, <1>3, <1>4 DEF Next

LEMMA InitTurns == Init => TurnInv
<1> SUFFICES ASSUME Init, NEW c \in Calls
             PROVE  Scripted(call[c]) /\ Lands(c, call[c], landed[c], agentOf)
  BY DEF TurnInv
<1>1. /\ call[c].pc = "new" /\ call[c].sid = None /\ ~ call[c].says /\ call[c].as = None
      /\ landed[c] = {}
  BY DEF Init, Fresh
<1>2. Scripted(call[c])
  BY <1>1 DEF Scripted, Appending, Closing
<1>3. Lands(c, call[c], landed[c], agentOf)
  BY <1>1 DEF Lands, After
<1>4. QED BY <1>2, <1>3

(* A call that returned has its turn in the one session it answers with,   *)
(* a session of its caller; one that raised has it nowhere else.           *)
THEOREM TurnsLandOnce == Spec => []TurnsLand
<1> DEFINE Inv == HeldHere /\ TurnInv
<1>1. Init => Inv
  BY InitHolds, InitTurns
<1>2. Inv /\ [Next]_vars => Inv'
  BY StepHolds, StepTurns
<1>3. Inv => TurnsLand
  BY DEF TurnInv, TurnsLand, Lands, After
<1>4. QED BY <1>1, <1>2, <1>3, PTL DEF Spec

----------------------------------------------------------------------------
(* Where the pointers lead.                                                *)

(* A pointer is dropped, or set by a call to the session it holds.         *)
Led(a, now, nowPin) ==
  /\ \/ now \in {active[a], None}
     \/ \E c \in Calls : /\ call[c].pc \in {"set", "reset"} /\ Caller[c] = a
                         /\ now = call[c].sid
  /\ \/ nowPin \in {pin[a], None}
     \/ \E c \in Calls : /\ call[c].pc = "set pin" /\ Caller[c] = a
                         /\ nowPin = call[c].sid

LEMMA PointerMoves ==
  ASSUME HeldHere, [Next]_vars, NEW a \in Agents
  PROVE  Led(a, active'[a], pin'[a])
<1>1. DOMAIN active = Agents /\ DOMAIN pin = Agents
  BY Holding
<1>2. CASE UNCHANGED <<active, pin>>
  BY <1>2 DEF Led
<1>3. ASSUME NEW c \in Calls, SetActive(c) \/ SetPin(c) \/ Reset(c) \/ Clear(c)
      PROVE  /\ \/ active'[a] \in {active[a], None}
                \/ /\ call[c].pc \in {"set", "reset"} /\ Caller[c] = a
                   /\ active'[a] = call[c].sid
             /\ \/ pin'[a] \in {pin[a], None}
                \/ /\ call[c].pc = "set pin" /\ Caller[c] = a
                   /\ pin'[a] = call[c].sid
  BY <1>1, <1>3 DEF SetActive, SetPin, Reset, Clear
<1>4. ASSUME NEW b \in Agents, ExpireKey(b)
      PROVE  active'[a] \in {active[a], None} /\ pin'[a] \in {pin[a], None}
  BY <1>1, <1>4 DEF ExpireKey
<1>5. \/ UNCHANGED <<active, pin>>
      \/ \E c \in Calls : SetActive(c) \/ SetPin(c) \/ Reset(c) \/ Clear(c)
      \/ \E b \in Agents : ExpireKey(b)
  BY DEF Next, vars, Start, CallStep, Cut, GetPointer, Inspect, GetPin, CheckPinned,
         Open, Owner, Check, Push, Reopen, Recheck, Repush, CloseOwner, CloseMeta,
         CloseMark, ClosePush, Expire, Elsewhere, Worker, redisKeys
<1>6. QED BY <1>2, <1>3, <1>4, <1>5 DEF Led

(* A call that starts leaves the others alone.                             *)
LEMMA BeginOther ==
  ASSUME HeldHere, NEW c \in Calls, NEW d \in Calls \ {c}, NEW a, NEW op, NEW s, NEW says, NEW pc,
         BeginAs(c, a, op, s, says, pc)
  PROVE  call'[d] = call[d]
BY DEF BeginAs, HeldHere, ToolTypeOK

(* A call keeps the name it was given.                                     *)
LEMMA NameStays ==
  ASSUME HeldHere, [Next]_vars, NEW d \in Calls, call[d].pc # "new"
  PROVE  call'[d].as = call[d].as
<1>1. call \in [Calls -> Local]
  BY DEF HeldHere, ToolTypeOK
<1>2. ASSUME NEW c \in Calls, NEW pc, NEW s, Hold(c, s, pc) \/ Goto(c, pc)
      PROVE  call'[d].as = call[d].as
  BY <1>1, <1>2 DEF Hold, Goto, Local
<1>3. ASSUME NEW c \in Calls, Start(c)
      PROVE  call'[d].as = call[d].as
  <2>1. call[c].pc = "new"
    BY <1>3 DEF Start, Room
  <2>2. ASSUME NEW a, NEW op, NEW s, NEW says, NEW pc, BeginAs(c, a, op, s, says, pc)
        PROVE  call'[d] = call[d]
    BY <2>1, <2>2, BeginOther
  <2>3. QED BY <1>3, <2>2
          DEF Start, Begin, ToOpen, ToEnsure, ToAppend, ToCommit, ToClose, ToSay, ToResolve
<1>4. ASSUME NEW c \in Calls, CallStep(c) \/ Cut(c)
      PROVE  \E pc, s : Hold(c, s, pc) \/ Goto(c, pc)
  <2>1. CASE GetPointer(c) \/ Inspect(c) \/ GetPin(c) \/ CheckPinned(c) \/ Open(c) \/ SetActive(c)
    BY <2>1 DEF GetPointer, Inspect, GetPin, CheckPinned, Open, SetActive
  <2>2. CASE SetPin(c) \/ Owner(c) \/ Check(c) \/ Push(c) \/ Reopen(c) \/ Recheck(c) \/ Repush(c)
    BY <2>2 DEF SetPin, Owner, Check, Push, Reopen, Recheck, Repush
  <2>3. CASE Reset(c) \/ CloseOwner(c) \/ CloseMeta(c) \/ CloseMark(c) \/ ClosePush(c) \/ Clear(c) \/ Cut(c)
    BY <2>3 DEF Reset, CloseOwner, CloseMeta, CloseMark, ClosePush, Clear, Cut
  <2>4. QED BY <1>4, <2>1, <2>2, <2>3 DEF CallStep
<1>5. \/ UNCHANGED call
      \/ \E c \in Calls : Start(c) \/ CallStep(c) \/ Cut(c)
  BY DEF Next, vars, ExpireKey, Expire, Elsewhere, Worker
<1>6. QED BY <1>2, <1>3, <1>4, <1>5

(* The pin of an agent leads to a session of its own, and so does the      *)
(* active-session pointer, unless a call of the agent gave another name:   *)
(* then it may lead to a session of that name.                             *)
THEOREM PointersLeadHome == Spec => []PointersOwn
<1> DEFINE Inv == HeldHere /\ TurnInv /\ PointersOwn
           Writes(a, b) == \E c \in Calls : Caller[c] = a /\ Writer(c) = b
<1>1. Init => Inv
  <2>1. Init => PointersOwn
    BY DEF Init, PointersOwn
  <2>2. QED BY <2>1, InitHolds, InitTurns
<1>2. Inv /\ [Next]_vars => Inv'
  <2> SUFFICES ASSUME HeldHere, TurnInv, PointersOwn, [Next]_vars PROVE PointersOwn'
    BY StepHolds, StepTurns
  <2>1. \A s \in issued : agentOf'[s] = agentOf[s]
    BY StepHolds, CommandKeeps, Holding
  <2>2. ASSUME NEW c \in Calls, call[c].pc \in {"set", "set pin", "reset"}
        PROVE  /\ agentOf'[call[c].sid] \in {Caller[c], Writer(c)}
               /\ call[c].pc = "set pin" => agentOf'[call[c].sid] = Caller[c]
    <3>1. call[c].sid \in issued
      BY <2>2, Holding DEF Naming
    <3>2. Lands(c, call[c], landed[c], agentOf)
      BY DEF TurnInv
    <3>3. QED BY <2>1, <2>2, <3>1, <3>2 DEF Lands, Writer
  <2>3. ASSUME NEW c \in Calls, Writer(c) # Caller[c]
        PROVE  (Writer(c))' = Writer(c)
    <3>1. call[c].as # None /\ call[c].pc # "new"
      BY <2>3 DEF Writer, TurnInv, Scripted
    <3>2. QED BY <3>1, NameStays DEF Writer
  <2>4. ASSUME NEW a \in Agents, NEW b, b # a, Writes(a, b)
        PROVE  (\E c \in Calls : Caller[c] = a /\ Writer(c) = b)'
    <3>1. PICK c \in Calls : Caller[c] = a /\ Writer(c) = b
      BY <2>4
    <3>2. (Writer(c))' = b
      BY <2>3, <2>4, <3>1
    <3>3. QED BY <3>1, <3>2
  <2>5. ASSUME NEW a \in Agents
        PROVE  /\ pin'[a] # None => agentOf'[pin'[a]] = a
               /\ active'[a] # None /\ agentOf'[active'[a]] # a => Writes(a, agentOf'[active'[a]])
    <3>1. Led(a, active'[a], pin'[a])
      BY PointerMoves
    <3>2. pin'[a] # None => agentOf'[pin'[a]] = a
      <4>1. CASE pin'[a] \in {pin[a], None}
        BY <2>1, <4>1, Holding DEF PointersOwn
      <4>2. CASE pin'[a] \notin {pin[a], None}
        BY <2>2, <3>1, <4>2 DEF Led
      <4>3. QED BY <4>1, <4>2
    <3>3. active'[a] # None /\ agentOf'[active'[a]] # a => Writes(a, agentOf'[active'[a]])
      <4>1. CASE active'[a] \in {active[a], None}
        BY <2>1, <4>1, Holding DEF PointersOwn
      <4>2. CASE active'[a] \notin {active[a], None}
        BY <2>2, <3>1, <4>2 DEF Led
      <4>3. QED BY <4>1, <4>2
    <3>4. QED BY <3>2, <3>3
  <2>6. QED BY <2>4, <2>5 DEF PointersOwn
<1>3. QED BY <1>1, <1>2, PTL DEF Spec

----------------------------------------------------------------------------
(* Which closed sessions are handed over.                                  *)

(* The reason a closed session has, besides its job.                       *)
Excused(l) == l.pc \in {"close push", "cut"} \/ l.op = "discard"

(* Only the close of a session makes one closed.                           *)
LEMMA ClosedBy ==
  ASSUME HeldHere, [Next]_vars, NEW s \in issued', meta'[s] = "closed"
  PROVE  \/ s \in issued /\ meta[s] = "closed"
         \/ \E c \in Calls : CloseMark(c) /\ call[c].sid = s
<1>1. meta \in [Sessions -> MetaState] /\ issued \subseteq Sessions
  BY DEF HeldHere, ToolTypeOK, WMTypeOK
<1>2. CASE UNCHANGED <<issued, meta>>
  BY <1>2
<1>3. ASSUME NEW c \in Calls, CloseMark(c)
      PROVE  \/ s \in issued /\ meta[s] = "closed"
             \/ call[c].sid = s
  BY <1>1, <1>3 DEF CloseMark, MarkClosed
<1>4. ASSUME NEW r \in Sessions,
             \/ \E a : OpenSession(r, a)
             \/ \E t : PushTurn(r, t)
             \/ ExpireSession(r)
      PROVE  s \in issued /\ meta[s] = "closed"
  BY <1>1, <1>4 DEF OpenSession, PushTurn, ExpireSession
<1>5. ASSUME NEW c \in Calls, Push(c) \/ Repush(c)
      PROVE  call[c].sid \in Sessions /\ \E t : PushTurn(call[c].sid, t)
  BY <1>1, <1>5, Holding DEF Push, Repush, Land, Naming
<1>6. \/ UNCHANGED <<issued, meta>>
      \/ \E c \in Calls : CloseMark(c)
      \/ \E c \in Calls : Push(c) \/ Repush(c)
      \/ \E r \in Sessions : (\E a : OpenSession(r, a)) \/ ExpireSession(r)
  BY DEF Next, vars, Start, CallStep, Cut, GetPointer, Inspect, GetPin, CheckPinned,
         Open, SetActive, SetPin, Owner, Check, Reopen, Recheck, Reset, CloseOwner,
         CloseMeta, ClosePush, Clear, ExpireKey, Expire, Elsewhere, Worker, wmVars, store
<1>7. QED BY <1>2, <1>3, <1>4, <1>5, <1>6

(* A call that excuses a closed session goes on to, or is followed by its  *)
(* job.                                                                    *)
LEMMA ExcuseStays ==
  ASSUME HeldHere, TurnInv, [Next]_vars, NEW c \in Calls, Excused(call[c]),
         call[c].sid # None
  PROVE  \/ call'[c].sid = call[c].sid /\ Excused(call'[c])
         \/ call[c].sid \in handed'
<1>1. Scripted(call[c])
  BY DEF TurnInv
<1>2. call \in [Calls -> Local]
  BY DEF HeldHere, ToolTypeOK
<1>3. call[c].pc # "new"
  BY <1>1 DEF Scripted
<1>4. call[c].pc \in {"close owner", "close meta", "close mark", "close push"} \cup Ended
  <2>1. call[c].op = "discard" => call[c].pc \notin {"pointer", "inspect", "set", "pin",
          "pinned", "set pin", "open", "reset", "clear"} \cup Appending
    BY <1>1, <1>3 DEF Scripted, Replacing, Appending
  <2>2. call[c].pc \in Naming \cup Asking \cup Ended \cup {"new"}
    BY <1>2 DEF Local
  <2>3. QED BY <1>3, <2>1, <2>2 DEF Excused, Naming, Asking, Ended, Appending
<1>5. ASSUME NEW pc, Goto(c, pc)
      PROVE  /\ call'[c].pc = pc /\ call'[c].sid = call[c].sid
             /\ call'[c].op = call[c].op
  BY <1>2, <1>5 DEF Goto, Local
<1>6. CASE call'[c] = call[c]
  BY <1>6
<1>7. CASE ClosePush(c)
  BY <1>7 DEF ClosePush
<1>8. CASE Cut(c)
  BY <1>5, <1>8 DEF Cut, Excused
<1>9. CASE CloseOwner(c) \/ CloseMeta(c) \/ CloseMark(c)
  <2>1. call[c].op = "discard" /\ \E pc : Goto(c, pc)
    BY <1>9 DEF CloseOwner, CloseMeta, CloseMark, Excused
  <2>2. QED BY <1>5, <2>1 DEF Excused
<1>10. \/ call'[c] = call[c] \/ ClosePush(c) \/ Cut(c)
       \/ CloseOwner(c) \/ CloseMeta(c) \/ CloseMark(c)
  <2>1. ASSUME NEW d \in Calls, Start(d) \/ CallStep(d) \/ Cut(d), d # c
        PROVE  call'[c] = call[c]
    BY <2>1, StartKeeps, ReadKeeps, WriteKeeps DEF CallStep, Kept
  <2>2. ASSUME Start(c) \/ CallStep(c)
        PROVE  ClosePush(c) \/ CloseOwner(c) \/ CloseMeta(c) \/ CloseMark(c)
    BY <1>4, <2>2 DEF Start, Room, CallStep, GetPointer, Inspect, GetPin, CheckPinned,
         Open, SetActive, SetPin, Owner, Check, Push, Reopen, Recheck, Repush,
         Reset, Clear, Ended
  <2>3. ASSUME \/ \E a \in Agents : ExpireKey(a)
               \/ \E s \in Sessions : Expire(s)
               \/ Elsewhere \/ Worker \/ UNCHANGED vars
        PROVE  UNCHANGED call
    BY <2>3 DEF ExpireKey, Expire, Elsewhere, Worker, vars
  <2>4. QED BY <2>1, <2>2, <2>3 DEF Next
<1>11. QED BY <1>6, <1>7, <1>8, <1>9, <1>10

(* No closed session is forgotten: it was handed to the distiller, or is   *)
(* about to be, or was closed without distillation, or its closing was cut *)
(* off.                                                                    *)
THEOREM ClosedAreHandedOver == Spec => []HandedOver
<1> DEFINE Inv == HeldHere /\ TurnInv /\ HandedOver
<1>1. Init => Inv
  <2>1. Init => HandedOver
    BY DEF Init, WMInit, HandedOver
  <2>2. QED BY <2>1, InitHolds, InitTurns
<1>2. Inv /\ [Next]_vars => Inv'
  <2> SUFFICES ASSUME HeldHere, TurnInv, HandedOver, [Next]_vars PROVE HandedOver'
    BY StepHolds, StepTurns
  <2>1. handed \subseteq handed'
    BY DEF Next, vars, Start, CallStep, Cut, GetPointer, Inspect, GetPin, CheckPinned,
         Open, SetActive, SetPin, Owner, Check, Push, Reopen, Recheck, Repush, Reset,
         CloseOwner, CloseMeta, CloseMark, ClosePush, Clear, ExpireKey, Expire,
         Elsewhere, Worker, Mishap, history
  <2>2. ASSUME NEW s \in issued', meta'[s] = "closed"
        PROVE  s \in handed' \/ \E c \in Calls : call'[c].sid = s /\ Excused(call'[c])
    <3>1. CASE s \in issued /\ meta[s] = "closed"
      <4>1. CASE s \in handed
        BY <2>1, <4>1
      <4>2. ASSUME NEW c \in Calls, call[c].sid = s, Excused(call[c])
            PROVE  s \in handed' \/ (call'[c].sid = s /\ Excused(call'[c]))
        <5>1. s # None
          BY <3>1, Holding
        <5>2. \/ call'[c].sid = s /\ Excused(call'[c])
              \/ s \in handed'
          BY <4>2, <5>1, ExcuseStays
        <5>3. QED BY <5>2
      <4>3. QED BY <3>1, <4>1, <4>2 DEF HandedOver, Excused
    <3>2. ASSUME NEW c \in Calls, CloseMark(c), call[c].sid = s
          PROVE  call'[c].sid = s /\ Excused(call'[c])
      <4>1. call \in [Calls -> Local]
        BY DEF HeldHere, ToolTypeOK
      <4>2. QED BY <3>2, <4>1 DEF CloseMark, Goto, Excused, Local
    <3>3. QED BY <2>2, <3>1, <3>2, ClosedBy
  <2>3. QED BY <2>2 DEF HandedOver, Excused
<1>3. QED BY <1>1, <1>2, PTL DEF Spec

----------------------------------------------------------------------------
(* The chat gateway.                                                       *)

(* The locals of a request, and the session it knows.                      *)
Locals == {"pc", "via", "fresh", "sid", "degraded", "sent", "todo", "out", "at"}

Known ==
  /\ scene \in Scenes
  /\ DOMAIN chat = Requests
  /\ \A r \in Requests : Locals \subseteq DOMAIN chat[r] /\ chat[r].sid \in issued \cup {None}

LEMMA PartsAreCalls ==
  ASSUME NEW r \in Requests
  PROVE  Question(r) \in Calls /\ Reply(r) \in Calls /\ Resolve(r) \in Calls
BY PartAssumption DEF Question, Reply, Resolve, Role

(* A call that a request makes is one a client of the tools may make.      *)
LEMMA SayIsStart ==
  ASSUME HeldHere, NEW c \in Calls, Room(c), Untouched, NEW s \in issued \cup {None},
         ToSay(c, s)
  PROVE  Start(c)
<1>1. UNCHANGED <<wmVars, redisKeys, history>>
  BY DEF Untouched
<1>2. CASE s = None
  BY <1>1, <1>2 DEF Start
<1>3. CASE s \in issued
  <2>1. s # None
    BY <1>3, Holding
  <2>2. Begin(c, "answer", s, TRUE, "owner")
    BY <2>1 DEF ToSay
  <2>3. ToAppend(c)
    BY <1>3, <2>2 DEF ToAppend
  <2>4. QED BY <1>1, <2>3 DEF Start
<1>4. QED BY <1>2, <1>3

(* A request moves on, and no other does.                                  *)
Onward(r) ==
  /\ scene' = scene /\ DOMAIN chat' = Requests
  /\ \A q \in Requests \ {r} : chat'[q] = chat[q]
  /\ Locals \subseteq DOMAIN chat'[r]

LEMMA MoveGoes ==
  ASSUME Known, NEW r \in Requests, NEW pc, Move(r, pc), scene' = scene
  PROVE  /\ Onward(r)
         /\ chat'[r].pc = pc
         /\ \A f \in Locals \ {"pc"} : chat'[r][f] = chat[r][f]
BY DEF Known, Move, Onward, Locals

LEMMA ArriveGoes ==
  ASSUME Known, NEW r \in Requests, NEW via, NEW body, NEW fresh, NEW s, NEW pc,
         Arrive(r, via, body, fresh, s, pc), scene' = scene
  PROVE  /\ Onward(r)
         /\ chat'[r].pc = pc /\ chat'[r].via = via /\ chat'[r].fresh = fresh
         /\ chat'[r].sid = s /\ chat'[r].degraded = chat[r].degraded
         /\ chat[r].pc = "new" /\ \A k \in Role : call[Part[r][k]].pc = "new"
BY DEF Known, Arrive, Onward, Locals

(* The fields that an update of a record leaves alone.                     *)
Keeps(d, e) == e.via = d.via /\ e.fresh = d.fresh /\ e.sid = d.sid /\ e.degraded = d.degraded

Updated(d, e, pc, x, y) ==
  \/ e = [d EXCEPT !.pc = pc]
  \/ e = [d EXCEPT !.pc = pc, !.todo = x, !.at = y]
  \/ e = [d EXCEPT !.pc = pc, !.at = x, !.out = y]
  \/ e = [d EXCEPT !.out = x, !.pc = pc]
  \/ pc = d.pc /\ e = [d EXCEPT !.todo = x, !.out = y]

LEMMA Updates ==
  ASSUME NEW d, Locals \subseteq DOMAIN d, NEW pc, NEW x, NEW y, NEW e,
         Updated(d, e, pc, x, y)
  PROVE  Locals \subseteq DOMAIN e /\ e.pc = pc /\ Keeps(d, e)
<1>1. CASE e = [d EXCEPT !.pc = pc]
  BY <1>1 DEF Locals, Keeps
<1>2. CASE e = [d EXCEPT !.pc = pc, !.todo = x, !.at = y]
  BY <1>2 DEF Locals, Keeps
<1>3. CASE e = [d EXCEPT !.pc = pc, !.at = x, !.out = y]
  BY <1>3 DEF Locals, Keeps
<1>4. CASE e = [d EXCEPT !.out = x, !.pc = pc]
  BY <1>4 DEF Locals, Keeps
<1>5. CASE pc = d.pc /\ e = [d EXCEPT !.todo = x, !.out = y]
  BY <1>5 DEF Locals, Keeps
<1>6. QED BY <1>1, <1>2, <1>3, <1>4, <1>5 DEF Updated

(* What Redis and the pipeline do for a request is not about sessions,     *)
(* but for Redis failing.                                                  *)
Busied(r) == Shrink(r) \/ GetRef(r) \/ SetRef(r) \/ Ready(r) \/ Asked(r) \/ Replied(r)

LEMMA BusiedGoes ==
  ASSUME Known, NEW r \in Requests, Busied(r)
  PROVE  /\ Onward(r) /\ UNCHANGED vars
         /\ Keeps(chat[r], chat'[r])
         /\ \/ chat[r].pc \in {"shrink", "get", "setex"}
               /\ \/ chat'[r].pc \in {"shrink", "get", "setex", "upstream"}
                  \/ chat'[r].pc = "answered" /\ chat[r].via # "gateway"
            \/ chat[r].pc = "ask" /\ Returned(Question(r)) /\ chat'[r].pc = "shrink"
            \/ chat[r].pc = "reply" /\ Returned(Reply(r)) /\ chat'[r].pc = "answered"
<1>1. UNCHANGED <<wmVars, redisKeys, history, call>> /\ scene' = scene
  BY DEF Busied, Shrink, GetRef, SetRef, Ready, Asked, Replied, Untouched
<1>2. UNCHANGED vars
  BY <1>1 DEF vars, redisKeys, history
<1>3. Locals \subseteq DOMAIN chat[r] /\ DOMAIN chat = Requests
  BY DEF Known
<1>4. ASSUME NEW pc, NEW x, NEW y, NEW e, Updated(chat[r], e, pc, x, y),
             chat' = [chat EXCEPT ![r] = e]
      PROVE  Onward(r) /\ Keeps(chat[r], chat'[r]) /\ chat'[r].pc = pc
  <2>1. Locals \subseteq DOMAIN e /\ e.pc = pc /\ Keeps(chat[r], e)
    BY <1>3, <1>4, Updates
  <2>2. chat'[r] = e
    BY <1>3, <1>4
  <2>3. QED BY <1>1, <1>3, <1>4, <2>1, <2>2 DEF Onward
<1>5. CASE Shrink(r)
  <2>1. chat[r].pc = "shrink"
    BY <1>5 DEF Shrink
  <2>2. \/ \E x, y : chat' = [chat EXCEPT ![r] = [chat[r] EXCEPT !.todo = x, !.out = y]]
        \/ \E x, y : chat' = [chat EXCEPT ![r] =
                                 [chat[r] EXCEPT !.pc = "get", !.todo = x, !.at = y]]
    <3>1. PICK m :
            \/ chat' = [chat EXCEPT ![r].todo = @ \ {m}, ![r].out = @ \cup {m}]
            \/ \E c : chat' = [chat EXCEPT ![r].pc = "get", ![r].todo = @ \ {m},
                                 ![r].at = {[text |-> m.now, was |-> m.was, now |-> c]}]
      BY <1>5, Zenon DEF Shrink
    <3>2. CASE chat' = [chat EXCEPT ![r].todo = @ \ {m}, ![r].out = @ \cup {m}]
      BY <3>2
    <3>3. ASSUME NEW c, chat' = [chat EXCEPT ![r].pc = "get", ![r].todo = @ \ {m},
                                   ![r].at = {[text |-> m.now, was |-> m.was, now |-> c]}]
          PROVE  \E x, y : chat' = [chat EXCEPT ![r] =
                                 [chat[r] EXCEPT !.pc = "get", !.todo = x, !.at = y]]
      BY <3>3
    <3>4. QED BY <3>1, <3>2, <3>3
  <2>3. ASSUME NEW x, NEW y,
               chat' = [chat EXCEPT ![r] = [chat[r] EXCEPT !.todo = x, !.out = y]]
        PROVE  Onward(r) /\ Keeps(chat[r], chat'[r]) /\ chat'[r].pc = "shrink"
    <3>1. Updated(chat[r], [chat[r] EXCEPT !.todo = x, !.out = y], "shrink", x, y)
      BY <2>1 DEF Updated
    <3>2. QED BY <1>4, <2>3, <3>1
  <2>4. ASSUME NEW x, NEW y,
               chat' = [chat EXCEPT ![r] = [chat[r] EXCEPT !.pc = "get", !.todo = x, !.at = y]]
        PROVE  Onward(r) /\ Keeps(chat[r], chat'[r]) /\ chat'[r].pc = "get"
    <3>1. Updated(chat[r], [chat[r] EXCEPT !.pc = "get", !.todo = x, !.at = y], "get", x, y)
      BY DEF Updated
    <3>2. QED BY <1>4, <2>4, <3>1
  <2>5. QED BY <1>2, <2>1, <2>2, <2>3, <2>4
<1>6. CASE chat' = [chat EXCEPT ![r].pc = "setex"] /\ GetRef(r)
  <2>1. Updated(chat[r], [chat[r] EXCEPT !.pc = "setex"], "setex", {}, {})
    BY DEF Updated
  <2>2. QED BY <1>2, <1>4, <1>6, <2>1 DEF GetRef
<1>7. CASE PutBack(r) /\ (GetRef(r) \/ SetRef(r))
  <2>1. PICK x, y : chat' = [chat EXCEPT ![r] = [chat[r] EXCEPT !.pc = "shrink", !.at = x, !.out = y]]
    BY <1>7 DEF PutBack
  <2>2. Updated(chat[r], [chat[r] EXCEPT !.pc = "shrink", !.at = x, !.out = y], "shrink", x, y)
    BY DEF Updated
  <2>3. QED BY <1>2, <1>4, <1>7, <2>1, <2>2 DEF GetRef, SetRef
<1>8. CASE Ready(r)
  <2> DEFINE pc == IF chat[r].via = "gateway" THEN "upstream" ELSE "answered"
  <2>1. PICK x : chat' = [chat EXCEPT ![r] = [chat[r] EXCEPT !.out = x, !.pc = pc]]
    BY <1>8 DEF Ready
  <2>2. Updated(chat[r], [chat[r] EXCEPT !.out = x, !.pc = pc], pc, x, x)
    BY DEF Updated
  <2>3. chat[r].pc = "shrink"
    BY <1>8 DEF Ready
  <2>4. QED BY <1>2, <1>4, <2>1, <2>2, <2>3
<1>9. CASE Asked(r)
  <2>1. Updated(chat[r], [chat[r] EXCEPT !.pc = "shrink"], "shrink", {}, {})
    BY DEF Updated
  <2>2. QED BY <1>2, <1>4, <1>9, <2>1 DEF Asked, Move
<1>10. CASE Replied(r)
  <2>1. Updated(chat[r], [chat[r] EXCEPT !.pc = "answered"], "answered", {}, {})
    BY DEF Updated
  <2>2. QED BY <1>2, <1>4, <1>10, <2>1 DEF Replied, Move
<1>11. QED BY <1>5, <1>6, <1>7, <1>8, <1>9, <1>10 DEF Busied, GetRef, SetRef, Move

(* The steps of a request that call a session tool, and the arrivals.      *)
LEMMA CallingGoes ==
  ASSUME HeldHere, Known, NEW r \in Requests,
         \/ Chat(r) \/ Prepare(r) \/ Compress(r) \/ Normalize(r) \/ Middleware(r)
         \/ Resolved(r) \/ Upstream(r)
  PROVE  /\ Onward(r) /\ chat'[r].sid \in issued \cup {None}
         /\ UNCHANGED vars \/ \E k \in Role : Start(Part[r][k])
<1>1. UNCHANGED <<wmVars, redisKeys, history>> /\ scene' = scene /\ Untouched
  BY DEF Chat, Prepare, Compress, Normalize, Middleware, Resolved, Upstream, Untouched
<1>2. UNCHANGED call => UNCHANGED vars
  BY <1>1 DEF vars, redisKeys, history
<1>3. /\ Question(r) = Part[r]["question"] /\ Reply(r) = Part[r]["reply"]
      /\ Resolve(r) = Part[r]["resolve"]
      /\ Question(r) \in Calls /\ Reply(r) \in Calls /\ Resolve(r) \in Calls
      /\ "question" \in Role /\ "reply" \in Role /\ "resolve" \in Role
  BY PartsAreCalls DEF Question, Reply, Resolve, Role
<1>4. ASSUME NEW via, NEW body, NEW fresh, NEW s \in issued \cup {None}, NEW pc,
             Arrive(r, via, body, fresh, s, pc)
      PROVE  Onward(r) /\ chat'[r].sid \in issued \cup {None}
  BY <1>1, <1>4, ArriveGoes
<1>5. CASE Chat(r)
  <2>1. Onward(r) /\ chat'[r].sid \in issued \cup {None}
    BY <1>4, <1>5 DEF Chat
  <2>2. Start(Resolve(r))
    BY <1>1, <1>5 DEF Chat, Start
  <2>3. QED BY <1>3, <2>1, <2>2
<1>6. CASE Prepare(r)
  <2>1. CASE \E body \in Bodies : Arrive(r, "prepare", body, FALSE, None, "shrink") /\ UNCHANGED call
    BY <1>2, <1>4, <2>1
  <2>2. ASSUME NEW body \in Bodies, NEW s \in issued \cup {None},
               Arrive(r, "prepare", body, TRUE, s, "ask"), Room(Question(r)), ToSay(Question(r), s)
        PROVE  Onward(r) /\ chat'[r].sid \in issued \cup {None} /\ Start(Question(r))
    BY <1>1, <1>3, <1>4, <2>2, SayIsStart
  <2>3. QED BY <1>3, <1>6, <2>1, <2>2 DEF Prepare
<1>7. CASE Compress(r)
  BY <1>2, <1>4, <1>7 DEF Compress
<1>8. CASE Normalize(r) \/ Middleware(r)
  BY <1>2, <1>4, <1>8 DEF Normalize, Middleware, Normalized
<1>9. CASE Resolved(r)
  <2> DEFINE s == IF call[Resolve(r)].pc = "done" THEN call[Resolve(r)].sid ELSE None
  <2>1. s \in issued \cup {None}
    BY <1>3, Holding
  <2>2. chat' = [chat EXCEPT ![r] = [chat[r] EXCEPT !.sid = s,
                               !.pc = IF chat[r].fresh THEN "ask" ELSE "shrink"]]
    BY <1>9 DEF Resolved
  <2>3. UNCHANGED call \/ (Room(Question(r)) /\ ToSay(Question(r), s))
    BY <1>9 DEF Resolved
  <2> HIDE DEF s
  <2>4. Onward(r) /\ chat'[r].sid = s
    BY <1>1, <2>2 DEF Known, Onward, Locals
  <2>5. QED BY <1>1, <1>2, <1>3, <2>1, <2>3, <2>4, SayIsStart
<1>10. CASE Upstream(r)
  <2>1. PICK pc : Move(r, pc)
    BY <1>10 DEF Upstream, AppendAnswer
  <2>2. Onward(r) /\ chat'[r].sid = chat[r].sid
    BY <1>1, <2>1, MoveGoes DEF Locals
  <2>3. chat[r].sid \in issued \cup {None}
    BY DEF Known
  <2>4. UNCHANGED call \/ (Room(Reply(r)) /\ ToSay(Reply(r), chat[r].sid))
    BY <1>10 DEF Upstream, AppendAnswer
  <2>5. QED BY <1>1, <1>2, <1>3, <2>2, <2>3, <2>4, SayIsStart
<1>11. QED BY <1>5, <1>6, <1>7, <1>8, <1>9, <1>10

LEMMA FailGoes ==
  ASSUME HeldHere, Known, NEW r \in Requests, FailRef(r)
  PROVE  /\ Onward(r) /\ Elsewhere
         /\ chat[r].pc \in {"get", "setex"} /\ chat'[r].via = chat[r].via
         /\ \/ chat'[r].pc \in {"raised", "answered"} /\ chat[r].via # "gateway"
               /\ chat'[r].sid = chat[r].sid
            \/ /\ chat[r].via = "gateway" /\ chat'[r].pc = "upstream" /\ chat'[r].degraded
               /\ chat'[r].sid = IF call[Resolve(r)].pc = "done" THEN call[Resolve(r)].sid ELSE None
<1>1. Elsewhere /\ scene' = scene /\ chat[r].pc \in {"get", "setex"}
  BY DEF FailRef
<1>2. Locals \subseteq DOMAIN chat[r] /\ DOMAIN chat = Requests
  BY DEF Known
<1> DEFINE back == IF call[Resolve(r)].pc = "done" THEN call[Resolve(r)].sid ELSE None
           e(out) == [chat[r] EXCEPT !.pc = "upstream", !.sid = back, !.degraded = TRUE, !.out = out]
<1>3. ASSUME NEW pc, Move(r, pc)
      PROVE  Onward(r) /\ chat'[r].pc = pc /\ chat'[r].via = chat[r].via /\ chat'[r].sid = chat[r].sid
  BY <1>1, <1>3, MoveGoes DEF Locals
<1>4. \/ \E pc \in {"raised", "answered"} : Move(r, pc) /\ chat[r].via # "gateway"
      \/ chat[r].via = "gateway" /\ \E out : chat' = [chat EXCEPT ![r] = e(out)]
  BY DEF FailRef
<1>5. ASSUME NEW out, chat' = [chat EXCEPT ![r] = e(out)]
      PROVE  /\ Onward(r) /\ chat'[r].pc = "upstream" /\ chat'[r].via = chat[r].via
             /\ chat'[r].sid = back /\ chat'[r].degraded
  <2> HIDE DEF back
  <2>1. chat'[r] = e(out)
    BY <1>2, <1>5
  <2>2. /\ e(out).pc = "upstream" /\ e(out).via = chat[r].via /\ e(out).sid = back
        /\ e(out).degraded /\ Locals \subseteq DOMAIN e(out)
    BY <1>2 DEF Locals
  <2>3. QED BY <1>1, <1>2, <1>5, <2>1, <2>2 DEF Onward
<1> HIDE DEF e
<1>6. QED BY <1>1, <1>3, <1>4, <1>5

(* The session that a request's first open_session returned is its own.    *)
LEMMA OpenedGoes ==
  ASSUME Known, Opened, NEW r \in Requests
  PROVE  /\ DOMAIN chat' = Requests /\ Locals \subseteq DOMAIN chat'[r]
         /\ chat'[r].pc = chat[r].pc /\ chat'[r].via = chat[r].via
         /\ chat'[r].degraded = chat[r].degraded
         /\ chat'[r].sid = IF chat[r].pc = "ask" /\ call[Question(r)].pc = "open"
                            THEN call'[Question(r)].sid ELSE chat[r].sid
BY DEF Known, Opened, Locals

(* Every step is one of the session tools, or none to them.                *)
LEMMA StepKnows ==
  ASSUME HeldHere, Known, [GatewayNext]_allVars
  PROVE  [Next]_vars /\ HeldHere' /\ Known'
<1>1. ASSUME [Next]_vars
      PROVE  HeldHere' /\ issued \subseteq issued'
  BY <1>1, StepHolds, CommandKeeps, Holding
<1>2. ASSUME [Next]_vars, UNCHANGED <<chat, scene>>
      PROVE  HeldHere' /\ Known'
  BY <1>1, <1>2 DEF Known
<1>3. ASSUME NEW r \in Requests, [Next]_vars, Onward(r), chat'[r].sid \in issued \cup {None}
      PROVE  HeldHere' /\ Known'
  BY <1>1, <1>3 DEF Known, Onward
<1>4. ASSUME NEW r \in Requests, RequestStep(r)
      PROVE  [Next]_vars /\ HeldHere' /\ Known'
  <2>1. chat[r].sid \in issued \cup {None} /\ call[Resolve(r)].sid \in issued \cup {None}
    BY PartsAreCalls, Holding DEF Known
  <2>2. CASE Busied(r)
    BY <1>3, <2>1, <2>2, BusiedGoes DEF Keeps
  <2>3. CASE FailRef(r)
    BY <1>3, <2>1, <2>3, FailGoes DEF Next
  <2>4. CASE \/ Chat(r) \/ Prepare(r) \/ Compress(r) \/ Normalize(r) \/ Middleware(r)
             \/ Resolved(r) \/ Upstream(r)
    <3>1. Part[r] \in [Role -> Calls]
      BY PartAssumption
    <3>2. [Next]_vars
      BY <2>4, <3>1, CallingGoes DEF Next
    <3>3. QED BY <1>3, <2>4, <3>2, CallingGoes
  <2>5. QED BY <1>4, <2>2, <2>3, <2>4 DEF RequestStep, Busied
<1>5. CASE Retrieve
  BY <1>2, <1>5 DEF Retrieve, Untouched, vars, wmVars, redisKeys, history
<1>6. CASE SessionStep
  <2>1. [Next]_vars /\ Opened /\ scene' = scene
    BY <1>6 DEF SessionStep, Next
  <2>2. ASSUME NEW r \in Requests
        PROVE  chat'[r].sid \in issued' \cup {None}
    <3>1. call'[Question(r)].sid \in issued' \cup {None}
      BY <1>1, <2>1, PartsAreCalls DEF HeldHere, CallsHold
    <3>2. chat[r].sid \in issued' \cup {None}
      BY <1>1, <2>1 DEF Known
    <3>3. QED BY <2>1, <3>1, <3>2, OpenedGoes
  <2>3. DOMAIN chat' = Requests /\ \A r \in Requests : Locals \subseteq DOMAIN chat'[r]
    BY <2>1, OpenedGoes DEF Opened
  <2>4. QED BY <1>1, <2>1, <2>2, <2>3 DEF Known
<1>7. CASE ToolCall
  <2>1. PICK c \in scene.tools :
          Room(c) /\ (ToOpen(c) \/ ToEnsure(c) \/ ToAppend(c) \/ ToCommit(c) \/ ToClose(c))
    BY <1>7 DEF ToolCall
  <2>2. c \in Calls
    BY <2>1, ScenesAssumption DEF Known
  <2>3. Start(c) /\ UNCHANGED <<chat, scene>>
    BY <1>7, <2>1 DEF ToolCall, Start, Untouched, gatewayVars
  <2>4. QED BY <1>2, <2>2, <2>3 DEF Next
<1>8. CASE Around
  <2>1. [Next]_vars /\ UNCHANGED <<chat, scene>>
    BY <1>8 DEF Around, Next, gatewayVars
  <2>2. QED BY <1>2, <2>1
<1>9. CASE ExpireRef
  <2>1. [Next]_vars /\ UNCHANGED <<chat, scene>>
    BY <1>9 DEF ExpireRef, Next
  <2>2. QED BY <1>2, <2>1
<1>10. CASE UNCHANGED allVars
  <2>1. [Next]_vars /\ UNCHANGED <<chat, scene>>
    BY <1>10 DEF allVars, gatewayVars
  <2>2. QED BY <1>2, <2>1
<1>11. ASSUME NEW r \in scene.requests, RequestStep(r)
       PROVE  [Next]_vars /\ HeldHere' /\ Known'
  BY <1>4, <1>11, ScenesAssumption DEF Known
<1>12. QED BY <1>5, <1>6, <1>7, <1>8, <1>9, <1>10, <1>11 DEF GatewayNext

LEMMA InitKnows == GatewayInit => HeldHere /\ Known
<1> SUFFICES ASSUME GatewayInit PROVE HeldHere /\ Known
  OBVIOUS
<1>1. HeldHere
  BY InitHolds DEF GatewayInit
<1>2. Known
  BY DEF GatewayInit, Known, Locals
<1>3. QED BY <1>1, <1>2

(* What the gateway does to the sessions, the session tools do: whatever   *)
(* holds of SessionTools holds of the chat gateway.                        *)
THEOREM GatewayUsesTools == GatewaySpec => Spec
<1> DEFINE Inv == HeldHere /\ Known
<1>1. GatewayInit => Inv /\ Init
  BY InitKnows DEF GatewayInit
<1>2. Inv /\ [GatewayNext]_allVars => Inv' /\ [Next]_vars
  BY StepKnows
<1>3. QED BY <1>1, <1>2, PTL DEF GatewaySpec, Spec

(* So a request has its turn in the one session it answers with, and the   *)
(* sessions it closes, or finds closed, are handed over.                   *)
COROLLARY GatewayTurnsLand == GatewaySpec => []TurnsLand
BY GatewayUsesTools, TurnsLandOnce, PTL

COROLLARY GatewayHandsOver == GatewaySpec => []HandedOver
BY GatewayUsesTools, ClosedAreHandedOver, PTL

----------------------------------------------------------------------------
(* Where the two turns of a request meet.                                  *)

(* A call l that says something is on its way to session s, has got there, *)
(* or s takes no turns any more; m is the state of the sessions.           *)
Toward(l, s, m) ==
  \/ l.pc = "new"
  \/ l.op = "ask" /\ l.pc \in {"open", "cut"} /\ l.sid = None /\ s = None
  \/ /\ s # None /\ l.sid # None /\ l.pc # "open"
     /\ m[s] # "open" \/ (l.sid = s /\ l.pc # "reopen")

(* A request x of the gateway with its calls: v maps the conversation, q   *)
(* appends the question, p the answer.                                     *)
Early == {"resolve", "ask", "shrink", "get", "setex"}
Lost(x, v) == x.degraded /\ v.pc # "done"
Facing(x, v, q, p, m) ==
  /\ x.pc \in Early \cup {"upstream", "reply", "answered", "refused"}
  /\ x.pc \in Early => ~ x.degraded
  /\ v.op = "chat" /\ v.pc # "new"
  /\ x.pc = "resolve" => q.pc = "new"
  /\ x.pc # "resolve" => v.pc \in Ended
  /\ x.pc # "ask" => q.pc \in Ended \cup {"new"}
  /\ x.pc \notin {"reply", "answered"} => p.pc = "new"
  /\ q.pc = "new" \/ q.op \in {"ask", "answer"}
  /\ p.pc = "new" \/ (p.op = "answer" /\ x.sid # None)
  /\ x.pc # "resolve" /\ v.pc = "done" =>
       x.sid = v.sid /\ x.sid # None /\ (q.pc = "new" \/ q.op = "answer")
  /\ Lost(x, v) => x.sid = None
  /\ Lost(x, v) \/ Toward(q, x.sid, m)
  /\ Toward(p, x.sid, m)

Meeting(x, v, q, p, m) ==
  /\ x.pc = "new" => ~ x.degraded
  /\ x.pc # "new" /\ x.via = "gateway" => Facing(x, v, q, p, m)

(* A call that is done names a session.                                    *)
DoneNames == \A c \in Calls : call[c].pc = "done" => call[c].sid # None

MeetInv ==
  /\ DoneNames
  /\ \A r \in Requests :
       Meeting(chat[r], call[Resolve(r)], call[Question(r)], call[Reply(r)], meta)

LEMMA MeetInvMeets ==
  ASSUME HeldHere, TurnInv, MeetInv
  PROVE  TurnsMeet
<1> SUFFICES ASSUME NEW r \in Requests, chat[r].via = "gateway",
                    chat[r].pc \in {"upstream", "reply", "answered"}, landed[Question(r)] # {}
             PROVE  /\ \/ chat[r].sid # None
                       \/ chat[r].degraded /\ call[Resolve(r)].pc # "done"
                    /\ landed[Reply(r)] # {} /\ landed[Reply(r)] # landed[Question(r)]
                         => ~ IsOpen(chat[r].sid)
  BY DEF TurnsMeet
<1> DEFINE x == chat[r]
           q == call[Question(r)]
           p == call[Reply(r)]
<1>1. Facing(x, call[Resolve(r)], q, p, meta)
  BY DEF MeetInv, Meeting
<1>2. ASSUME NEW c \in Calls, landed[c] # {}
      PROVE  landed[c] = {call[c].sid} /\ call[c].sid # None /\ call[c].pc # "new"
  <2>1. Lands(c, call[c], landed[c], agentOf) /\ landed[c] \subseteq Sessions /\ None \notin Sessions
    BY Holding DEF TurnInv, HeldHere, ToolTypeOK
  <2>2. QED BY <1>2, <2>1 DEF Lands, Before
<1>3. landed[Question(r)] = {q.sid} /\ q.sid # None /\ q.pc # "new"
  BY <1>2, PartsAreCalls
<1>4. landed[Reply(r)] # {} => landed[Reply(r)] = {p.sid} /\ p.pc # "new"
  BY <1>2, PartsAreCalls
<1> HIDE DEF x, q, p
<1>5. x.sid # None \/ Lost(x, call[Resolve(r)])
  BY <1>1, <1>3 DEF Facing, Toward
<1>6. landed[Reply(r)] # {} /\ p.sid # q.sid => meta[x.sid] # "open"
  BY <1>1, <1>3, <1>4 DEF Facing, Toward
<1>7. QED BY <1>3, <1>4, <1>5, <1>6 DEF x, Lost, IsOpen

(* A step of a call is its own, and no step of one that has ended.         *)
LEMMA OneCall ==
  ASSUME HeldHere, NEW c \in Calls, Start(c) \/ CallStep(c) \/ Cut(c)
  PROVE  /\ \A d \in Calls \ {c} : call'[d] = call[d]
         /\ call[c].pc \notin Ended
         /\ CallStep(c) \/ Cut(c) => call[c].pc # "new"
BY StartKeeps, ReadKeeps, WriteKeeps
DEF Kept, CallStep, Start, Room, Ended, GetPointer, Inspect, GetPin, CheckPinned, Open,
    SetActive, SetPin, Owner, Check, Push, Reopen, Recheck, Repush, Reset, CloseOwner,
    CloseMeta, CloseMark, ClosePush, Clear, Cut, Naming, Asking

LEMMA Fields ==
  ASSUME HeldHere, NEW c \in Calls, NEW pc, NEW s,
         Hold(c, s, pc) \/ (s = call[c].sid /\ Goto(c, pc))
  PROVE  call'[c].pc = pc /\ call'[c].sid = s /\ call'[c].op = call[c].op
<1>1. call \in [Calls -> Local]
  BY DEF HeldHere, ToolTypeOK
<1>2. QED BY <1>1 DEF Hold, Goto, Local

(* A call that is done names a session, whatever it was for.               *)
LEMMA DoneMoves ==
  ASSUME HeldHere, NEW c \in Calls, CallStep(c) \/ Cut(c)
  PROVE  /\ call'[c].op = call[c].op /\ call'[c].pc # "new"
         /\ call'[c].pc = "done" => call'[c].sid # None
<1>1. call[c].pc \in Naming => call[c].sid # None
  BY CallTyped, NoneAssumption DEF HeldHere
<1>2. ASSUME NEW pc, Goto(c, pc), pc # "new", pc = "done" => call[c].pc \in Naming
      PROVE  /\ call'[c].op = call[c].op /\ call'[c].pc # "new"
             /\ call'[c].pc = "done" => call'[c].sid # None
  BY <1>1, <1>2, Fields
<1>3. ASSUME NEW pc, NEW s, Hold(c, s, pc), pc # "new", pc = "done" => s # None
      PROVE  /\ call'[c].op = call[c].op /\ call'[c].pc # "new"
             /\ call'[c].pc = "done" => call'[c].sid # None
  BY <1>3, Fields
<1>4. CASE Open(c) \/ Reopen(c)
  <2>1. PICK s \in Sessions, pc \in {"set", "set pin", "done", "owner", "recheck"} : Hold(c, s, pc)
    BY <1>4 DEF Open, Reopen
  <2>2. s # None
    BY Holding
  <2>3. QED BY <1>3, <2>1, <2>2
<1>5. CASE GetPointer(c) \/ GetPin(c)
  <2>1. PICK s \in {active[Caller[c]], pin[Caller[c]]}, pc \in {"open", "inspect", "owner", "pinned"} :
          Hold(c, s, pc)
    <3>1. CASE GetPointer(c)
      BY <3>1 DEF GetPointer
    <3>2. CASE GetPin(c)
      BY <3>2 DEF GetPin
    <3>3. QED BY <1>5, <3>1, <3>2
  <2>2. QED BY <1>3, <2>1
<1>6. CASE \/ Inspect(c) \/ CheckPinned(c) \/ SetActive(c) \/ SetPin(c)
           \/ Owner(c) \/ Check(c) \/ Push(c) \/ Recheck(c) \/ Repush(c) \/ Reset(c)
           \/ CloseOwner(c) \/ CloseMeta(c) \/ CloseMark(c) \/ ClosePush(c) \/ Clear(c)
  <2>1. call[c].pc \in Naming
    BY <1>6 DEF Inspect, CheckPinned, SetActive, SetPin, Owner, Check, Push, Recheck, Repush,
                Reset, CloseOwner, CloseMeta, CloseMark, ClosePush, Clear, Naming
  <2>2. PICK pc \in Naming \cup Asking \cup Ended : Goto(c, pc)
    BY <1>6 DEF Inspect, CheckPinned, SetActive, SetPin, Owner, Check, Push, Recheck, Repush,
                Reset, CloseOwner, CloseMeta, CloseMark, ClosePush, Clear, AfterAppend,
                Naming, Asking, Ended
  <2>3. pc # "new"
    BY <2>2 DEF Naming, Asking, Ended
  <2>4. QED BY <1>2, <2>1, <2>2, <2>3
<1>7. CASE Cut(c)
  BY <1>2, <1>7 DEF Cut
<1>8. QED BY <1>4, <1>5, <1>6, <1>7 DEF CallStep

(* A call that says something goes to another session only where it opens  *)
(* one, or where its own takes no turns any more.                          *)
LEMMA SayMoves ==
  ASSUME HeldHere, TurnInv, NEW c \in Calls, CallStep(c) \/ Cut(c),
         call[c].op \in {"ask", "answer"}
  PROVE  \/ /\ call[c].pc \in {"open", "reopen"} /\ call'[c].sid # None
            /\ call'[c].pc \in {"owner", "recheck"}
         \/ /\ call'[c].sid = call[c].sid /\ call'[c].pc # "open"
            /\ call'[c].pc = "reopen" => meta[call[c].sid] # "open"
            /\ call[c].pc = "open" => call'[c].pc = "cut"
<1>1. Scripted(call[c])
  BY DEF TurnInv
<1>2. CASE Open(c) \/ Reopen(c)
  <2>1. PICK s \in Sessions, pc \in {"owner", "recheck"} : Hold(c, s, pc)
    BY <1>2 DEF Open, Reopen
  <2>2. s # None
    BY Holding
  <2>3. QED BY <1>2, <2>1, <2>2, Fields DEF Open, Reopen
<1>3. CASE Owner(c)
  <2>1. PICK pc \in {"reopen", "check", "raised"} :
          Goto(c, pc) /\ (pc = "reopen" => meta[call[c].sid] # "open")
    BY <1>3 DEF Owner, HasMetadata
  <2>2. QED BY <1>3, <2>1, Fields DEF Owner
<1>4. CASE Check(c)
  <2>1. PICK pc \in {"reopen", "push"} :
          Goto(c, pc) /\ (pc = "reopen" => meta[call[c].sid] # "open")
    BY <1>4 DEF Check, IsOpen
  <2>2. QED BY <1>4, <2>1, Fields DEF Check
<1>5. CASE \/ Push(c) \/ Recheck(c) \/ Repush(c) \/ Reset(c) \/ Cut(c)
  <2>1. PICK pc \in {"done", "reset", "repush", "raised", "cut"} :
          Goto(c, pc) /\ (call[c].pc = "open" => pc = "cut")
    BY <1>5 DEF Push, Recheck, Repush, Reset, Cut, AfterAppend
  <2>2. QED BY <2>1, Fields
<1>6. ~ \/ GetPointer(c) \/ Inspect(c) \/ GetPin(c) \/ CheckPinned(c) \/ SetActive(c)
        \/ SetPin(c) \/ CloseOwner(c) \/ CloseMeta(c) \/ CloseMark(c) \/ ClosePush(c)
        \/ Clear(c)
  BY <1>1 DEF Scripted, Replacing, Closing, GetPointer, Inspect, GetPin, CheckPinned, SetActive,
              SetPin, CloseOwner, CloseMeta, CloseMark, ClosePush, Clear
<1>7. QED BY <1>2, <1>3, <1>4, <1>5, <1>6 DEF CallStep

(* What becomes of Toward as the sessions go on, and as the call does.     *)
LEMMA TowardStays ==
  ASSUME HeldHere, [Next]_vars, NEW l, NEW s \in issued \cup {None}, Toward(l, s, meta)
  PROVE  Toward(l, s, meta')
BY StepHolds, CommandKeeps, Holding DEF Toward

LEMMA TowardMoves ==
  ASSUME HeldHere, TurnInv, NEW c \in Calls, CallStep(c) \/ Cut(c),
         call[c].op \in {"ask", "answer"},
         NEW s \in issued \cup {None}, Toward(call[c], s, meta)
  PROVE  Toward(call'[c], IF call[c].pc = "open" THEN call'[c].sid ELSE s, meta')
<1>1. [Next]_vars
  BY DEF Next
<1>2. \A r \in issued : meta[r] # "open" => meta'[r] # "open"
  BY <1>1, StepHolds, CommandKeeps, Holding
<1>3. /\ call'[c].op = call[c].op /\ call'[c].pc # "new"
      /\ call[c].pc \notin {"new", "cut"}
  BY DoneMoves, OneCall DEF Ended
<1>4. CASE /\ call[c].pc \in {"open", "reopen"} /\ call'[c].sid # None
           /\ call'[c].pc \in {"owner", "recheck"}
  BY <1>2, <1>3, <1>4 DEF Toward
<1>5. CASE /\ call'[c].sid = call[c].sid /\ call'[c].pc # "open"
           /\ call'[c].pc = "reopen" => meta[call[c].sid] # "open"
           /\ call[c].pc = "open" => call'[c].pc = "cut"
  <2>1. CASE call[c].pc = "open"
    BY <1>3, <1>5, <2>1 DEF Toward
  <2>2. CASE call[c].pc # "open"
    BY <1>2, <1>3, <1>5, <2>2 DEF Toward
  <2>3. QED BY <2>1, <2>2
<1>6. QED BY <1>4, <1>5, SayMoves

(* A request that stays where it is, with its calls.                       *)
LEMMA FacingStays ==
  ASSUME HeldHere, [Next]_vars, NEW x, x.sid \in issued \cup {None}, NEW v, NEW q, NEW p,
         Facing(x, v, q, p, meta)
  PROVE  Facing(x, v, q, p, meta')
<1>1. \A l : Toward(l, x.sid, meta) => Toward(l, x.sid, meta')
  BY TowardStays
<1>2. QED BY <1>1 DEF Facing

(* The same request later, y, when one of its calls has gone on.           *)
Alike(x, y) == y.pc = x.pc /\ y.via = x.via /\ y.degraded = x.degraded

LEMMA FacingWhere ==
  ASSUME NEW x, NEW v, NEW q, NEW p, NEW m, Facing(x, v, q, p, m)
  PROVE  /\ v.pc \notin Ended => x.pc = "resolve"
         /\ q.pc \notin Ended \cup {"new"} => x.pc = "ask" /\ ~ x.degraded /\ p.pc = "new"
         /\ q.pc # "new" => q.op \in {"ask", "answer"}
         /\ p.pc # "new" => x.pc \in {"reply", "answered"} /\ p.op = "answer"
         /\ x.pc \in Early => ~ x.degraded /\ p.pc = "new"
BY DEF Facing, Early

LEMMA FacingMaps ==
  ASSUME NEW x, NEW v, NEW q, NEW p, NEW m, NEW y, NEW w, NEW n, Facing(x, v, q, p, m),
         Alike(x, y), y.sid = x.sid, \A l : Toward(l, x.sid, m) => Toward(l, x.sid, n),
         x.pc = "resolve", w.op = v.op, w.pc # "new"
  PROVE  Facing(y, w, q, p, n)
BY DEF Facing, Lost, Early, Alike

LEMMA FacingAsks ==
  ASSUME NEW x, NEW v, NEW q, NEW p, NEW m, NEW y, NEW o, NEW n, Facing(x, v, q, p, m),
         Alike(x, y), x.pc = "ask", o.pc # "new", o.op = q.op, q.pc # "new",
         Toward(o, y.sid, n), q.op = "answer" => y.sid = x.sid
  PROVE  Facing(y, v, o, p, n)
<1>1. p.pc = "new" /\ ~ x.degraded
  BY FacingWhere DEF Early
<1>2. Toward(p, y.sid, n)
  BY <1>1 DEF Toward
<1>3. QED BY <1>1, <1>2 DEF Facing, Lost, Early, Alike

LEMMA FacingSays ==
  ASSUME NEW x, NEW v, NEW q, NEW p, NEW m, NEW y, NEW a, NEW n, Facing(x, v, q, p, m),
         Alike(x, y), y.sid = x.sid, \A l : Toward(l, x.sid, m) => Toward(l, x.sid, n),
         p.pc # "new", a.op = p.op, Toward(a, y.sid, n)
  PROVE  Facing(y, v, q, a, n)
BY DEF Facing, Lost, Early, Alike

LEMMA FacingRests ==
  ASSUME NEW x, NEW v, NEW q, NEW p, NEW m, NEW y, NEW n, Facing(x, v, q, p, m),
         Alike(x, y), y.sid = x.sid, \A l : Toward(l, x.sid, m) => Toward(l, x.sid, n)
  PROVE  Facing(y, v, q, p, n)
BY DEF Facing, Lost, Early, Alike

(* A step of one of a request's own calls.                                 *)
LEMMA FacingCalls ==
  ASSUME HeldHere, Known, TurnInv, DoneNames, NEW r \in Requests,
         Facing(chat[r], call[Resolve(r)], call[Question(r)], call[Reply(r)], meta),
         NEW c \in Calls, CallStep(c) \/ Cut(c), Opened
  PROVE  Facing(chat'[r], call'[Resolve(r)], call'[Question(r)], call'[Reply(r)], meta')
<1> DEFINE x == chat[r]
           v == call[Resolve(r)]
           q == call[Question(r)]
           p == call[Reply(r)]
           y == chat'[r]
           w == call'[Resolve(r)]
           o == call'[Question(r)]
           a == call'[Reply(r)]
<1>1. /\ Resolve(r) \in Calls /\ Question(r) \in Calls /\ Reply(r) \in Calls
      /\ Resolve(r) # Question(r) /\ Resolve(r) # Reply(r) /\ Question(r) # Reply(r)
  BY PartAssumption DEF Resolve, Question, Reply, Role
<1>2. /\ \A d \in Calls \ {c} : call'[d] = call[d]
      /\ call[c].pc \notin Ended \cup {"new"} /\ call'[c].pc # "new"
      /\ call'[c].op = call[c].op
  BY OneCall, DoneMoves
<1>3. [Next]_vars
  BY DEF Next
<1>4. x.sid \in issued \cup {None}
  BY DEF Known
<1>5. \A l : Toward(l, x.sid, meta) => Toward(l, x.sid, meta')
  BY <1>3, <1>4, TowardStays
<1>6. /\ y.pc = x.pc /\ y.via = x.via /\ y.degraded = x.degraded
      /\ y.sid = IF x.pc = "ask" /\ q.pc = "open" THEN o.sid ELSE x.sid
  BY OpenedGoes
<1>7. Facing(x, v, q, p, meta)
  OBVIOUS
<1>8. ASSUME c \in {Question(r), Reply(r)}, call[c].op \in {"ask", "answer"}, Toward(call[c], x.sid, meta)
      PROVE  Toward(call'[c], IF call[c].pc = "open" THEN call'[c].sid ELSE x.sid, meta')
  BY <1>4, <1>8, TowardMoves
<1>9. Scripted(q) /\ Scripted(p)
  BY <1>1 DEF TurnInv
<1>10. CASE c = Resolve(r)
  <2>1. o = q /\ a = p
    BY <1>1, <1>2, <1>10
  <2>2. w.op = v.op /\ w.pc # "new" /\ v.pc \notin Ended
    BY <1>2, <1>10
  <2>3. x.pc = "resolve"
    BY <1>7, <2>2, FacingWhere
  <2>4. y.sid = x.sid
    BY <1>6, <2>3
  <2> HIDE DEF x, v, q, p, y, w, o, a
  <2>5. Facing(y, w, o, a, meta')
    BY <1>5, <1>6, <1>7, <2>1, <2>2, <2>3, <2>4, FacingMaps DEF Alike
  <2>6. QED BY <2>5 DEF x, v, q, p, y, w, o, a
<1>11. CASE c = Question(r)
  <2>1. w = v /\ a = p
    BY <1>1, <1>2, <1>11
  <2>2. o.op = q.op /\ o.pc # "new" /\ q.pc \notin Ended \cup {"new"}
    BY <1>2, <1>11
  <2>3. x.pc = "ask" /\ ~ x.degraded /\ q.op \in {"ask", "answer"} /\ q.pc # "new"
    BY <1>7, <2>2, FacingWhere
  <2>4. q.op = "answer" => q.pc # "open"
    BY <1>9 DEF Scripted, Replacing
  <2>5. Toward(q, x.sid, meta)
    BY <1>7, <2>3 DEF Facing, Lost
  <2>6. Toward(o, IF q.pc = "open" THEN o.sid ELSE x.sid, meta')
    BY <1>8, <1>11, <2>3, <2>5
  <2> HIDE DEF x, v, q, p, y, w, o, a
  <2>7. Toward(o, y.sid, meta') /\ (q.op = "answer" => y.sid = x.sid)
    BY <1>6, <2>3, <2>4, <2>6
  <2>8. Facing(y, w, o, a, meta')
    BY <1>6, <1>7, <2>1, <2>2, <2>3, <2>7, FacingAsks DEF Alike
  <2>9. QED BY <2>8 DEF x, v, q, p, y, w, o, a
<1>12. CASE c = Reply(r)
  <2>1. w = v /\ o = q
    BY <1>1, <1>2, <1>12
  <2>2. a.op = p.op /\ a.pc # "new" /\ p.pc # "new"
    BY <1>2, <1>12
  <2>3. x.pc \in {"reply", "answered"} /\ p.op = "answer"
    BY <1>7, <2>2, FacingWhere
  <2>4. p.pc # "open"
    BY <1>9, <2>3 DEF Scripted, Replacing
  <2>5. Toward(p, x.sid, meta)
    BY <1>7 DEF Facing
  <2>6. Toward(a, IF p.pc = "open" THEN a.sid ELSE x.sid, meta')
    BY <1>8, <1>12, <2>3, <2>5
  <2> HIDE DEF x, v, q, p, y, w, o, a
  <2>7. y.sid = x.sid /\ Toward(a, y.sid, meta')
    BY <1>6, <2>3, <2>4, <2>6
  <2>8. Facing(y, w, o, a, meta')
    BY <1>5, <1>6, <1>7, <2>1, <2>2, <2>7, FacingSays DEF Alike
  <2>9. QED BY <2>8 DEF x, v, q, p, y, w, o, a
<1>13. CASE c \notin {Resolve(r), Question(r), Reply(r)}
  <2>1. w = v /\ o = q /\ a = p
    BY <1>1, <1>2, <1>13
  <2> HIDE DEF x, v, q, p, y, w, o, a
  <2>2. y.sid = x.sid
    <3>1. ASSUME x.pc = "ask", q.pc = "open"
          PROVE  q.sid = x.sid
      <4>1. Toward(q, x.sid, meta)
        BY <1>7, <3>1, FacingWhere DEF Facing, Lost, Early
      <4>2. QED BY <3>1, <4>1 DEF Toward
    <3>2. QED BY <1>6, <2>1, <3>1
  <2>3. Facing(y, w, o, a, meta')
    BY <1>5, <1>6, <1>7, <2>1, <2>2, FacingRests DEF Alike
  <2>4. QED BY <2>3 DEF x, v, q, p, y, w, o, a
<1>14. QED BY <1>10, <1>11, <1>12, <1>13

(* The steps of a request itself, on x and its calls.                      *)
LEMMA FacingGoes ==
  ASSUME NEW x, NEW v, NEW q, NEW p, NEW m, NEW y, Facing(x, v, q, p, m), Keeps(x, y),
         \/ x.pc \in {"shrink", "get", "setex"} /\ y.pc \in {"shrink", "get", "setex", "upstream"}
         \/ x.pc = "ask" /\ q.pc \in Ended /\ y.pc = "shrink"
         \/ x.pc = "reply" /\ y.pc = "answered"
         \/ x.pc = "upstream" /\ y.pc \in {"refused", "answered"}
  PROVE  Facing(y, v, q, p, m)
BY DEF Facing, Lost, Early, Keeps

LEMMA FacingStarts ==
  ASSUME NEW v, NEW q, NEW p, NEW m, NEW y, y.pc = "resolve", ~ y.degraded,
         v.op = "chat", v.pc # "new", q.pc = "new", p.pc = "new"
  PROVE  Facing(y, v, q, p, m)
BY DEF Facing, Lost, Early, Toward

LEMMA FacingResolved ==
  ASSUME NEW x, NEW v, NEW q, NEW p, NEW m, NEW y, NEW o, Facing(x, v, q, p, m),
         x.pc = "resolve", v.pc \in Ended, v.pc = "done" => v.sid # None,
         y.degraded = x.degraded, y.sid = IF v.pc = "done" THEN v.sid ELSE None,
         \/ y.pc = "shrink" /\ o = q
         \/ /\ y.pc = "ask"
            /\ \/ y.sid = None /\ o.op = "ask" /\ o.pc = "open" /\ o.sid = None
               \/ y.sid # None /\ o.op = "answer" /\ o.pc = "owner" /\ o.sid = y.sid
  PROVE  Facing(y, v, o, p, m)
<1>1. ~ x.degraded /\ p.pc = "new" /\ q.pc = "new" /\ v.op = "chat"
  BY FacingWhere DEF Facing, Early
<1>2. Toward(p, y.sid, m) /\ Toward(o, y.sid, m)
  BY <1>1 DEF Toward
<1>3. QED BY <1>1, <1>2 DEF Facing, Lost, Early, Ended

LEMMA FacingFails ==
  ASSUME NEW x, NEW v, NEW q, NEW p, NEW m, NEW y, Facing(x, v, q, p, m),
         x.pc \in {"get", "setex"}, y.pc = "upstream", y.degraded,
         y.sid = IF v.pc = "done" THEN v.sid ELSE None
  PROVE  Facing(y, v, q, p, m)
<1>1. ~ x.degraded /\ p.pc = "new"
  BY FacingWhere DEF Early
<1>2. Toward(p, y.sid, m)
  BY <1>1 DEF Toward
<1>3. v.pc = "done" => x.sid = y.sid
  BY DEF Facing
<1>4. v.pc = "done" => Toward(q, y.sid, m)
  BY <1>3 DEF Facing, Lost
<1>5. QED BY <1>1, <1>2, <1>3, <1>4 DEF Facing, Lost, Early

LEMMA FacingAnswers ==
  ASSUME NEW x, NEW v, NEW q, NEW p, NEW m, NEW y, NEW a, Facing(x, v, q, p, m),
         x.pc = "upstream", y.pc = "reply", y.degraded = x.degraded, y.sid = x.sid, x.sid # None,
         a.op = "answer", a.pc = "owner", a.sid = x.sid
  PROVE  Facing(y, v, q, a, m)
<1>1. Toward(a, y.sid, m)
  BY DEF Toward
<1>2. QED BY <1>1 DEF Facing, Lost, Early

LEMMA BeginsAs ==
  ASSUME HeldHere, NEW c \in Calls, NEW a, NEW op, NEW s, NEW says, NEW pc,
         BeginAs(c, a, op, s, says, pc)
  PROVE  /\ call'[c].pc = pc /\ call'[c].op = op /\ call'[c].sid = s
         /\ \A d \in Calls \ {c} : call'[d] = call[d]
<1>1. call \in [Calls -> Local]
  BY DEF HeldHere, ToolTypeOK
<1>2. call'[c] = [pc |-> pc, op |-> op, sid |-> s, says |-> says, as |-> a]
  BY <1>1 DEF BeginAs
<1>3. QED BY <1>1, <1>2 DEF BeginAs

LEMMA Begins ==
  ASSUME HeldHere, NEW c \in Calls, NEW op, NEW s, NEW says, NEW pc, Begin(c, op, s, says, pc)
  PROVE  /\ call'[c].pc = pc /\ call'[c].op = op /\ call'[c].sid = s
         /\ \A d \in Calls \ {c} : call'[d] = call[d]
BY BeginsAs DEF Begin

LEMMA Saying ==
  ASSUME HeldHere, NEW c \in Calls, NEW s, ToSay(c, s)
  PROVE  /\ \/ s = None /\ call'[c].op = "ask" /\ call'[c].pc = "open" /\ call'[c].sid = None
            \/ s # None /\ call'[c].op = "answer" /\ call'[c].pc = "owner" /\ call'[c].sid = s
         /\ \A d \in Calls \ {c} : call'[d] = call[d]
<1>1. CASE s = None
  <2>1. Begin(c, "ask", None, TRUE, "open")
    BY <1>1 DEF ToSay
  <2>2. /\ call'[c].op = "ask" /\ call'[c].pc = "open" /\ call'[c].sid = None
        /\ \A d \in Calls \ {c} : call'[d] = call[d]
    BY <2>1, Begins
  <2>3. QED BY <1>1, <2>2
<1>2. CASE s # None
  <2>1. Begin(c, "answer", s, TRUE, "owner")
    BY <1>2 DEF ToSay
  <2>2. QED BY <1>2, <2>1, Begins
<1>3. QED BY <1>1, <1>2

(* A request's own step keeps to it.                                       *)
LEMMA MeetingGoes ==
  ASSUME HeldHere, Known, DoneNames, NEW r \in Requests, RequestStep(r),
         Meeting(chat[r], call[Resolve(r)], call[Question(r)], call[Reply(r)], meta)
  PROVE  Meeting(chat'[r], call'[Resolve(r)], call'[Question(r)], call'[Reply(r)], meta')
<1> DEFINE x == chat[r]
           v == call[Resolve(r)]
           q == call[Question(r)]
           p == call[Reply(r)]
           y == chat'[r]
           w == call'[Resolve(r)]
           o == call'[Question(r)]
           a == call'[Reply(r)]
<1>1. /\ Resolve(r) \in Calls /\ Question(r) \in Calls /\ Reply(r) \in Calls
      /\ Resolve(r) # Question(r) /\ Resolve(r) # Reply(r) /\ Question(r) # Reply(r)
      /\ Question(r) = Part[r]["question"] /\ Reply(r) = Part[r]["reply"]
      /\ Resolve(r) = Part[r]["resolve"]
      /\ "question" \in Role /\ "reply" \in Role /\ "resolve" \in Role
  BY PartAssumption DEF Resolve, Question, Reply, Role
<1>2. meta' = meta
  BY DEF RequestStep, Chat, Prepare, Compress, Normalize, Middleware, Resolved, Asked, Shrink,
         GetRef, SetRef, FailRef, Ready, Upstream, Replied, Untouched, Elsewhere, wmVars, store
<1>3. /\ x.pc = "new" => ~ x.degraded
      /\ x.pc # "new" /\ x.via = "gateway" => Facing(x, v, q, p, meta)
  BY DEF Meeting
<1>4. SUFFICES y.pc # "new" /\ (y.via = "gateway" => Facing(y, w, o, a, meta))
  BY <1>2 DEF Meeting
<1>5. CASE Busied(r)
  <2>1. y.pc # "new" /\ x.pc # "new" /\ Keeps(x, y) /\ w = v /\ o = q /\ a = p
    BY <1>5, BusiedGoes DEF vars
  <2>2. \/ x.pc \in {"shrink", "get", "setex"} /\ y.pc \in {"shrink", "get", "setex", "upstream"}
        \/ x.pc = "ask" /\ q.pc \in Ended /\ y.pc = "shrink"
        \/ x.pc = "reply" /\ y.pc = "answered"
        \/ x.via # "gateway"
    BY <1>5, BusiedGoes DEF Returned
  <2> HIDE DEF x, v, q, p, y, w, o, a
  <2>3. QED BY <1>3, <2>1, <2>2, FacingGoes DEF Keeps
<1>6. CASE FailRef(r)
  <2>1. /\ x.pc \in {"get", "setex"} /\ y.via = x.via /\ y.pc # "new"
        /\ \/ x.via # "gateway"
           \/ /\ x.via = "gateway" /\ y.pc = "upstream" /\ y.degraded
              /\ y.sid = IF v.pc = "done" THEN v.sid ELSE None
        /\ w = v /\ o = q /\ a = p
    BY <1>6, FailGoes DEF Elsewhere
  <2> HIDE DEF x, v, q, p, y, w, o, a
  <2>2. x.pc # "new"
    BY <2>1
  <2>3. QED BY <1>3, <2>1, <2>2, FacingFails
<1>7. CASE Chat(r)
  <2>1. PICK body, fresh : Arrive(r, "gateway", body, fresh, None, "resolve")
    BY <1>7 DEF Chat
  <2>2. scene' = scene /\ Begin(Resolve(r), "chat", None, FALSE, "pin")
    BY <1>7 DEF Chat, ToResolve
  <2>3. y.pc = "resolve" /\ y.degraded = x.degraded /\ x.pc = "new" /\ q.pc = "new" /\ p.pc = "new"
    BY <1>1, <2>1, <2>2, ArriveGoes
  <2>4. w.pc = "pin" /\ w.op = "chat" /\ o = q /\ a = p
    BY <1>1, <2>2, Begins
  <2> HIDE DEF x, v, q, p, y, w, o, a
  <2>5. QED BY <1>3, <2>3, <2>4, FacingStarts
<1>8. CASE Prepare(r) \/ Compress(r) \/ Normalize(r) \/ Middleware(r)
  <2>1. scene' = scene
    BY <1>8 DEF Prepare, Compress, Normalize, Middleware
  <2>2. ASSUME NEW via, NEW body, NEW fresh, NEW s, NEW pc, Arrive(r, via, body, fresh, s, pc),
               via # "gateway", pc # "new"
        PROVE  y.pc # "new" /\ y.via # "gateway"
    BY <2>1, <2>2, ArriveGoes
  <2>3. CASE Prepare(r)
    BY <2>2, <2>3 DEF Prepare
  <2>4. CASE Compress(r)
    BY <2>2, <2>4 DEF Compress
  <2>5. CASE Normalize(r) \/ Middleware(r)
    BY <2>2, <2>5 DEF Normalize, Middleware, Normalized
  <2>6. QED BY <1>8, <2>3, <2>4, <2>5
<1>9. CASE Resolved(r)
  <2> DEFINE s == IF v.pc = "done" THEN v.sid ELSE None
             pc == IF x.fresh THEN "ask" ELSE "shrink"
  <2>1. /\ x.pc = "resolve" /\ v.pc \in Ended
        /\ chat' = [chat EXCEPT ![r] = [chat[r] EXCEPT !.sid = s, !.pc = pc]]
        /\ IF x.fresh THEN ToSay(Question(r), s) ELSE UNCHANGED call
    BY <1>9 DEF Resolved, Returned
  <2>2. v.pc = "done" => v.sid # None
    BY <1>1 DEF DoneNames
  <2>3. y.sid = s /\ y.pc = pc /\ y.via = x.via /\ y.degraded = x.degraded
    <3> HIDE DEF s, pc
    <3>1. QED BY <2>1 DEF Known, Locals
  <2>4. /\ \/ y.pc = "shrink" /\ o = q
           \/ /\ y.pc = "ask"
              /\ \/ s = None /\ o.op = "ask" /\ o.pc = "open" /\ o.sid = None
                 \/ s # None /\ o.op = "answer" /\ o.pc = "owner" /\ o.sid = s
        /\ w = v /\ a = p
    <3>1. CASE x.fresh
      <4> HIDE DEF s
      <4>1. ToSay(Question(r), s) /\ y.pc = "ask"
        BY <2>1, <2>3, <3>1
      <4>2. QED BY <1>1, <4>1, Saying
    <3>2. CASE ~ x.fresh
      BY <2>1, <2>3, <3>2
    <3>3. QED BY <3>1, <3>2
  <2>5. y.sid = IF v.pc = "done" THEN v.sid ELSE None
    BY <2>3
  <2>6. s = y.sid
    BY <2>3
  <2> HIDE DEF x, v, q, p, y, w, o, a, s, pc
  <2>7. y.pc # "new" /\ x.pc # "new"
    BY <2>1, <2>4
  <2>8. QED BY <1>3, <2>1, <2>2, <2>3, <2>4, <2>5, <2>6, <2>7, FacingResolved
<1>10. CASE Upstream(r)
  <2>1. PICK pc \in {"refused", "answered", "reply"} : Move(r, pc)
           /\ \/ pc # "reply" /\ UNCHANGED call
              \/ pc = "reply" /\ x.sid # None /\ ToSay(Reply(r), x.sid)
    BY <1>10 DEF Upstream, AppendAnswer
  <2>2. scene' = scene /\ x.pc = "upstream"
    BY <1>10 DEF Upstream
  <2>3. y.pc = pc /\ Keeps(x, y)
    BY <2>1, <2>2, MoveGoes DEF Locals, Keeps
  <2>4. w = v /\ o = q /\ (pc # "reply" => a = p)
        /\ (pc = "reply" => x.sid # None /\ a.op = "answer" /\ a.pc = "owner" /\ a.sid = x.sid)
    <3>1. CASE pc = "reply"
      <4>1. x.sid # None /\ ToSay(Reply(r), x.sid)
        BY <2>1, <3>1
      <4>2. QED BY <1>1, <3>1, <4>1, Saying
    <3>2. CASE pc # "reply"
      BY <2>1, <3>2
    <3>3. QED BY <3>1, <3>2
  <2> HIDE DEF x, v, q, p, y, w, o, a
  <2>5. CASE pc = "reply"
    BY <1>3, <2>2, <2>3, <2>4, <2>5, FacingAnswers DEF Keeps
  <2>6. CASE pc # "reply"
    BY <1>3, <2>1, <2>2, <2>3, <2>4, <2>6, FacingGoes DEF Keeps
  <2>7. QED BY <2>5, <2>6
<1>11. QED BY <1>5, <1>6, <1>7, <1>8, <1>9, <1>10 DEF RequestStep, Busied

(* A call that starts has not ended.                                       *)
LEMMA StartsOpen ==
  ASSUME HeldHere, NEW c \in Calls, Start(c)
  PROVE  call'[c].pc \notin Ended
<1>1. ASSUME NEW a, NEW op, NEW s, NEW says, NEW pc, BeginAs(c, a, op, s, says, pc), pc \notin Ended
      PROVE  call'[c].pc \notin Ended
  BY <1>1, BeginsAs
<1>2. \A pc \in {"open", "pointer", "owner", "close owner", "pin"} : pc \notin Ended
  BY DEF Ended
<1>3. QED
  BY <1>1, <1>2
     DEF Start, Begin, ToOpen, ToEnsure, ToAppend, ToCommit, ToClose, ToSay, ToResolve

(* A request that stays where it is: it is new, or its calls stay too.     *)
LEMMA MeetingRests ==
  ASSUME HeldHere, Known, [Next]_vars, NEW r \in Requests, chat'[r] = chat[r],
         \/ chat[r].pc = "new"
         \/ \A k \in Role : call'[Part[r][k]] = call[Part[r][k]],
         Meeting(chat[r], call[Resolve(r)], call[Question(r)], call[Reply(r)], meta)
  PROVE  Meeting(chat'[r], call'[Resolve(r)], call'[Question(r)], call'[Reply(r)], meta')
<1>1. CASE chat[r].pc = "new"
  BY <1>1 DEF Meeting
<1>2. CASE chat[r].pc # "new"
  <2>1. /\ call'[Resolve(r)] = call[Resolve(r)] /\ call'[Question(r)] = call[Question(r)]
        /\ call'[Reply(r)] = call[Reply(r)]
    BY <1>2 DEF Resolve, Question, Reply, Role
  <2>2. chat[r].sid \in issued \cup {None}
    BY DEF Known
  <2>3. Facing(chat[r], call[Resolve(r)], call[Question(r)], call[Reply(r)], meta) =>
          Facing(chat[r], call[Resolve(r)], call[Question(r)], call[Reply(r)], meta')
    BY <2>2, FacingStays
  <2>4. QED BY <1>2, <2>1, <2>3 DEF Meeting
<1>3. QED BY <1>1, <1>2

LEMMA StepMeets ==
  ASSUME HeldHere, Known, TurnInv, MeetInv, [GatewayNext]_allVars
  PROVE  MeetInv'
<1> DEFINE Met(r) == Meeting(chat[r], call[Resolve(r)], call[Question(r)], call[Reply(r)], meta)
           MetNext(r) == Meeting(chat'[r], call'[Resolve(r)], call'[Question(r)], call'[Reply(r)], meta')
<1>1. [Next]_vars /\ DoneNames /\ \A r \in Requests : Met(r)
  BY StepKnows DEF MeetInv
<1>2. SUFFICES DoneNames' /\ \A r \in Requests : MetNext(r)
  BY DEF MeetInv, Resolve, Question, Reply
<1>3. ASSUME NEW c \in Calls, Start(c)
      PROVE  DoneNames'
  BY <1>1, <1>3, OneCall, StartsOpen DEF DoneNames, Ended
<1>4. ASSUME UNCHANGED <<call, chat>>
      PROVE  DoneNames' /\ \A r \in Requests : MetNext(r)
  BY <1>1, <1>4, MeetingRests DEF DoneNames
<1>5. ASSUME NEW r \in Requests, RequestStep(r)
      PROVE  DoneNames' /\ \A z \in Requests : MetNext(z)
  <2>1. Onward(r) /\ (UNCHANGED call \/ \E k \in Role : Start(Part[r][k]))
    BY <1>5, BusiedGoes, FailGoes, CallingGoes DEF RequestStep, Busied, Elsewhere, vars
  <2>2. MetNext(r)
    BY <1>1, <1>5, MeetingGoes
  <2>3. Part \in [Requests -> [Role -> Calls]]
    BY PartAssumption
  <2>4. DoneNames'
    BY <1>1, <1>3, <2>1, <2>3 DEF DoneNames
  <2>5. ASSUME NEW z \in Requests, z # r
        PROVE  MetNext(z)
    <3>1. \A k, l \in Role : Part[z][k] # Part[r][l]
      BY <2>5, PartAssumption
    <3>2. \A k \in Role : call'[Part[z][k]] = call[Part[z][k]]
      BY <2>1, <2>3, <3>1, OneCall
    <3>3. chat'[z] = chat[z]
      BY <2>1, <2>5 DEF Onward
    <3>4. QED BY <1>1, <3>2, <3>3, MeetingRests
  <2>6. QED BY <2>2, <2>4, <2>5
<1>6. CASE SessionStep
  <2>1. PICK c \in Calls : CallStep(c) \/ Cut(c)
    BY <1>6 DEF SessionStep
  <2>2. Opened
    BY <1>6 DEF SessionStep
  <2>3. DoneNames'
    BY <1>1, <2>1, OneCall, DoneMoves DEF DoneNames
  <2>4. ASSUME NEW r \in Requests
        PROVE  MetNext(r)
    <3>1. chat'[r].pc = chat[r].pc /\ chat'[r].via = chat[r].via
          /\ chat'[r].degraded = chat[r].degraded
      BY <2>2, OpenedGoes
    <3>2. Facing(chat[r], call[Resolve(r)], call[Question(r)], call[Reply(r)], meta) =>
            Facing(chat'[r], call'[Resolve(r)], call'[Question(r)], call'[Reply(r)], meta')
      BY <1>1, <2>1, <2>2, FacingCalls
    <3>3. QED BY <1>1, <3>1, <3>2 DEF Meeting
  <2>5. QED BY <2>3, <2>4
<1>7. CASE ToolCall
  <2>1. PICK c \in scene.tools :
          /\ \A r \in Requests, k \in Role : c = Part[r][k] => chat[r].pc = "new"
          /\ Room(c) /\ (ToOpen(c) \/ ToEnsure(c) \/ ToAppend(c) \/ ToCommit(c) \/ ToClose(c))
    BY <1>7 DEF ToolCall
  <2>2. c \in Calls
    BY <2>1, ScenesAssumption DEF Known
  <2>3. Start(c) /\ UNCHANGED chat
    BY <1>7, <2>1 DEF ToolCall, Start, Untouched, gatewayVars
  <2>4. ASSUME NEW r \in Requests
        PROVE  MetNext(r)
    <3>1. chat[r].pc = "new" \/ \A k \in Role : call'[Part[r][k]] = call[Part[r][k]]
      BY <2>1, <2>2, <2>3, OneCall, PartAssumption
    <3>2. QED BY <1>1, <2>3, <3>1, MeetingRests
  <2>5. QED BY <1>3, <2>2, <2>3, <2>4
<1>8. CASE Retrieve \/ Around \/ ExpireRef \/ UNCHANGED allVars
  <2>1. UNCHANGED <<call, chat>>
    BY <1>8 DEF Retrieve, Around, ExpireRef, Elsewhere, ExpireKey, Expire, Worker, allVars, vars,
                gatewayVars
  <2>2. QED BY <1>4, <2>1
<1>9. ASSUME NEW r \in scene.requests, RequestStep(r)
      PROVE  DoneNames' /\ \A z \in Requests : MetNext(z)
  BY <1>5, <1>9, ScenesAssumption DEF Known
<1>10. QED BY <1>6, <1>7, <1>8, <1>9 DEF GatewayNext

(* The question and the answer of a request are in one session, unless the *)
(* one it knew has closed or expired, and it knows one unless both its     *)
(* mapping and its pipeline failed.                                        *)
THEOREM GatewayTurnsMeet == GatewaySpec => []TurnsMeet
<1> DEFINE Inv == HeldHere /\ Known /\ TurnInv /\ MeetInv
<1>1. GatewayInit => Inv
  <2> SUFFICES ASSUME GatewayInit PROVE Inv
    OBVIOUS
  <2>1. HeldHere /\ Known /\ TurnInv
    BY InitKnows, InitTurns DEF GatewayInit
  <2>2. DoneNames
    BY DEF GatewayInit, Init, Fresh, DoneNames
  <2>3. \A r \in Requests : chat[r].pc = "new" /\ ~ chat[r].degraded
    BY DEF GatewayInit
  <2>4. QED BY <2>1, <2>2, <2>3 DEF MeetInv, Meeting
<1>2. Inv /\ [GatewayNext]_allVars => Inv'
  BY StepKnows, StepTurns, StepMeets
<1>3. Inv => TurnsMeet
  BY MeetInvMeets
<1>4. QED BY <1>1, <1>2, <1>3, PTL DEF GatewaySpec

----------------------------------------------------------------------------

(* The positions of a set have different ranks, which are all there are.   *)
LEMMA Ranks ==
  ASSUME NEW W \in SUBSET Int, IsFiniteSet(W)
  PROVE  /\ \A i \in W : Rank(i, W) \in 1 .. Cardinality(W)
         /\ \A i, j \in W : Rank(i, W) = Rank(j, W) => i = j
         /\ \A k \in 1 .. Cardinality(W) : \E i \in W : Rank(i, W) = k
<1> DEFINE Upto(i) == {j \in W : j <= i}
           n == Cardinality(W)
<1>1. n \in Nat
  BY FS_CardinalityType
<1>2. ASSUME NEW i \in W
      PROVE  IsFiniteSet(Upto(i)) /\ Rank(i, W) \in 1 .. n /\ Rank(i, W) = Cardinality(Upto(i))
  <2>1. Upto(i) \in SUBSET W /\ i \in Upto(i)
    OBVIOUS
  <2>2. IsFiniteSet(Upto(i)) /\ Cardinality(Upto(i)) <= n
    BY <2>1, FS_Subset
  <2>3. Cardinality(Upto(i)) \in Nat /\ Cardinality(Upto(i)) # 0
    BY <2>1, <2>2, FS_CardinalityType, FS_EmptySet
  <2>4. QED BY <1>1, <2>2, <2>3 DEF Rank
<1>3. ASSUME NEW i \in W, NEW j \in W, i < j
      PROVE  Rank(i, W) # Rank(j, W)
  <2>1. Upto(i) \in SUBSET Upto(j) /\ j \in Upto(j) /\ j \notin Upto(i)
    <3>1. i \in Int /\ j \in Int /\ j <= j /\ ~ (j <= i) /\ \A x \in W : x <= i => x <= j
      BY <1>3
    <3>2. QED BY <3>1, Zenon
  <2>2. Cardinality(Upto(j)) # Cardinality(Upto(i))
    BY <1>2, <2>1, FS_Subset
  <2>3. QED BY <1>2, <2>2
<1>4. \A i, j \in W : Rank(i, W) = Rank(j, W) => i = j
  BY <1>3
<1>5. \A k \in 1 .. n : \E i \in W : Rank(i, W) = k
  <2> DEFINE f == [i \in W |-> Rank(i, W)]
  <2>0. f \in [W -> 1 .. n] /\ \A i \in W : f[i] = Rank(i, W)
    BY <1>2
  <2> HIDE DEF f
  <2>1. f \in Injection(W, 1 .. n)
    BY <1>4, <2>0 DEF Injection, IsInjective
  <2>2. IsFiniteSet(1 .. n) /\ Cardinality(1 .. n) = n
    BY <1>1, FS_Interval
  <2>3. f \in Surjection(W, 1 .. n)
    BY <2>1, <2>2, FS_Injection
  <2>4. QED BY <2>0, <2>3 DEF Surjection
<1>6. QED BY <1>2, <1>4, <1>5

(* A set of positions in order: each of them, at its rank.                 *)
LEMMA InOrder ==
  ASSUME NEW W \in SUBSET Int, IsFiniteSet(W)
  PROVE  /\ Ordered(W) \in Seq(W) /\ Len(Ordered(W)) = Cardinality(W)
         /\ \A i \in W : Rank(i, W) \in 1 .. Cardinality(W) /\ Ordered(W)[Rank(i, W)] = i
<1> DEFINE n == Cardinality(W)
           At(k) == CHOOSE i \in W : Rank(i, W) = k
<1>1. n \in Nat
  BY FS_CardinalityType
<1>2. ASSUME NEW k \in 1 .. n
      PROVE  At(k) \in W /\ Rank(At(k), W) = k
  BY Ranks
<1>3. Ordered(W) = [k \in 1 .. n |-> At(k)]
  BY DEF Ordered
<1> HIDE DEF At, n
<1>4. Ordered(W) \in [1 .. n -> W]
  BY <1>2, <1>3
<1>5. Ordered(W) \in Seq(W) /\ Len(Ordered(W)) = n
  BY <1>1, <1>4
<1>6. ASSUME NEW i \in W
      PROVE  Rank(i, W) \in 1 .. n /\ Ordered(W)[Rank(i, W)] = i
  <2>1. Rank(i, W) \in 1 .. n
    BY Ranks DEF n
  <2>2. At(Rank(i, W)) \in W /\ Rank(At(Rank(i, W)), W) = Rank(i, W)
    BY <1>2, <2>1
  <2>3. At(Rank(i, W)) = i
    BY <2>2, Ranks
  <2>4. QED BY <1>3, <2>1, <2>3
<1>7. QED BY <1>5, <1>6 DEF n

(* The lines at some positions are lines of the text.                      *)
LEMMA LinesAt ==
  ASSUME NEW c, NEW w \in Seq(DOMAIN c.lines)
  PROVE  /\ Lines(c, w) \in Seq(Items(c.lines)) /\ Len(Lines(c, w)) = Len(w)
         /\ \A k \in 1 .. Len(w) : Lines(c, w)[k] = c.lines[w[k]]
<1>1. Len(w) \in Nat /\ DOMAIN w = 1 .. Len(w) /\ \A k \in 1 .. Len(w) : w[k] \in DOMAIN c.lines
  OBVIOUS
<1>2. Lines(c, w) = [k \in 1 .. Len(w) |-> c.lines[w[k]]]
  BY <1>1 DEF Lines
<1>3. \A k \in 1 .. Len(w) : c.lines[w[k]] \in Items(c.lines)
  BY <1>1 DEF Items
<1>4. Lines(c, w) \in [1 .. Len(w) -> Items(c.lines)]
  BY <1>2, <1>3
<1>5. QED BY <1>1, <1>2, <1>4

(* Appending adds one item, at the end.                                    *)
LEMMA Appended ==
  ASSUME NEW A, NEW s \in Seq(A), NEW x
  PROVE  /\ Append(s, x) \in Seq(Items(Append(s, x)))
         /\ Items(Append(s, x)) = Items(s) \cup {x}
         /\ Starts(s, Append(s, x))
<1>1. s \in Seq(A \cup {x})
  BY SeqMonotonic
<1>2. /\ Append(s, x) \in Seq(A \cup {x}) /\ Len(Append(s, x)) = Len(s) + 1
      /\ \A i \in 1 .. Len(s) : Append(s, x)[i] = s[i]
      /\ Append(s, x)[Len(s) + 1] = x
  BY <1>1, AppendProperties
<1>3. /\ Len(s) \in Nat /\ DOMAIN s = 1 .. Len(s)
      /\ DOMAIN Append(s, x) = 1 .. Len(s) + 1
  BY <1>1, <1>2, LenProperties
<1> DEFINE t == Append(s, x)
<1>4. Starts(s, t)
  BY <1>2, <1>3 DEF Starts
<1>5. Items(t) = Items(s) \cup {x}
  <2>1. ASSUME NEW y \in Items(t)
        PROVE  y \in Items(s) \cup {x}
    <3>1. PICK i \in 1 .. Len(s) + 1 : y = t[i]
      BY <1>3, <2>1 DEF Items
    <3>2. CASE i = Len(s) + 1
      BY <1>2, <3>1, <3>2
    <3>3. CASE i \in 1 .. Len(s)
      BY <1>2, <1>3, <3>1, <3>3 DEF Items
    <3>4. QED BY <1>3, <3>2, <3>3
  <2>2. ASSUME NEW y \in Items(s)
        PROVE  y \in Items(t)
    <3>1. PICK i \in 1 .. Len(s) : y = s[i]
      BY <1>3, <2>2 DEF Items
    <3>2. t[i] = y /\ i \in DOMAIN t
      BY <1>2, <1>3, <3>1
    <3>3. QED BY <3>2 DEF Items
  <2>3. x \in Items(t)
    <3>1. Len(s) + 1 \in DOMAIN t
      BY <1>3
    <3>2. QED BY <1>2, <3>1 DEF Items
  <2>4. QED BY <2>1, <2>2, <2>3
<1>6. t \in Seq(Items(t))
  <2>1. \A i \in 1 .. Len(t) : t[i] \in Items(t)
    BY <1>2, <1>3 DEF Items
  <2>2. t \in [1 .. Len(t) -> Items(t)] /\ Len(t) \in Nat
    <3> HIDE DEF t
    <3>1. t \in Seq(A \cup {x})
      BY <1>2 DEF t
    <3>2. QED BY <2>1, <3>1
  <2> HIDE DEF t
  <2>3. QED BY <2>2
<1>7. QED BY <1>4, <1>5, <1>6

(* Where a text is cut: its positions are those of its beginning, its      *)
(* middle and its end, and there are more in the middle than are kept.     *)
LEMMA Sections ==
  ASSUME NEW c, c.lines \in Seq(Items(c.lines)), Len(c.lines) > Heading + Between + Trailing
  PROVE  /\ DOMAIN c.lines = 1 .. Len(c.lines) /\ IsFiniteSet(DOMAIN c.lines)
         /\ DOMAIN c.lines = Beginning(c) \cup Middle(c) \cup Ending(c)
         /\ Cardinality(Middle(c)) > Between
         /\ ErrorAt(c) \subseteq DOMAIN c.lines
<1>1. Len(c.lines) \in Nat /\ DOMAIN c.lines = 1 .. Len(c.lines)
  OBVIOUS
<1>2. Heading \in Nat \ {0} /\ Trailing \in Nat \ {0} /\ Between \in Nat \ {0}
  BY KeepsAssumption
<1>3. 1 .. Len(c.lines) = Beginning(c) \cup Middle(c) \cup Ending(c)
  BY <1>1, <1>2 DEF Beginning, Middle, Ending
<1>4. IsFiniteSet(1 .. Len(c.lines))
  BY <1>1, FS_Interval
<1>5. Cardinality(Middle(c)) = Len(c.lines) - Trailing - (Heading + 1) + 1
  <2>1. Heading + 1 \in Int /\ Len(c.lines) - Trailing \in Int /\ Heading + 1 <= Len(c.lines) - Trailing
    BY <1>1, <1>2
  <2>2. QED BY <2>1, FS_Interval DEF Middle
<1>6. QED BY <1>1, <1>2, <1>3, <1>4, <1>5 DEF ErrorAt

LEMMA InOrderAt ==
  ASSUME NEW c, c.lines \in Seq(Items(c.lines)), NEW W \in SUBSET DOMAIN c.lines
  PROVE  /\ IsFiniteSet(W) /\ W \in SUBSET Int /\ Ordered(W) \in Seq(DOMAIN c.lines)
<1>1. Len(c.lines) \in Nat /\ DOMAIN c.lines = 1 .. Len(c.lines)
  OBVIOUS
<1>2. IsFiniteSet(1 .. Len(c.lines))
  BY <1>1, FS_Interval
<1>3. IsFiniteSet(W) /\ W \in SUBSET Int
  BY <1>1, <1>2, FS_Subset
<1>4. Ordered(W) \in Seq(W)
  BY <1>3, InOrder
<1>5. QED BY <1>3, <1>4, SeqMonotonic

(* The lines at a set of positions, in order: they are lines of the text,  *)
(* and each of them is there.                                              *)
LEMMA LinesKept ==
  ASSUME NEW c, c.lines \in Seq(Items(c.lines)), NEW W \in SUBSET DOMAIN c.lines
  PROVE  /\ Lines(c, Ordered(W)) \in Seq(Items(c.lines))
         /\ \A i \in W : c.lines[i] \in Items(Lines(c, Ordered(W)))
<1>1. IsFiniteSet(W) /\ W \in SUBSET Int /\ Ordered(W) \in Seq(DOMAIN c.lines)
  BY InOrderAt
<1>2. Len(Ordered(W)) = Cardinality(W)
  BY <1>1, InOrder
<1>3. /\ Lines(c, Ordered(W)) \in Seq(Items(c.lines)) /\ Len(Lines(c, Ordered(W))) = Cardinality(W)
      /\ \A k \in 1 .. Cardinality(W) : Lines(c, Ordered(W))[k] = c.lines[Ordered(W)[k]]
  BY <1>1, <1>2, LinesAt
<1>4. DOMAIN Lines(c, Ordered(W)) = 1 .. Cardinality(W)
  BY <1>3, LenProperties
<1>5. ASSUME NEW i \in W
      PROVE  c.lines[i] \in Items(Lines(c, Ordered(W)))
  <2>1. Rank(i, W) \in 1 .. Cardinality(W) /\ Ordered(W)[Rank(i, W)] = i
    BY <1>1, InOrder
  <2>2. Lines(c, Ordered(W))[Rank(i, W)] = c.lines[i]
    BY <1>3, <2>1
  <2>3. QED BY <1>4, <2>1, <2>2 DEF Items
<1>6. QED BY <1>3, <1>5

(* What is left of an array, and of a log: lines of it, and its errors     *)
(* where there are no more of them than lines are kept of the middle.      *)
Spares(c, s) ==
  /\ s \in Seq(Items(c.lines))
  /\ Cardinality(ErrorAt(c)) <= Between => \A i \in ErrorAt(c) : c.lines[i] \in Items(s)

LEMMA ArrayLeft ==
  ASSUME NEW c, c.lines \in Seq(Items(c.lines)), Len(c.lines) > Heading + Between + Trailing,
         NEW s \in Crushed(c)
  PROVE  Spares(c, s)
<1>1. PICK best \in SUBSET Middle(c) :
        /\ s = Lines(c, Ordered(Beginning(c) \cup best \cup Ending(c)))
        /\ Cardinality(best) = Between
        /\ ErrorAt(c) \cap Middle(c) \subseteq best \/ best \subseteq ErrorAt(c) \cap Middle(c)
  BY DEF Crushed
<1> DEFINE W == Beginning(c) \cup best \cup Ending(c)
<1>2. W \in SUBSET DOMAIN c.lines
  BY Sections
<1>3. ASSUME Cardinality(ErrorAt(c)) <= Between
      PROVE  ErrorAt(c) \subseteq W
  <2>1. CASE best \subseteq ErrorAt(c) \cap Middle(c)
    <3>1. IsFiniteSet(ErrorAt(c)) /\ best \in SUBSET ErrorAt(c)
      BY <2>1, Sections, FS_Subset
    <3>2. Cardinality(best) <= Cardinality(ErrorAt(c))
      BY <3>1, FS_Subset
    <3>3. Cardinality(ErrorAt(c)) \in Nat /\ Between \in Nat
      BY <3>1, FS_CardinalityType, KeepsAssumption
    <3>4. Cardinality(best) = Cardinality(ErrorAt(c))
      BY <1>1, <1>3, <3>2, <3>3
    <3>5. best = ErrorAt(c)
      BY <3>1, <3>4, FS_Subset
    <3>6. QED BY <3>5
  <2>2. CASE ErrorAt(c) \cap Middle(c) \subseteq best
    BY <2>2, Sections
  <2>3. QED BY <1>1, <2>1, <2>2
<1>4. s \in Seq(Items(c.lines)) /\ \A i \in W : c.lines[i] \in Items(s)
  BY <1>1, <1>2, LinesKept
<1>5. QED BY <1>3, <1>4 DEF Spares

LEMMA LogLeft ==
  ASSUME NEW c, c.lines \in Seq(Items(c.lines)), Len(c.lines) > Heading + Between + Trailing
  PROVE  Spares(c, LogCut(c))
<1> DEFINE D == DOMAIN c.lines
           errors == Ordered(ErrorAt(c))
           rest == Ordered(Middle(c) \ ErrorAt(c))
           first == errors \o rest
           kept == SubSeq(first, 1, Between)
           opening == Ordered(Beginning(c))
           closing == Ordered(Ending(c))
           w == opening \o kept \o closing
<1>1. /\ ErrorAt(c) \in SUBSET D /\ Middle(c) \ ErrorAt(c) \in SUBSET D
      /\ Beginning(c) \in SUBSET D /\ Ending(c) \in SUBSET D /\ IsFiniteSet(D)
  BY Sections
<1>2. errors \in Seq(D) /\ rest \in Seq(D) /\ opening \in Seq(D) /\ closing \in Seq(D)
  BY <1>1, InOrderAt
<1>3. /\ IsFiniteSet(ErrorAt(c)) /\ ErrorAt(c) \in SUBSET Int
      /\ IsFiniteSet(Middle(c) \ ErrorAt(c)) /\ Middle(c) \ ErrorAt(c) \in SUBSET Int
  BY <1>1, InOrderAt
<1>4. Len(errors) = Cardinality(ErrorAt(c)) /\ Len(rest) = Cardinality(Middle(c) \ ErrorAt(c))
  BY <1>3, InOrder
<1>5. Between \in Nat
  BY KeepsAssumption
<1>6. Len(errors) + Len(rest) > Between
  <2>1. IsFiniteSet(ErrorAt(c) \cup (Middle(c) \ ErrorAt(c)))
        /\ Middle(c) \in SUBSET (ErrorAt(c) \cup (Middle(c) \ ErrorAt(c)))
    BY <1>3, FS_Union
  <2>2. Cardinality(ErrorAt(c) \cup (Middle(c) \ ErrorAt(c))) >= Cardinality(Middle(c))
    BY <2>1, FS_Subset
  <2>3. ErrorAt(c) \cap (Middle(c) \ ErrorAt(c)) = {}
    OBVIOUS
  <2>4. Cardinality(ErrorAt(c) \cup (Middle(c) \ ErrorAt(c)))
          = Cardinality(ErrorAt(c)) + Cardinality(Middle(c) \ ErrorAt(c)) - 0
    BY <1>3, <2>3, FS_Union, FS_EmptySet
  <2>5. IsFiniteSet(Middle(c))
    BY <2>1, FS_Subset
  <2>6. /\ Cardinality(ErrorAt(c)) \in Nat /\ Cardinality(Middle(c) \ ErrorAt(c)) \in Nat
        /\ Cardinality(Middle(c)) \in Nat
    BY <1>3, <2>5, FS_CardinalityType
  <2>7. Cardinality(Middle(c)) > Between
    BY Sections
  <2> HIDE DEF errors, rest
  <2>8. QED BY <1>4, <1>5, <2>2, <2>4, <2>6, <2>7
<1> HIDE DEF errors, rest, opening, closing, D
<1>7. /\ first \in Seq(D) /\ Len(first) = Len(errors) + Len(rest)
      /\ \A i \in 1 .. Len(errors) + Len(rest) : i <= Len(errors) => first[i] = errors[i]
  BY <1>2, ConcatProperties
<1>8. Len(errors) \in Nat /\ Len(rest) \in Nat /\ Len(opening) \in Nat /\ Len(closing) \in Nat
  BY <1>2, LenProperties
<1> HIDE DEF first
<1>9. \A i \in 1 .. Between : first[i] \in D
  BY <1>5, <1>6, <1>7, <1>8, ElementOfSeq
<1>10. /\ kept \in Seq(D) /\ Len(kept) = Between
       /\ \A i \in 1 .. Between : kept[i] = first[i]
  <2>1. /\ kept \in Seq(D) /\ Len(kept) = IF 1 <= Between THEN Between - 1 + 1 ELSE 0
        /\ \A i \in 1 .. Between - 1 + 1 : kept[i] = first[1 + i - 1]
    BY <1>5, <1>9, SubSeqProperties
  <2> HIDE DEF kept
  <2>2. QED BY <1>5, <2>1
<1> HIDE DEF kept
<1>11. /\ opening \o kept \in Seq(D) /\ Len(opening \o kept) = Len(opening) + Between
       /\ \A i \in 1 .. Len(opening) + Between :
            i > Len(opening) => (opening \o kept)[i] = kept[i - Len(opening)]
  <2>1. /\ opening \o kept \in Seq(D) /\ Len(opening \o kept) = Len(opening) + Len(kept)
        /\ \A i \in 1 .. Len(opening) + Len(kept) :
             (opening \o kept)[i] = IF i <= Len(opening) THEN opening[i] ELSE kept[i - Len(opening)]
    BY <1>2, <1>10, ConcatProperties
  <2> DEFINE o == opening \o kept
  <2>2. /\ o \in Seq(D) /\ Len(o) = Len(opening) + Between
        /\ \A i \in 1 .. Len(opening) + Between : i > Len(opening) => o[i] = kept[i - Len(opening)]
    <3> HIDE DEF o
    <3>1. QED BY <1>8, <1>10, <2>1 DEF o
  <2>3. QED BY <2>2
<1>12. /\ w \in Seq(D) /\ Len(w) = Len(opening) + Between + Len(closing)
       /\ \A i \in 1 .. Len(opening) + Between : w[i] = (opening \o kept)[i]
  <2> DEFINE o == opening \o kept
  <2>1. o \in Seq(D) /\ Len(o) = Len(opening) + Between
    BY <1>11
  <2>2. /\ o \o closing \in Seq(D) /\ Len(o \o closing) = Len(o) + Len(closing)
        /\ \A i \in 1 .. Len(o) + Len(closing) : i <= Len(o) => (o \o closing)[i] = o[i]
    <3> HIDE DEF o
    <3>1. QED BY <1>2, <2>1, ConcatProperties
  <2>3. w = o \o closing
    OBVIOUS
  <2> HIDE DEF o, w
  <2>4. \A i \in 1 .. Len(opening) + Between : i \in 1 .. Len(o) + Len(closing) /\ i <= Len(o)
    BY <1>5, <1>8, <2>1
  <2>5. QED BY <2>1, <2>2, <2>3, <2>4 DEF o
<1>13. LogCut(c) = Lines(c, w)
  BY DEF LogCut, first, errors, rest, kept, opening, closing
<1> HIDE DEF w
<1>14. /\ LogCut(c) \in Seq(Items(c.lines)) /\ Len(LogCut(c)) = Len(w)
       /\ \A k \in 1 .. Len(w) : LogCut(c)[k] = c.lines[w[k]]
  BY <1>12, <1>13, LinesAt DEF D
<1>15. ASSUME Cardinality(ErrorAt(c)) <= Between, NEW i \in ErrorAt(c)
       PROVE  c.lines[i] \in Items(LogCut(c))
  <2> DEFINE k == Rank(i, ErrorAt(c))
             at == Len(opening) + k
  <2>1. k \in 1 .. Cardinality(ErrorAt(c)) /\ errors[k] = i
    BY <1>3, InOrder DEF errors
  <2> HIDE DEF k
  <2>2. k \in 1 .. Len(errors) /\ k \in 1 .. Between /\ k \in 1 .. Len(errors) + Len(rest) /\ k <= Len(errors)
    BY <1>4, <1>5, <1>8, <1>15, <2>1
  <2>3. kept[k] = i
    BY <1>7, <1>10, <2>1, <2>2
  <2>4. at \in 1 .. Len(opening) + Between /\ at > Len(opening) /\ at - Len(opening) = k
        /\ at \in 1 .. Len(w)
    BY <1>5, <1>8, <1>12, <2>2
  <2> HIDE DEF at
  <2>5. w[at] = i
    BY <1>11, <1>12, <2>3, <2>4
  <2>6. LogCut(c)[at] = c.lines[i] /\ at \in DOMAIN LogCut(c)
    BY <1>14, <2>4, <2>5, LenProperties
  <2>7. QED BY <2>6 DEF Items
<1>16. QED BY <1>14, <1>15 DEF Spares

(* A shrunk text refers to the text it was, and to what that referred to.  *)
LEMMA ShrunkRefers ==
  ASSUME NEW c, c.lines \in Seq(Items(c.lines)), NEW d \in Shrunk(c)
  PROVE  /\ d.lines \in Seq(Items(d.lines))
         /\ c \in Refs(d) /\ Refs(d) \subseteq Refs(c) \cup {c}
         /\ d.kind = "parts" => c.kind = "parts"
         /\ c.kind \in {"array", "log"} /\ Cardinality(ErrorAt(c)) <= Between =>
              \A i \in ErrorAt(c) : c.lines[i] \in Items(d.lines)
<1>1. Len(c.lines) > Heading + Between + Trailing
  <2>1. ~ (Len(c.lines) <= Heading + Between + Trailing)
    BY DEF Shrunk
  <2>2. Len(c.lines) \in Nat /\ Heading \in Nat /\ Between \in Nat /\ Trailing \in Nat
    BY KeepsAssumption
  <2>3. QED BY <2>1, <2>2
<1>2. PICK k, s : /\ d = [kind |-> k, lines |-> Append(s, Ref(c))]
                  /\ k = "parts" => c.kind = "parts"
                  /\ \/ c.kind = "array" /\ s \in Crushed(c)
                     \/ c.kind = "log" /\ s = LogCut(c)
                     \/ c.kind \notin {"array", "log"} /\ s = Truncated(c)
  <2>1. CASE c.kind = "array"
    BY <2>1 DEF Shrunk, ArrayCut
  <2>2. CASE c.kind = "log"
    BY <2>2 DEF Shrunk
  <2>3. CASE c.kind \notin {"array", "log"}
    BY <2>3 DEF Shrunk
  <2>4. QED BY <2>1, <2>2, <2>3
<1>3. s \in Seq(Items(c.lines)) /\ (c.kind \in {"array", "log"} => Spares(c, s))
  <2>1. CASE c.kind = "array"
    BY <1>1, <1>2, <2>1, ArrayLeft DEF Spares
  <2>2. CASE c.kind = "log"
    BY <1>1, <1>2, <2>2, LogLeft DEF Spares
  <2>3. CASE c.kind \notin {"array", "log"}
    <3>1. Beginning(c) \cup Ending(c) \in SUBSET DOMAIN c.lines
      BY <1>1, Sections
    <3>2. QED BY <1>2, <2>3, <3>1, LinesKept DEF Truncated
  <2>4. QED BY <2>1, <2>2, <2>3
<1>4. d.lines = Append(s, Ref(c))
  BY <1>2
<1>5. d.lines \in Seq(Items(d.lines)) /\ Items(d.lines) = Items(s) \cup {Ref(c)}
  BY <1>3, <1>4, Appended
<1>6. Items(s) \subseteq Items(c.lines)
  BY <1>3, LenProperties, ElementOfSeq DEF Items
<1>7. Ref(c).is = "ref" /\ Ref(c).to = c
  BY DEF Ref
<1>8. c \in Refs(d)
  BY <1>5, <1>7 DEF Refs
<1>9. Refs(d) \subseteq Refs(c) \cup {c}
  BY <1>5, <1>6, <1>7 DEF Refs
<1>10. d.kind = "parts" => c.kind = "parts"
  BY <1>2
<1>11. QED BY <1>3, <1>5, <1>8, <1>9, <1>10 DEF Spares

(* What is cleaned refers to nothing else.                                 *)
LEMMA CleanRefers ==
  ASSUME NEW c, c.lines \in Seq(Items(c.lines))
  PROVE  Clean(c).lines \in Seq(Items(Clean(c).lines)) /\ Refs(Clean(c)) \subseteq Refs(c)
<1>1. ASSUME NEW s \in Seq(Items(c.lines) \cup {Stub}), Clean(c).lines = s
      PROVE  Clean(c).lines \in Seq(Items(Clean(c).lines)) /\ Refs(Clean(c)) \subseteq Refs(c)
  <2>1. /\ DOMAIN s = 1 .. Len(s) /\ Len(s) \in Nat
        /\ \A i \in 1 .. Len(s) : s[i] \in Items(c.lines) \cup {Stub}
    BY <1>1, LenProperties, ElementOfSeq
  <2>2. Items(s) \subseteq Items(c.lines) \cup {Stub}
    BY <2>1 DEF Items
  <2>3. s \in Seq(Items(s))
    <3>1. \A i \in 1 .. Len(s) : s[i] \in Items(s)
      BY <2>1 DEF Items
    <3>2. s \in [1 .. Len(s) -> Items(s)]
      BY <1>1, <3>1
    <3>3. QED BY <2>1, <3>2
  <2>4. Stub.is # "ref"
    BY DEF Stub
  <2>5. QED BY <1>1, <2>2, <2>3, <2>4 DEF Refs
<1>2. CASE c.kind = "array"
  BY <1>2 DEF Clean
<1>3. CASE c.kind = "object"
  <2> DEFINE W == {i \in DOMAIN c.lines : c.lines[i].is # "noise"}
             kept == Ordered(W)
             s == [i \in DOMAIN kept |-> IF c.lines[kept[i]].is = "long" THEN Stub ELSE c.lines[kept[i]]]
  <2>1. Clean(c).lines = s
    BY <1>3 DEF Clean, Slimmed
  <2>2. kept \in Seq(DOMAIN c.lines)
    BY InOrderAt
  <2> HIDE DEF kept
  <2>3. /\ Len(kept) \in Nat /\ DOMAIN kept = 1 .. Len(kept)
        /\ \A i \in 1 .. Len(kept) : kept[i] \in DOMAIN c.lines
    BY <2>2
  <2>4. s \in [1 .. Len(kept) -> Items(c.lines) \cup {Stub}]
    BY <2>3 DEF Items
  <2>5. s \in Seq(Items(c.lines) \cup {Stub})
    BY <2>3, <2>4
  <2> HIDE DEF s
  <2>6. QED BY <1>1, <2>1, <2>5
<1>4. CASE c.kind \notin {"array", "object"}
  <2> DEFINE W == {i \in DOMAIN c.lines : i <= Limit}
             s == Lines(c, Ordered(W))
  <2>1. Clean(c).lines = s
    BY <1>4 DEF Clean
  <2>2. s \in Seq(Items(c.lines))
    BY LinesKept
  <2> HIDE DEF s
  <2>3. s \in Seq(Items(c.lines) \cup {Stub})
    BY <2>2, SeqMonotonic
  <2>4. QED BY <1>1, <2>1, <2>3
<1>5. QED BY <1>2, <1>3, <1>4

----------------------------------------------------------------------------
(* Following refs.                                                         *)

LEMMA FollowGoes ==
  ASSUME NEW c, NEW K
  PROVE  /\ c \in Follow(c, K) /\ Follow(c, K) \subseteq {c} \cup K
         /\ \A y \in Follow(c, K) : Refs(y) \cap K \subseteq Follow(c, K)
BY DEF Follow

(* It is the least that holds the text and, with a text, its refs.         *)
LEMMA FollowLeast ==
  ASSUME NEW c, NEW K, NEW S, c \in S, \A x \in S \cap ({c} \cup K) : Refs(x) \cap K \subseteq S
  PROVE  Follow(c, K) \subseteq S
<1>1. SUFFICES ASSUME NEW d \in Follow(c, K)
               PROVE  d \in S
  OBVIOUS
<1> DEFINE T == S \cap ({c} \cup K)
<1>2. T \in SUBSET ({c} \cup K) /\ c \in T /\ \A x \in T : Refs(x) \cap K \subseteq T
  OBVIOUS
<1>3. d \in T
  BY <1>2 DEF Follow
<1>4. QED BY <1>3

LEMMA FollowOn ==
  ASSUME NEW c, NEW K, NEW y \in Follow(c, K)
  PROVE  Follow(y, K) \subseteq Follow(c, K)
BY FollowGoes, FollowLeast

(* A text stored later, to which none of these refers, changes nothing.    *)
LEMMA FollowStays ==
  ASSUME NEW K, NEW J, K \subseteq J, \A x \in K : Refs(x) \subseteq K, NEW c, Refs(c) \subseteq K
  PROVE  Follow(c, J) = Follow(c, K)
<1>1. Follow(c, J) \subseteq Follow(c, K)
  <2>1. c \in Follow(c, K) /\ \A x \in Follow(c, K) : Refs(x) \subseteq K /\ Refs(x) \cap K \subseteq Follow(c, K)
    BY FollowGoes
  <2>2. QED BY <2>1, FollowLeast
<1>2. Follow(c, K) \subseteq Follow(c, J)
  <2>1. c \in Follow(c, J) /\ \A x \in Follow(c, J) : Refs(x) \cap J \subseteq Follow(c, J)
    BY FollowGoes
  <2>2. QED BY <2>1, FollowLeast
<1>3. QED BY <1>1, <1>2

----------------------------------------------------------------------------
(* Messages that lead back: with what is stored, every text that one leads *)
(* to leads on to a text that has all of the first; nor does a list of     *)
(* parts come of anything else.  Nothing is left of one that was replaced. *)
Proper(c, K) == c.lines \in Seq(Items(c.lines)) /\ Refs(c) \subseteq K

Leads(e, K) ==
  /\ \A y \in Follow(e.now, K) : \E x \in Follow(y, K) : Starts(e.was.lines, x.lines)
  /\ \A y \in Follow(e.now, K) : y.kind = "parts" => e.was.kind = "parts"

Traced(e, K) == Proper(e.now, K) /\ (Replaced(e) \/ Leads(e, K))

LEMMA ReplacedEnds ==
  ASSUME NEW e, Replaced(e)
  PROVE  Refs(e.now) = {} /\ Shrunk(e.now) = {}
BY DEF Replaced, Refs, Pack, Shrunk

LEMMA FirstTraced ==
  ASSUME NEW c, NEW K, c.lines \in Seq(Items(c.lines)), Refs(c) = {}
  PROVE  Traced(Message(c), K)
<1>1. Follow(c, K) = {c}
  <2>1. Follow(c, K) \subseteq {c}
    BY FollowLeast
  <2>2. QED BY <2>1, FollowGoes
<1>2. Starts(c.lines, c.lines)
  BY DEF Starts
<1>3. QED BY <1>1, <1>2 DEF Traced, Leads, Proper, Message

(* A shrunk message leads to the message it was, once that is stored.      *)
LEMMA ShrunkTraced ==
  ASSUME NEW K, \A x \in K : Refs(x) \subseteq K, NEW e, Traced(e, K), e.now \in K,
         NEW d \in Shrunk(e.now)
  PROVE  Traced([was |-> e.was, now |-> d], K)
<1> DEFINE c == e.now
<1>1. /\ d.lines \in Seq(Items(d.lines)) /\ c \in Refs(d) /\ Refs(d) \subseteq Refs(c) \cup {c}
      /\ Refs(c) \subseteq K /\ (d.kind = "parts" => c.kind = "parts")
  BY ShrunkRefers DEF Traced, Proper
<1>2. /\ \A y \in Follow(c, K) : \E x \in Follow(y, K) : Starts(e.was.lines, x.lines)
      /\ \A y \in Follow(c, K) : y.kind = "parts" => e.was.kind = "parts"
  BY ReplacedEnds DEF Traced, Leads
<1> HIDE DEF c
<1>3. c \in K
  BY DEF c
<1>4. Follow(d, K) \subseteq {d} \cup Follow(c, K)
  <2>1. c \in Follow(c, K) /\ \A x \in Follow(c, K) : Refs(x) \cap K \subseteq Follow(c, K)
    BY FollowGoes
  <2> DEFINE S == {d} \cup Follow(c, K)
  <2>2. d \in S /\ \A x \in S \cap ({d} \cup K) : Refs(x) \cap K \subseteq S
    BY <1>1, <2>1
  <2> HIDE DEF S
  <2>3. Follow(d, K) \subseteq S
    BY <2>2, FollowLeast
  <2>4. QED BY <2>3 DEF S
<1>5. c \in Follow(d, K)
  BY <1>1, <1>3, FollowGoes
<1>6. Follow(c, K) \subseteq Follow(d, K)
  BY <1>5, FollowOn
<1>7. c \in Follow(c, K)
  BY FollowGoes
<1>8. \A y \in Follow(d, K) : \E x \in Follow(y, K) : Starts(e.was.lines, x.lines)
  BY <1>2, <1>4, <1>6, <1>7
<1>9. \A y \in Follow(d, K) : y.kind = "parts" => e.was.kind = "parts"
  BY <1>1, <1>2, <1>4, <1>7
<1>10. QED BY <1>1, <1>3, <1>8, <1>9 DEF Traced, Leads, Proper

(* So does a message with a pack behind it.                                *)
LEMMA PackedTraced ==
  ASSUME NEW K, NEW e, Traced(e, K)
  PROVE  Traced([was |-> e.was, now |-> [kind |-> "system", lines |-> Append(e.now.lines, Pack)]], K)
<1> DEFINE c == e.now
           d == [kind |-> "system", lines |-> Append(c.lines, Pack)]
<1>1. c.lines \in Seq(Items(c.lines)) /\ Refs(c) \subseteq K
  BY DEF Traced, Proper
<1>2. Replaced(e) \/ Leads(e, K)
  BY DEF Traced
<1>3. d.lines = Append(c.lines, Pack) /\ d.kind = "system"
  OBVIOUS
<1> DEFINE f == [was |-> e.was, now |-> d]
<1> SUFFICES Traced(f, K)
  OBVIOUS
<1>0. f.was = e.was /\ f.now = d
  OBVIOUS
<1> HIDE DEF c, d, f
<1>4. /\ d.lines \in Seq(Items(d.lines)) /\ Items(d.lines) = Items(c.lines) \cup {Pack}
      /\ Starts(c.lines, d.lines)
  BY <1>1, <1>3, Appended
<1>5. Pack.is # "ref"
  BY DEF Pack
<1>6. Refs(d) = Refs(c)
  BY <1>4, <1>5 DEF Refs
<1>7. Follow(d, K) \subseteq {d} \cup Follow(c, K) /\ Follow(c, K) \subseteq {c} \cup Follow(d, K)
  <2>1. ASSUME NEW x, NEW y, Refs(x) = Refs(y)
        PROVE  Follow(x, K) \subseteq {x} \cup Follow(y, K)
    <3> DEFINE S == {x} \cup Follow(y, K)
    <3>1. y \in Follow(y, K) /\ \A z \in Follow(y, K) : Refs(z) \cap K \subseteq Follow(y, K)
      BY FollowGoes
    <3>2. x \in S /\ \A z \in S \cap ({x} \cup K) : Refs(z) \cap K \subseteq S
      BY <2>1, <3>1
    <3> HIDE DEF S
    <3>3. Follow(x, K) \subseteq S
      BY <3>2, FollowLeast
    <3>4. QED BY <3>3 DEF S
  <2>2. QED BY <1>6, <2>1
<1>8. ASSUME NEW s, Starts(s, c.lines)
      PROVE  Starts(s, d.lines)
  BY <1>4, <1>8 DEF Starts
<1>9. d \in Follow(d, K) /\ c \in Follow(c, K)
  BY FollowGoes
<1>10. Proper(d, K)
  BY <1>1, <1>4, <1>6 DEF Proper
<1>11. CASE Replaced(e)
  <2>1. Items(c.lines) = {Pack} /\ e.was.kind = "parts"
    BY <1>11 DEF Replaced, c
  <2>2. Replaced(f)
    BY <1>0, <1>4, <2>1 DEF Replaced
  <2>3. QED BY <1>0, <1>10, <2>2 DEF Traced
<1>12. CASE Leads(e, K)
  <2>1. /\ \A y \in Follow(c, K) : \E x \in Follow(y, K) : Starts(e.was.lines, x.lines)
        /\ \A y \in Follow(c, K) : y.kind = "parts" => e.was.kind = "parts"
    BY <1>12 DEF Leads, c
  <2>2. \E x \in Follow(d, K) : Starts(e.was.lines, x.lines)
    BY <2>1, <1>7, <1>8, <1>9
  <2>3. \A y \in Follow(d, K) : \E x \in Follow(y, K) : Starts(e.was.lines, x.lines)
    BY <2>1, <1>7, <2>2
  <2>4. \A y \in Follow(d, K) : y.kind = "parts" => e.was.kind = "parts"
    BY <1>3, <1>7, <2>1
  <2>5. QED BY <1>0, <1>10, <2>3, <2>4 DEF Traced, Leads
<1>13. QED BY <1>2, <1>11, <1>12

(* So it is with the message that replaces a list of parts.                *)
LEMMA ReplacedTraced ==
  ASSUME NEW K, NEW e, Traced(e, K), e.now.kind = "parts"
  PROVE  Traced([was |-> e.was, now |-> [kind |-> "system", lines |-> <<Pack>>]], K)
<1> DEFINE d == [kind |-> "system", lines |-> <<Pack>>]
           f == [was |-> e.was, now |-> d]
<1>1. e.now \in Follow(e.now, K)
  BY FollowGoes
<1>2. e.was.kind = "parts"
  BY <1>1 DEF Traced, Replaced, Leads
<1>3. /\ Append(<<>>, Pack) \in Seq(Items(Append(<<>>, Pack)))
      /\ Items(Append(<<>>, Pack)) = Items(<<>>) \cup {Pack}
  BY EmptySeq, Appended
<1>4. Append(<<>>, Pack) = <<Pack>> /\ Items(<<>>) = {} /\ d.lines = <<Pack>>
  BY DEF Items
<1>5. d.lines \in Seq(Items(d.lines)) /\ Items(d.lines) = {Pack}
  BY <1>3, <1>4
<1>6. f.was = e.was /\ f.now = d
  OBVIOUS
<1> HIDE DEF d
<1>7. Refs(d) = {}
  BY <1>5 DEF Refs, Pack
<1>8. Proper(d, K)
  BY <1>5, <1>7 DEF Proper
<1> HIDE DEF f
<1>9. Traced(f, K)
  BY <1>2, <1>5, <1>6, <1>8 DEF Traced, Replaced
<1>10. QED BY <1>9 DEF f, d

(* And what a ref of it gives back.                                        *)
LEMMA GivenTraced ==
  ASSUME NEW K, \A x \in K : Proper(x, K), NEW e, Traced(e, K), NEW c \in Refs(e.now) \cap K
  PROVE  Traced([was |-> e.was, now |-> c], K)
<1>1. c \in Follow(e.now, K)
  BY FollowGoes
<1>2. Follow(c, K) \subseteq Follow(e.now, K)
  BY <1>1, FollowOn
<1>3. Proper(c, K) /\ Leads(e, K)
  BY ReplacedEnds DEF Traced
<1>4. QED BY <1>2, <1>3 DEF Traced, Leads

(* Whatever else is stored, it leads where it led.                         *)
LEMMA TracedStays ==
  ASSUME NEW K, NEW J, K \subseteq J, \A x \in K : Proper(x, K), NEW e, Traced(e, K)
  PROVE  Traced(e, J)
<1>1. Follow(e.now, J) = Follow(e.now, K)
  BY FollowStays DEF Traced, Proper
<1>2. ASSUME NEW y \in Follow(e.now, K)
      PROVE  Follow(y, J) = Follow(y, K)
  <2>1. Refs(y) \subseteq K
    BY FollowGoes DEF Traced, Proper
  <2>2. QED BY <2>1, FollowStays DEF Proper
<1>3. Leads(e, K) => Leads(e, J)
  BY <1>1, <1>2 DEF Leads
<1>4. QED BY <1>3 DEF Traced, Proper

----------------------------------------------------------------------------
(* The inductive invariant of LeadsBack: what is or was stored refers only *)
(* to the like; the messages that a client holds or a request has in hand  *)
(* lead back, and one whose original is about to be stored was shrunk from *)
(* a text that leads back.                                                 *)
Stored == ccr \cup lapsed
AsItWas(a) == [was |-> a.was, now |-> a.text]

Carried(x, K) ==
  /\ \A e \in x.sent \cup x.todo \cup x.out : Traced(e, K)
  /\ \A a \in x.at : Traced(AsItWas(a), K) /\ a.now \in Shrunk(a.text)

TraceInv ==
  /\ \A c \in Stored : Proper(c, Stored)
  /\ \A e \in held : Traced(e, Stored)
  /\ \A r \in Requests : Carried(chat[r], Stored)

LEMMA CarriedStays ==
  ASSUME NEW K, NEW J, K \subseteq J, \A c \in K : Proper(c, K), NEW x, Carried(x, K)
  PROVE  Carried(x, J)
BY TracedStays DEF Carried

LEMMA TracedLeadsBack ==
  ASSUME TraceInv
  PROVE  LeadsBack
<1>1. ASSUME NEW e \in held \cup Forwarded, ~ Replaced(e)
      PROVE  \E c \in Follow(e.now, ccr \cup lapsed) : Starts(e.was.lines, c.lines)
  <2>1. Traced(e, Stored)
    BY <1>1 DEF TraceInv, Carried, Forwarded
  <2>2. e.now \in Follow(e.now, Stored)
    BY FollowGoes
  <2>3. QED BY <1>1, <2>1, <2>2 DEF Traced, Leads, Stored
<1>2. ASSUME NEW r \in Requests, NEW a \in chat[r].at,
             a.text.kind \in {"array", "log"}, Cardinality(ErrorAt(a.text)) <= Between
      PROVE  \A i \in ErrorAt(a.text) : a.text.lines[i] \in Items(a.now.lines)
  <2>1. a.now \in Shrunk(a.text) /\ Traced(AsItWas(a), Stored)
    BY DEF TraceInv, Carried
  <2>2. a.text.lines \in Seq(Items(a.text.lines))
    BY <2>1 DEF Traced, Proper, AsItWas
  <2>3. QED BY <1>2, <2>1, <2>2, ShrunkRefers
<1>3. QED BY <1>1, <1>2 DEF LeadsBack

(* A step in which one request moves, or none: it is enough that what is   *)
(* new leads back.                                                         *)
LEMMA TraceGoes ==
  ASSUME TraceInv, Stored \subseteq Stored', \A c \in Stored' \ Stored : Proper(c, Stored'),
         \A e \in held' \ held : Traced(e, Stored'),
         \A r \in Requests : chat'[r] = chat[r] \/ Carried(chat'[r], Stored')
  PROVE  TraceInv'
<1>1. \A c \in Stored : Proper(c, Stored)
  BY DEF TraceInv
<1>2. \A c \in Stored' : Proper(c, Stored')
  BY <1>1 DEF Proper
<1>3. \A e \in held' : Traced(e, Stored')
  BY <1>1, TracedStays DEF TraceInv
<1>4. \A r \in Requests : Carried(chat'[r], Stored')
  BY <1>1, CarriedStays DEF TraceInv
<1>5. QED BY <1>2, <1>3, <1>4 DEF TraceInv

(* A request that takes messages which lead back.                          *)
LEMMA ArriveCarries ==
  ASSUME Known, NEW r \in Requests, NEW K, Carried(chat[r], K),
         NEW via, NEW body, NEW fresh, NEW s, NEW pc, Arrive(r, via, body, fresh, s, pc),
         \A e \in body : Traced(e, K)
  PROVE  Carried(chat'[r], K)
<1>1. chat' = [chat EXCEPT ![r] = [chat[r] EXCEPT !.pc = pc, !.via = via, !.fresh = fresh,
                                     !.sid = s, !.sent = body, !.todo = body]]
  BY DEF Arrive
<1>2. chat'[r].sent = body /\ chat'[r].todo = body /\ chat'[r].out = chat[r].out /\ chat'[r].at = chat[r].at
  BY <1>1 DEF Known, Locals
<1>3. QED BY <1>2 DEF Carried

(* A request that keeps the messages it has.                               *)
SameHand(x, y) == y.sent = x.sent /\ y.todo = x.todo /\ y.out = x.out /\ y.at = x.at

LEMMA MoveSame ==
  ASSUME Known, NEW r \in Requests, NEW pc, Move(r, pc)
  PROVE  SameHand(chat[r], chat'[r]) /\ \A q \in Requests \ {r} : chat'[q] = chat[q]
BY DEF Known, Locals, Move, SameHand

LEMMA SameCarries ==
  ASSUME NEW K, NEW x, NEW y, Carried(x, K), SameHand(x, y)
  PROVE  Carried(y, K)
BY DEF Carried, SameHand

(* A shrunk message goes back to the others when its text is stored.       *)
LEMMA PutBackCarries ==
  ASSUME Known, NEW r \in Requests, PutBack(r), NEW K, \A c \in K : Proper(c, K),
         Carried(chat[r], K), \A a \in chat[r].at : a.text \in K
  PROVE  Carried(chat'[r], K)
<1> DEFINE back == {Entry(a) : a \in chat[r].at}
<1>1. chat' = [chat EXCEPT ![r] = [chat[r] EXCEPT !.pc = "shrink", !.at = {},
                                     !.out = chat[r].out \cup back]]
  BY DEF PutBack
<1>2. \A e \in back : Traced(e, K)
  <2>1. ASSUME NEW a \in chat[r].at
        PROVE  Traced(Entry(a), K)
    <3>1. Traced(AsItWas(a), K) /\ a.now \in Shrunk(a.text) /\ a.text \in K
      BY DEF Carried
    <3>2. \A c \in K : Refs(c) \subseteq K
      BY DEF Proper
    <3>3. AsItWas(a).now = a.text /\ AsItWas(a).was = a.was
      BY DEF AsItWas
    <3>4. QED BY <3>1, <3>2, <3>3, ShrunkTraced DEF Entry
  <2>2. QED BY <2>1
<1> HIDE DEF back
<1>3. /\ chat'[r].sent = chat[r].sent /\ chat'[r].todo = chat[r].todo
      /\ chat'[r].out = chat[r].out \cup back /\ chat'[r].at = {}
  BY <1>1 DEF Known, Locals
<1>4. QED BY <1>2, <1>3 DEF Carried

LEMMA InjectedTraced ==
  ASSUME NEW K, NEW msgs, \A e \in msgs : Traced(e, K), NEW out \in Injected(msgs), NEW e \in out
  PROVE  Traced(e, K)
<1>1. CASE System(msgs) = {}
  <2> DEFINE c == [kind |-> "system", lines |-> <<Pack>>]
  <2>1. e \in msgs \cup {Message(c)}
    BY <1>1 DEF Injected
  <2>2. /\ Append(<<>>, Pack) \in Seq(Items(Append(<<>>, Pack)))
        /\ Items(Append(<<>>, Pack)) = Items(<<>>) \cup {Pack}
    BY EmptySeq, Appended
  <2>3. Append(<<>>, Pack) = <<Pack>> /\ Items(<<>>) = {}
    BY DEF Items
  <2>4. c.lines \in Seq(Items(c.lines)) /\ Refs(c) = {}
    BY <2>2, <2>3 DEF Refs, Pack
  <2> HIDE DEF c
  <2>5. QED BY <2>1, <2>4, FirstTraced
<1>2. CASE System(msgs) # {}
  <2>1. PICK m \in System(msgs) : out = (msgs \ {m}) \cup {Into(m)}
    BY <1>2 DEF Injected
  <2>2. m \in msgs /\ (e \in msgs \/ e = Into(m))
    BY <2>1 DEF System
  <2>3. Traced(Into(m), K)
    <3>1. CASE m.now.kind = "parts"
      BY <2>2, <3>1, ReplacedTraced DEF Into
    <3>2. CASE m.now.kind # "parts"
      BY <2>2, <3>2, PackedTraced DEF Into
    <3>3. QED BY <3>1, <3>2
  <2>4. QED BY <2>2, <2>3
<1>3. QED BY <1>1, <1>2

(* The step of a request.                                                  *)
LEMMA RequestTraces ==
  ASSUME Known, TraceInv, NEW r \in Requests, RequestStep(r)
  PROVE  TraceInv'
<1>1. /\ \A c \in Stored : Proper(c, Stored) /\ Refs(c) \subseteq Stored
      /\ \A e \in held : Traced(e, Stored)
      /\ Carried(chat[r], Stored) /\ DOMAIN chat = Requests /\ Locals \subseteq DOMAIN chat[r]
      /\ scene \in Scenes
  BY DEF TraceInv, Known, Proper
<1>2. ASSUME UNCHANGED <<ccr, lapsed>>, \A e \in held' \ held : Traced(e, Stored),
             \A q \in Requests \ {r} : chat'[q] = chat[q], Carried(chat'[r], Stored)
      PROVE  TraceInv'
  <2>1. Stored' = Stored
    BY <1>2 DEF Stored
  <2>2. QED BY <1>2, <2>1, TraceGoes
<1>3. ASSUME UNCHANGED <<ccr, lapsed, held>>, NEW pc, Move(r, pc)
      PROVE  TraceInv'
  BY <1>1, <1>2, <1>3, MoveSame, SameCarries
<1>4. ASSUME UNCHANGED <<ccr, lapsed, held>>, NEW via, NEW body, NEW fresh, NEW s, NEW pc,
             Arrive(r, via, body, fresh, s, pc), \A e \in body : Traced(e, Stored)
      PROVE  TraceInv'
  <2>1. \A q \in Requests \ {r} : chat'[q] = chat[q]
    BY <1>1, <1>4 DEF Arrive
  <2>2. Carried(chat'[r], Stored)
    BY <1>1, <1>4, ArriveCarries
  <2>3. QED BY <1>2, <1>4, <2>1, <2>2
<1>5. \A body \in Bodies : \A e \in body : Traced(e, Stored)
  BY <1>1 DEF Bodies
<1>6. CASE Chat(r)
  BY <1>4, <1>5, <1>6 DEF Chat
<1>7. CASE Prepare(r)
  BY <1>4, <1>5, <1>7 DEF Prepare
<1>8. CASE Compress(r)
  BY <1>4, <1>5, <1>8 DEF Compress
<1>9. CASE Normalize(r) \/ Middleware(r)
  <2>1. PICK via \in {"normalize", "middleware"}, c \in scene.texts :
          Arrive(r, via, {Message(Clean(c))}, FALSE, None, "shrink")
    BY <1>9 DEF Normalize, Middleware, Normalized
  <2>2. c.lines \in Seq(Items(c.lines)) /\ Refs(c) = {}
    BY <1>1, TextsAssumption
  <2>3. Traced(Message(Clean(c)), Stored)
    BY <2>2, CleanRefers, FirstTraced
  <2>4. UNCHANGED <<ccr, lapsed, held>>
    BY <1>9 DEF Normalize, Middleware
  <2>5. \A e \in {Message(Clean(c))} : Traced(e, Stored)
    BY <2>3
  <2> DEFINE body == {Message(Clean(c))}
  <2> HIDE DEF body
  <2>6. Arrive(r, via, body, FALSE, None, "shrink") /\ \A e \in body : Traced(e, Stored)
    BY <2>1, <2>5 DEF body
  <2>7. QED BY <1>4, <2>4, <2>6
<1>10. CASE Resolved(r)
  <2>1. PICK s, pc : chat' = [chat EXCEPT ![r] = [chat[r] EXCEPT !.sid = s, !.pc = pc]]
    BY <1>10 DEF Resolved
  <2>2. SameHand(chat[r], chat'[r]) /\ \A q \in Requests \ {r} : chat'[q] = chat[q]
    BY <1>1, <2>1 DEF Locals, SameHand
  <2>3. UNCHANGED <<ccr, lapsed, held>>
    BY <1>10 DEF Resolved
  <2>4. QED BY <1>1, <1>2, <2>2, <2>3, SameCarries
<1>11. CASE Asked(r) \/ Replied(r) \/ Upstream(r)
  BY <1>3, <1>11 DEF Asked, Replied, Upstream, AppendAnswer
<1>12. CASE Shrink(r)
  <2> DEFINE e == CHOOSE m \in chat[r].todo : TRUE
  <2>1. e \in chat[r].todo /\ UNCHANGED <<ccr, lapsed, held>>
    BY <1>12 DEF Shrink
  <2>2. Traced(e, Stored)
    BY <1>1, <2>1 DEF Carried
  <2>3. \/ chat' = [chat EXCEPT ![r] = [chat[r] EXCEPT !.todo = chat[r].todo \ {e},
                                                       !.out = chat[r].out \cup {e}]]
        \/ \E c \in Shrunk(e.now) :
             chat' = [chat EXCEPT ![r] = [chat[r] EXCEPT !.pc = "get", !.todo = chat[r].todo \ {e},
                                 !.at = {[text |-> e.now, was |-> e.was, now |-> c]}]]
    <3>1. \/ chat' = [chat EXCEPT ![r].todo = @ \ {e}, ![r].out = @ \cup {e}]
          \/ \E c \in Shrunk(e.now) :
               chat' = [chat EXCEPT ![r].pc = "get", ![r].todo = @ \ {e},
                                    ![r].at = {[text |-> e.now, was |-> e.was, now |-> c]}]
      BY <1>12, Zenon DEF Shrink
    <3> HIDE DEF e
    <3>2. CASE chat' = [chat EXCEPT ![r].todo = @ \ {e}, ![r].out = @ \cup {e}]
      BY <3>2
    <3>3. ASSUME NEW c \in Shrunk(e.now),
                 chat' = [chat EXCEPT ![r].pc = "get", ![r].todo = @ \ {e},
                                      ![r].at = {[text |-> e.now, was |-> e.was, now |-> c]}]
          PROVE  chat' = [chat EXCEPT ![r] = [chat[r] EXCEPT !.pc = "get", !.todo = chat[r].todo \ {e},
                                   !.at = {[text |-> e.now, was |-> e.was, now |-> c]}]]
      BY <3>3
    <3>4. QED BY <3>1, <3>2, <3>3
  <2> HIDE DEF e
  <2>4. ASSUME chat' = [chat EXCEPT ![r] = [chat[r] EXCEPT !.todo = chat[r].todo \ {e},
                                                       !.out = chat[r].out \cup {e}]]
        PROVE  Carried(chat'[r], Stored) /\ \A q \in Requests \ {r} : chat'[q] = chat[q]
    <3>1. /\ chat'[r].sent = chat[r].sent /\ chat'[r].todo = chat[r].todo \ {e}
          /\ chat'[r].out = chat[r].out \cup {e} /\ chat'[r].at = chat[r].at
          /\ \A q \in Requests \ {r} : chat'[q] = chat[q]
      BY <1>1, <2>4 DEF Locals
    <3>2. QED BY <1>1, <2>2, <3>1 DEF Carried
  <2>5. ASSUME NEW c \in Shrunk(e.now),
               chat' = [chat EXCEPT ![r] = [chat[r] EXCEPT !.pc = "get", !.todo = chat[r].todo \ {e},
                                 !.at = {[text |-> e.now, was |-> e.was, now |-> c]}]]
        PROVE  Carried(chat'[r], Stored) /\ \A q \in Requests \ {r} : chat'[q] = chat[q]
    <3> DEFINE a == [text |-> e.now, was |-> e.was, now |-> c]
    <3>1. /\ chat'[r].sent = chat[r].sent /\ chat'[r].todo = chat[r].todo \ {e}
          /\ chat'[r].out = chat[r].out /\ chat'[r].at = {a}
          /\ \A q \in Requests \ {r} : chat'[q] = chat[q]
      BY <1>1, <2>5 DEF Locals
    <3>2. AsItWas(a).now = e.now /\ AsItWas(a).was = e.was /\ a.now \in Shrunk(a.text)
      BY <2>5 DEF AsItWas
    <3>3. Traced(AsItWas(a), Stored)
      BY <2>2, <3>2 DEF Traced, Leads, Replaced, AsItWas
    <3> HIDE DEF a
    <3>4. QED BY <1>1, <3>1, <3>2, <3>3 DEF Carried
  <2>6. QED BY <1>2, <2>1, <2>3, <2>4, <2>5
<1>13. CASE GetRef(r)
  <2>1. CASE \A a \in chat[r].at : a.text \in ccr
    <3>1. PutBack(r) /\ UNCHANGED <<ccr, lapsed, held>>
      BY <1>13, <2>1 DEF GetRef
    <3>2. \A a \in chat[r].at : a.text \in Stored
      BY <2>1 DEF Stored
    <3>3. Carried(chat'[r], Stored)
      BY <1>1, <3>1, <3>2, PutBackCarries
    <3>4. \A q \in Requests \ {r} : chat'[q] = chat[q]
      BY <1>1, <3>1 DEF PutBack
    <3>5. QED BY <1>2, <3>1, <3>3, <3>4
  <2>2. CASE ~ \A a \in chat[r].at : a.text \in ccr
    BY <1>3, <1>13, <2>2 DEF GetRef
  <2>3. QED BY <2>1, <2>2
<1>14. CASE SetRef(r)
  <2>1. /\ PutBack(r) /\ UNCHANGED <<lapsed, held>>
        /\ ccr' = ccr \cup {a.text : a \in chat[r].at}
    BY <1>14 DEF SetRef
  <2>2. Stored' = Stored \cup {a.text : a \in chat[r].at}
    BY <2>1 DEF Stored
  <2> DEFINE K == Stored'
  <2>3. \A a \in chat[r].at : Proper(a.text, Stored)
    BY <1>1 DEF Carried, Traced, AsItWas
  <2>4. Stored \subseteq K /\ \A c \in K : Proper(c, K)
    BY <1>1, <2>2, <2>3 DEF Proper
  <2>5. Carried(chat[r], K) /\ \A a \in chat[r].at : a.text \in K
    <3> HIDE DEF K
    <3>1. Carried(chat[r], K)
      BY <1>1, <2>4, CarriedStays
    <3>2. QED BY <2>2, <3>1 DEF K
  <2>6. Carried(chat'[r], K)
    <3> HIDE DEF K
    <3>1. QED BY <2>1, <2>4, <2>5, PutBackCarries
  <2>7. \A q \in Requests \ {r} : chat'[q] = chat[q]
    BY <1>1, <2>1 DEF PutBack
  <2>8. held' = held
    BY <2>1
  <2>9. QED BY <2>4, <2>6, <2>7, <2>8, TraceGoes
<1>15. CASE FailRef(r)
  <2>1. UNCHANGED <<ccr, lapsed, held>>
    BY <1>15 DEF FailRef
  <2>2. CASE \E pc : Move(r, pc)
    BY <1>3, <2>1, <2>2
  <2>3. CASE ~ \E pc : Move(r, pc)
    <3>0. PICK s : chat' = [chat EXCEPT ![r].pc = "upstream", ![r].sid = s,
                                        ![r].degraded = TRUE, ![r].out = chat[r].sent]
      BY <1>15, <2>3, Zenon DEF FailRef
    <3>1. chat' = [chat EXCEPT ![r] = [chat[r] EXCEPT !.pc = "upstream", !.sid = s,
                                         !.degraded = TRUE, !.out = chat[r].sent]]
      BY <3>0
    <3>2. /\ chat'[r].sent = chat[r].sent /\ chat'[r].todo = chat[r].todo
          /\ chat'[r].out = chat[r].sent /\ chat'[r].at = chat[r].at
          /\ \A q \in Requests \ {r} : chat'[q] = chat[q]
      BY <1>1, <3>1 DEF Locals
    <3>3. Carried(chat'[r], Stored)
      BY <1>1, <3>2 DEF Carried
    <3>4. QED BY <1>2, <2>1, <3>2, <3>3
  <2>4. QED BY <2>2, <2>3
<1>16. CASE Ready(r)
  <2> DEFINE pc == IF chat[r].via = "gateway" THEN "upstream" ELSE "answered"
  <2>0. PICK msgs \in Enriched(r) :
          /\ chat' = [chat EXCEPT ![r].out = msgs, ![r].pc = pc]
          /\ held' = IF chat[r].via = "gateway" THEN held ELSE held \cup msgs
    BY <1>16, Zenon DEF Ready
  <2> HIDE DEF pc
  <2>1. /\ chat' = [chat EXCEPT ![r] = [chat[r] EXCEPT !.out = msgs, !.pc = pc]]
        /\ held' \subseteq held \cup msgs
    BY <2>0
  <2>2. msgs = chat[r].out \/ msgs \in Injected(chat[r].out)
    BY DEF Enriched
  <2>3. \A e \in chat[r].out : Traced(e, Stored)
    BY <1>1 DEF Carried
  <2>4. \A e \in msgs : Traced(e, Stored)
    BY <2>2, <2>3, InjectedTraced
  <2>5. /\ chat'[r].sent = chat[r].sent /\ chat'[r].todo = chat[r].todo
        /\ chat'[r].out = msgs /\ chat'[r].at = chat[r].at
        /\ \A q \in Requests \ {r} : chat'[q] = chat[q]
    BY <1>1, <2>1 DEF Locals
  <2>6. Carried(chat'[r], Stored)
    BY <1>1, <2>4, <2>5 DEF Carried
  <2>7. UNCHANGED <<ccr, lapsed>>
    BY <1>16 DEF Ready
  <2>8. QED BY <1>2, <2>1, <2>4, <2>5, <2>6, <2>7
<1>17. QED
  BY <1>6, <1>7, <1>8, <1>9, <1>10, <1>11, <1>12, <1>13, <1>14, <1>15, <1>16 DEF RequestStep

LEMMA StepTraces ==
  ASSUME HeldHere, Known, TraceInv, [GatewayNext]_allVars
  PROVE  TraceInv'
<1>1. ASSUME UNCHANGED <<ccr, lapsed, held, chat>>
      PROVE  TraceInv'
  BY <1>1 DEF TraceInv, Stored
<1>2. ASSUME NEW r \in scene.requests, RequestStep(r)
      PROVE  TraceInv'
  BY <1>2, RequestTraces, ScenesAssumption DEF Known
<1>3. CASE Retrieve
  <2>0. PICK e \in held \cup Forwarded : \E c \in Refs(e.now) \cap ccr :
          held' = held \cup {[was |-> e.was, now |-> c]}
    BY <1>3 DEF Retrieve
  <2>1. PICK c \in Refs(e.now) \cap ccr :
          held' = held \cup {[was |-> e.was, now |-> c]}
    BY <2>0
  <2>2. UNCHANGED <<ccr, lapsed, chat>>
    BY <1>3 DEF Retrieve
  <2>3. Stored' = Stored /\ c \in Refs(e.now) \cap Stored
    BY <2>1, <2>2 DEF Stored
  <2>4. Traced(e, Stored) /\ \A x \in Stored : Proper(x, Stored)
    BY <2>1 DEF TraceInv, Carried, Forwarded
  <2>5. Traced([was |-> e.was, now |-> c], Stored)
    BY <2>3, <2>4, GivenTraced
  <2>6. QED BY <2>1, <2>2, <2>3, <2>5, TraceGoes
<1>4. CASE SessionStep
  <2>1. Opened /\ UNCHANGED <<ccr, lapsed, held>>
    BY <1>4 DEF SessionStep
  <2>2. \A r \in Requests : SameHand(chat[r], chat'[r])
    BY <2>1 DEF Opened, Known, Locals, SameHand
  <2>3. Stored' = Stored /\ \A r \in Requests : Carried(chat[r], Stored)
    BY <2>1 DEF Stored, TraceInv
  <2>4. \A r \in Requests : Carried(chat'[r], Stored)
    BY <2>2, <2>3, SameCarries
  <2>5. QED BY <2>1, <2>3, <2>4, TraceGoes
<1>5. CASE ToolCall \/ Around
  BY <1>1, <1>5 DEF ToolCall, Around, gatewayVars
<1>6. CASE ExpireRef
  <2>1. Stored' = Stored /\ UNCHANGED <<held, chat>>
    BY <1>6 DEF ExpireRef, Stored
  <2>2. QED BY <2>1, TraceGoes
<1>7. CASE UNCHANGED allVars
  BY <1>1, <1>7 DEF allVars, gatewayVars
<1>8. QED BY <1>2, <1>3, <1>4, <1>5, <1>6, <1>7 DEF GatewayNext

(* "Lossy but recoverable": however often a message is shrunk, given back, *)
(* packed and passed on, by any number of requests that share its refs, it *)
(* leads back to all of the text that shrinking was given, but for keys    *)
(* that expired and for a list of parts that the pack replaced.            *)
THEOREM ShrunkLeadBack == GatewaySpec => []LeadsBack
<1> DEFINE Inv == HeldHere /\ Known /\ TraceInv
<1>1. GatewayInit => Inv
  <2> SUFFICES ASSUME GatewayInit PROVE TraceInv
    BY InitKnows
  <2>1. Stored = {} /\ scene \in Scenes /\ held = {Message(c) : c \in scene.texts}
    BY DEF GatewayInit, Stored
  <2>2. \A c \in scene.texts : Traced(Message(c), Stored)
    BY <2>1, TextsAssumption, FirstTraced
  <2>3. \A r \in Requests : Carried(chat[r], Stored)
    BY DEF GatewayInit, Carried
  <2>4. QED BY <2>1, <2>2, <2>3 DEF TraceInv
<1>2. Inv /\ [GatewayNext]_allVars => Inv'
  BY StepKnows, StepTraces
<1>3. Inv => LeadsBack
  BY TracedLeadsBack
<1>4. QED BY <1>1, <1>2, <1>3, PTL DEF GatewaySpec
=============================================================================
