------------------------- MODULE AutoCaptureProofs -------------------------
(***************************************************************************)
(* Theorems about AutoCapture for every number of agents, sessions, turns  *)
(* and handlers, every bound and every set of faults.                      *)
(***************************************************************************)
EXTENDS AutoCapture, WorkingMemoryProofs

(* A handler that is not at rest has a turn of some agent.                 *)
LEMMA HandlingTyped ==
  ASSUME TypeOK, NEW c \in Clients
  PROVE  /\ client[c].pc \in PC => /\ client[c] \in Handling
                                   /\ client[c].agent \in Agents
                                   /\ client[c].turn \in Turns
         /\ client[c].pc \in Naming => client[c].sid \in Sessions
         /\ client[c].pc # "idle" => client[c].pc \in PC
         /\ client[c].pc \notin PC => client[c] = Resting
         /\ client[c].sid \in Sessions \cup {None}
<1>1. client[c] \in Handling \cup {Resting}
  BY DEF TypeOK
<1>2. Resting.pc = "idle" /\ Resting.sid = None
  BY DEF Resting
<1>3. "idle" \notin PC /\ Naming \subseteq PC
  BY DEF PC, Naming
<1>4. client[c] \in Handling =>
        /\ client[c].pc \in PC /\ client[c].agent \in Agents
        /\ client[c].turn \in Turns /\ client[c].sid \in Sessions \cup {None}
        /\ client[c].pc \in Naming => client[c].sid \in Sessions
  BY DEF Handling
<1>5. QED BY <1>1, <1>2, <1>3, <1>4

(* Moving the program counter keeps the type of the handler.               *)
LEMMA GotoTyped ==
  ASSUME TypeOK, NEW c \in Clients, client[c].pc \in PC, NEW pc \in PC,
         pc \in Naming => client[c].sid # None
  PROVE  /\ [client EXCEPT ![c].pc = pc] \in [Clients -> Handling \cup {Resting}]
         /\ \A n \in Nat : [client EXCEPT ![c].pc = pc, ![c].n = n]
                            \in [Clients -> Handling \cup {Resting}]
<1>1. client[c] \in Handling /\ client \in [Clients -> Handling \cup {Resting}]
  BY HandlingTyped DEF TypeOK
<1>2. [client[c] EXCEPT !.pc = pc] \in Handling
  BY <1>1 DEF Handling
<1>3. \A n \in Nat : [client[c] EXCEPT !.pc = pc, !.n = n] \in Handling
  BY <1>1 DEF Handling
<1>4. QED BY <1>1, <1>2, <1>3

(* So does naming a session at the same time.                              *)
LEMMA GotoSessionTyped ==
  ASSUME TypeOK, NEW c \in Clients, client[c].pc \in PC, NEW pc \in PC,
         NEW s \in Sessions
  PROVE  [client EXCEPT ![c].pc = pc, ![c].sid = s]
           \in [Clients -> Handling \cup {Resting}]
<1>1. client[c] \in Handling /\ client \in [Clients -> Handling \cup {Resting}]
  BY HandlingTyped DEF TypeOK
<1>2. [client[c] EXCEPT !.pc = pc, !.sid = s] \in Handling
  BY <1>1, NoneAssumption DEF Handling
<1>3. QED BY <1>1, <1>2

(* So does the retry.                                                      *)
LEMMA RetryTyped ==
  ASSUME TypeOK, NEW c \in Clients, client[c].pc \in PC
  PROVE  [client EXCEPT ![c].pc = "open", ![c].retried = TRUE]
           \in [Clients -> Handling \cup {Resting}]
<1>1. client[c] \in Handling /\ client \in [Clients -> Handling \cup {Resting}]
  BY HandlingTyped DEF TypeOK
<1>2. [client[c] EXCEPT !.pc = "open", !.retried = TRUE] \in Handling
  BY <1>1 DEF Handling, PC, Naming
<1>3. QED BY <1>1, <1>2

(* Every action keeps the types.                                           *)
LEMMA StepTyped == TypeOK /\ [Next]_vars => TypeOK'
<1> SUFFICES ASSUME TypeOK, [Next]_vars PROVE TypeOK'
  OBVIOUS
<1> DEFINE Fates == {"new", "begun", "listed", "accepted", "dropped"}
           Handlers == [Clients -> Handling \cup {Resting}]
           Pointers == [Agents -> [sid: Sessions \cup {None}, n: Nat]]
<1>1. /\ WMTypeOK /\ pointer \in Pointers
      /\ client \in Handlers /\ fate \in [Turns -> Fates]
  BY DEF TypeOK
<1>2. ASSUME WMTypeOK', pointer' \in Pointers, client' \in Handlers,
             fate' \in [Turns -> Fates]
      PROVE  TypeOK'
  BY <1>2 DEF TypeOK
<1>3. UNCHANGED wmVars => WMTypeOK'
  BY <1>1 DEF wmVars, WMTypeOK
<1>4. ASSUME NEW c \in Clients, client[c].pc \in Naming
      PROVE  client[c].sid \in Sessions /\ client[c].sid # None
  BY <1>4, HandlingTyped, NoneAssumption
<1> USE DEF Goto
<1>5. ASSUME NEW c \in Clients, NEW t \in Turns, Begin(c, t)
      PROVE  TypeOK'
  <2>1. [Resting EXCEPT !.pc = "get", !.agent = Author[t], !.turn = t]
          \in Handling
    BY AuthorAssumption DEF Resting, Handling, PC, Naming
  <2>2. client' \in Handlers
    BY <1>1, <1>5, <2>1 DEF Begin
  <2>3. fate' \in [Turns -> Fates]
    BY <1>1, <1>5 DEF Begin
  <2>4. QED BY <1>1, <1>2, <1>3, <1>5, <2>2, <2>3 DEF Begin
<1>6. ASSUME NEW c \in Clients, GetPointer(c)
      PROVE  TypeOK'
  <2>1. client[c].pc \in PC /\ client[c].agent \in Agents
    BY <1>6, HandlingTyped DEF GetPointer, PC
  <2>2. pointer[client[c].agent].sid \in Sessions \cup {None}
    BY <1>1, <2>1
  <2>3. client' \in Handlers
    <3> DEFINE p == pointer[client[c].agent]
    <3>1. \/ client' = [client EXCEPT ![c].pc = "open"]
          \/ /\ p.sid # None
             /\ \E pc \in {"check", "close meta"} :
                  client' = [client EXCEPT ![c].pc = pc, ![c].sid = p.sid]
      BY <1>6 DEF GetPointer
    <3>2. "open" \in PC \ Naming /\ {"check", "close meta"} \subseteq PC
      BY DEF PC, Naming
    <3>3. CASE client' = [client EXCEPT ![c].pc = "open"]
      <4>1. [client EXCEPT ![c].pc = "open"] \in Handlers
        BY <2>1, <3>2, GotoTyped
      <4>2. QED BY <3>3, <4>1
    <3>4. CASE /\ p.sid # None
               /\ \E pc \in {"check", "close meta"} :
                    client' = [client EXCEPT ![c].pc = pc, ![c].sid = p.sid]
      <4>1. p.sid \in Sessions
        BY <2>2, <3>4
      <4>2. PICK pc \in {"check", "close meta"} :
              client' = [client EXCEPT ![c].pc = pc, ![c].sid = p.sid]
        BY <3>4
      <4> HIDE DEF p
      <4>3. pc \in PC
        BY <3>2
      <4>4. QED BY <2>1, <4>1, <4>2, <4>3, GotoSessionTyped
    <3>5. QED BY <3>1, <3>3, <3>4
  <2>4. QED BY <1>1, <1>2, <1>3, <1>6, <2>3 DEF GetPointer
<1>7. ASSUME NEW c \in Clients, CloseMeta(c)
      PROVE  TypeOK'
  <2>1. client[c].pc \in PC /\ client[c].sid # None
    BY <1>4, <1>7 DEF CloseMeta, PC, Naming
  <2>2. client' \in Handlers
    <3>1. PICK pc \in {"close mark", "open"} : client' = [client EXCEPT ![c].pc = pc]
      BY <1>7 DEF CloseMeta
    <3>2. pc \in PC
      BY DEF PC
    <3>3. [client EXCEPT ![c].pc = pc] \in Handlers
      BY <2>1, <3>2, GotoTyped
    <3>4. QED BY <3>1, <3>3
  <2>3. QED BY <1>1, <1>2, <1>3, <1>7, <2>2 DEF CloseMeta
<1>8. ASSUME NEW c \in Clients, CloseMark(c)
      PROVE  TypeOK'
  <2>1. client[c].pc \in PC /\ client[c].sid # None /\ client[c].sid \in Sessions
    BY <1>4, <1>8 DEF CloseMark, PC, Naming
  <2>2. client' \in Handlers
    BY <1>8, <2>1, GotoTyped DEF CloseMark, PC
  <2>3. WMTypeOK'
    BY <1>1, <1>8, <2>1 DEF CloseMark, MarkClosed, WMTypeOK, MetaState, distill
  <2>4. QED BY <1>1, <1>2, <1>8, <2>2, <2>3 DEF CloseMark
<1>9. ASSUME NEW c \in Clients, ClosePush(c)
      PROVE  TypeOK'
  <2>1. client[c].pc \in PC /\ client[c].sid # None /\ client[c].sid \in Sessions
    BY <1>4, <1>9 DEF ClosePush, PC, Naming
  <2>2. client' \in Handlers
    BY <1>9, <2>1, GotoTyped DEF ClosePush, PC, Naming
  <2>3. WMTypeOK'
    BY <1>1, <1>9, <2>1, PushTyped DEF ClosePush
  <2>4. QED BY <1>1, <1>2, <1>9, <2>2, <2>3 DEF ClosePush
<1>10. ASSUME NEW c \in Clients, Open(c)
       PROVE  TypeOK'
  <2>1. PICK s \in Sessions :
          /\ OpenSession(s, client[c].agent)
          /\ client' = [client EXCEPT ![c].pc = "check", ![c].sid = s]
    BY <1>10 DEF Open
  <2>2. client[c].pc \in PC /\ client[c].agent \in Agents
    BY <1>10, HandlingTyped DEF Open, PC
  <2>3. client' \in Handlers
    BY <2>1, <2>2, GotoSessionTyped DEF PC
  <2>4. WMTypeOK'
    BY <1>1, <1>10, <2>1, <2>2
       DEF Open, OpenSession, WMTypeOK, MetaState, distill
  <2>5. QED BY <1>1, <1>2, <1>10, <2>3, <2>4 DEF Open
<1>11. ASSUME NEW c \in Clients, AppendCheck(c)
       PROVE  TypeOK'
  <2>1. /\ client[c].pc \in PC /\ client[c].turn \in Turns
        /\ client[c].sid # None /\ client[c].sid \in Sessions
    BY <1>4, <1>11, HandlingTyped DEF AppendCheck, PC, Naming
  <2>2. client' \in Handlers
    <3>1. \/ client' = [client EXCEPT ![c].pc = "push"]
          \/ client' = [client EXCEPT ![c].pc = "open", ![c].retried = TRUE]
          \/ client' = [client EXCEPT ![c] = Resting]
      BY <1>11 DEF AppendCheck
    <3>2. "push" \in PC
      BY DEF PC
    <3>3. [client EXCEPT ![c].pc = "push"] \in Handlers
      BY <2>1, <3>2, GotoTyped
    <3>4. [client EXCEPT ![c].pc = "open", ![c].retried = TRUE] \in Handlers
      BY <2>1, RetryTyped
    <3>5. [client EXCEPT ![c] = Resting] \in Handlers
      BY <1>1
    <3>6. QED BY <3>1, <3>3, <3>4, <3>5
  <2>3. fate' \in [Turns -> Fates]
    BY <1>1, <1>11 DEF AppendCheck
  <2>4. QED BY <1>1, <1>2, <1>3, <1>11, <2>2, <2>3 DEF AppendCheck
<1>12. ASSUME NEW c \in Clients, AppendPush(c)
       PROVE  TypeOK'
  <2>1. /\ client[c].pc \in PC /\ client[c].turn \in Turns
        /\ client[c].sid # None /\ client[c].sid \in Sessions
    BY <1>4, <1>12, HandlingTyped DEF AppendPush, PC, Naming
  <2>2. turns' \in [Sessions -> SUBSET Turns]
    BY <1>1, <1>12, <2>1 DEF AppendPush, PushTurn, WMTypeOK
  <2>3. Cardinality(turns'[client[c].sid]) \in Nat
    BY <2>1, <2>2, TurnsAssumption, FS_Subset, FS_CardinalityType
  <2>4. client' \in Handlers
    BY <1>12, <2>1, <2>3, GotoTyped DEF AppendPush, PC
  <2>5. WMTypeOK'
    <3>1. meta' \in [Sessions -> MetaState]
      BY <1>1, <1>12 DEF AppendPush, PushTurn, WMTypeOK, MetaState
    <3>2. QED
      BY <1>1, <1>12, <2>2, <3>1 DEF AppendPush, PushTurn, WMTypeOK, distill
  <2>6. fate' \in [Turns -> Fates]
    BY <1>1, <1>12 DEF AppendPush
  <2>7. QED BY <1>1, <1>2, <1>12, <2>4, <2>5, <2>6 DEF AppendPush
<1>13. ASSUME NEW c \in Clients, SetPointer(c)
       PROVE  TypeOK'
  <2>1. client[c].pc \in PC /\ client[c].sid \in Sessions /\ client[c].n \in Nat
    BY <1>4, <1>13, HandlingTyped DEF SetPointer, PC, Naming, Handling
  <2>2. client' \in Handlers
    BY <1>1, <1>13 DEF SetPointer
  <2>3. pointer' \in Pointers
    BY <1>1, <1>13, <2>1 DEF SetPointer
  <2>4. fate' \in [Turns -> Fates]
    BY <1>1, <1>13 DEF SetPointer
  <2>5. QED BY <1>2, <1>3, <1>13, <2>2, <2>3, <2>4 DEF SetPointer
<1>14. ASSUME NEW c \in Clients, ClientCrash(c)
       PROVE  TypeOK'
  <2>1. client' \in Handlers
    BY <1>1, <1>14 DEF ClientCrash
  <2>2. fate' \in [Turns -> Fates]
    BY <1>1, <1>14 DEF ClientCrash
  <2>3. QED BY <1>1, <1>2, <1>3, <1>14, <2>1, <2>2 DEF ClientCrash
<1>15. ASSUME NEW a \in Agents, ExpirePointer(a)
       PROVE  TypeOK'
  <2>1. pointer' \in Pointers
    BY <1>1, <1>15 DEF ExpirePointer, NoPointer
  <2>2. QED BY <1>1, <1>2, <1>3, <1>15, <2>1 DEF ExpirePointer
<1>16. ASSUME NEW s \in Sessions, Expire(s)
       PROVE  TypeOK'
  <2>1. WMTypeOK'
    BY <1>1, <1>16 DEF Expire, ExpireSession, WMTypeOK, MetaState, distill
  <2>2. QED BY <1>1, <1>2, <1>16, <2>1 DEF Expire
<1>17. ASSUME Worker \/ WorkerFaults
       PROVE  TypeOK'
  <2>1. WMTypeOK'
    BY <1>1, <1>17, WorkerTyped DEF Worker, WorkerFaults, store
  <2>2. QED BY <1>1, <1>2, <1>17, <2>1 DEF Worker, WorkerFaults
<1>18. ASSUME UNCHANGED vars
       PROVE  TypeOK'
  BY <1>1, <1>2, <1>3, <1>18 DEF vars
<1>19. QED
  BY <1>5, <1>6, <1>7, <1>8, <1>9, <1>10, <1>11, <1>12, <1>13, <1>14, <1>15,
     <1>16, <1>17, <1>18 DEF Next, ClientStep

----------------------------------------------------------------------------
(* Jobs and the sessions they name.                                        *)

JobInv == TypeOK /\ HandlersHold /\ JobOnlyForClosed

(* What an action that leaves the store and the pipeline alone may do to   *)
(* the handlers without disturbing what they hold.                         *)
LEMMA HoldFrame ==
  ASSUME JobInv, TypeOK', UNCHANGED wmVars,
         \A a \in Agents : pointer'[a].sid \in issued \cup {None},
         \A c \in Clients :
            \/ client'[c] = client[c]
            \/ /\ client'[c].sid \in issued \cup {None}
               /\ client'[c].pc # "close push"
  PROVE  JobInv'
<1>1. JobOnlyForClosed'
  <2>1. UNCHANGED distill /\ UNCHANGED <<meta, issued>>
    BY DEF distill, wmVars
  <2>2. UNCHANGED JobSids
    BY <2>1, DistillUnchanged
  <2>3. QED BY <2>1, <2>2 DEF JobInv, JobOnlyForClosed, IsOpen
<1>2. HandlersHold'
  BY DEF JobInv, HandlersHold, IsOpen, wmVars
<1>3. QED BY <1>1, <1>2 DEF JobInv

(* Every action keeps jobs and handlers on sessions that were opened, and  *)
(* jobs on sessions that are not open.                                     *)
LEMMA StepJobs == JobInv /\ [Next]_vars => JobInv'
<1> SUFFICES ASSUME JobInv, [Next]_vars PROVE JobInv'
  OBVIOUS
<1>1. TypeOK /\ HandlersHold /\ JobOnlyForClosed /\ TypeOK' /\ WMTypeOK
  BY StepTyped DEF JobInv, TypeOK
<1>2. /\ client \in [Clients -> Handling \cup {Resting}]
      /\ meta \in [Sessions -> MetaState] /\ issued \subseteq Sessions
      /\ pointer \in [Agents -> [sid: Sessions \cup {None}, n: Nat]]
  BY <1>1 DEF TypeOK, WMTypeOK
<1>3. \A a \in Agents : pointer[a].sid \in issued \cup {None}
  BY <1>1 DEF HandlersHold
<1>4. \A c \in Clients : client[c].sid \in issued \cup {None}
  BY <1>1 DEF HandlersHold
<1>5. Resting.sid = None /\ Resting.pc = "idle"
  BY DEF Resting
<1>6. ASSUME NEW c \in Clients, client[c].pc \in Naming
      PROVE  client[c].sid \in issued /\ client[c].sid \in Sessions
  BY <1>4, <1>1, <1>6, HandlingTyped, NoneAssumption
<1>7. ASSUME NEW c \in Clients, client[c].pc \in PC, NEW pc
      PROVE  /\ [client[c] EXCEPT !.pc = pc].pc = pc
             /\ [client[c] EXCEPT !.pc = pc].sid = client[c].sid
  BY <1>1, <1>7, HandlingTyped DEF Handling
<1>8. ASSUME NEW c \in Clients, NEW t \in Turns, Begin(c, t)
      PROVE  JobInv'
  BY <1>1, <1>2, <1>3, <1>5, <1>8, HoldFrame DEF Begin, Resting
<1>9. ASSUME NEW c \in Clients, GetPointer(c)
      PROVE  JobInv'
  <2>1. /\ client[c].pc \in PC /\ client[c] \in Handling
        /\ pointer[client[c].agent].sid \in issued \cup {None}
    BY <1>1, <1>3, <1>9, HandlingTyped DEF GetPointer, PC
  <2>2. /\ client'[c].sid \in issued \cup {None}
        /\ client'[c].pc # "close push"
        /\ \A d \in Clients : d # c => client'[d] = client[d]
    <3> DEFINE p == pointer[client[c].agent]
    <3>1. \/ client' = [client EXCEPT ![c].pc = "open"]
          \/ \E pc \in {"check", "close meta"} :
               client' = [client EXCEPT ![c].pc = pc, ![c].sid = p.sid]
      BY <1>9 DEF GetPointer, Goto
    <3>2. CASE client' = [client EXCEPT ![c].pc = "open"]
      BY <1>2, <1>4, <1>7, <2>1, <3>2
    <3>3. CASE \E pc \in {"check", "close meta"} :
                 client' = [client EXCEPT ![c].pc = pc, ![c].sid = p.sid]
      <4>1. PICK pc \in {"check", "close meta"} :
              client' = [client EXCEPT ![c].pc = pc, ![c].sid = p.sid]
        BY <3>3
      <4>2. p.sid \in issued \cup {None}
        BY <2>1
      <4> HIDE DEF p
      <4>3. client'[c] = [client[c] EXCEPT !.pc = pc, !.sid = p.sid]
        BY <1>2, <4>1
      <4>4. client'[c].pc = pc /\ client'[c].sid = p.sid
        BY <2>1, <4>3 DEF Handling
      <4>5. \A d \in Clients : d # c => client'[d] = client[d]
        BY <1>2, <4>1
      <4>6. QED BY <4>2, <4>4, <4>5
    <3>4. QED BY <3>1, <3>2, <3>3
  <2>3. UNCHANGED wmVars /\ UNCHANGED pointer
    BY <1>9 DEF GetPointer
  <2>4. QED BY <1>1, <1>3, <2>2, <2>3, HoldFrame
<1>10. ASSUME NEW c \in Clients, CloseMeta(c)
       PROVE  JobInv'
  <2>1. client[c].pc \in PC
    BY <1>10 DEF CloseMeta, PC
  <2>2. PICK pc \in {"close mark", "open"} :
          client' = [client EXCEPT ![c].pc = pc]
    BY <1>10 DEF CloseMeta, Goto
  <2>3. /\ client'[c].sid \in issued \cup {None}
        /\ client'[c].pc # "close push"
        /\ \A d \in Clients : d # c => client'[d] = client[d]
    BY <1>2, <1>4, <1>7, <2>1, <2>2
  <2>4. UNCHANGED wmVars /\ UNCHANGED pointer
    BY <1>10 DEF CloseMeta
  <2>5. QED BY <1>1, <1>3, <2>3, <2>4, HoldFrame
<1>11. ASSUME NEW c \in Clients, CloseMark(c)
       PROVE  JobInv'
  <2>1. client[c].pc \in PC /\ client[c].sid \in issued
          /\ client[c].sid \in Sessions
    BY <1>6, <1>11 DEF CloseMark, PC, Naming
  <2>2. client' = [client EXCEPT ![c].pc = "close push"]
    BY <1>11 DEF CloseMark, Goto
  <2>3. /\ client'[c].sid = client[c].sid
        /\ \A d \in Clients : d # c => client'[d] = client[d]
    BY <1>2, <1>7, <2>1, <2>2
  <2>4. /\ \A s \in Sessions : meta[s] # "open" => meta'[s] # "open"
        /\ meta'[client[c].sid] # "open"
        /\ UNCHANGED <<issued, pointer>>
    BY <1>2, <1>11, <2>1 DEF CloseMark, MarkClosed
  <2>5. \A d \in Clients : client'[d].pc = "close push" => meta'[client'[d].sid] # "open"
    <3>1. ASSUME NEW d \in Clients, d # c, client[d].pc = "close push"
          PROVE  meta[client[d].sid] # "open" /\ client[d].sid \in Sessions
      BY <1>1, <1>6, <3>1 DEF HandlersHold, PC, Naming, IsOpen
    <3>2. QED BY <2>3, <2>4, <3>1
  <2>6. HandlersHold'
    BY <1>3, <1>4, <2>3, <2>4, <2>5 DEF HandlersHold, IsOpen
  <2>7. JobOnlyForClosed'
    BY <1>1, <1>2, <1>11, <2>1, DistillUnchanged
       DEF CloseMark, MarkClosed, JobOnlyForClosed, IsOpen
  <2>8. QED BY <1>1, <2>6, <2>7 DEF JobInv
<1>12. ASSUME NEW c \in Clients, ClosePush(c)
       PROVE  JobInv'
  <2>1. client[c].pc \in PC /\ client[c].sid \in issued
          /\ client[c].sid \in Sessions
    BY <1>6, <1>12 DEF ClosePush, PC, Naming
  <2>2. ~ IsOpen(client[c].sid)
    BY <1>1, <1>12 DEF ClosePush, HandlersHold
  <2>3. UNCHANGED <<issued, meta, pointer>>
    BY <1>12 DEF ClosePush, store
  <2>4. JobOnlyForClosed'
    BY <1>1, <1>12, <2>1, <2>2, <2>3, PushSids
       DEF ClosePush, JobOnlyForClosed, IsOpen
  <2>5. client' = [client EXCEPT ![c].pc = "open"]
    BY <1>12 DEF ClosePush, Goto
  <2>6. /\ client'[c].sid = client[c].sid /\ client'[c].pc = "open"
        /\ \A d \in Clients : d # c => client'[d] = client[d]
    BY <1>2, <1>7, <2>1, <2>5
  <2>7. HandlersHold'
    BY <1>1, <2>3, <2>6 DEF HandlersHold, IsOpen
  <2>8. QED BY <1>1, <2>4, <2>7 DEF JobInv
<1>13. ASSUME NEW c \in Clients, Open(c)
       PROVE  JobInv'
  <2>1. PICK s \in Sessions :
          /\ OpenSession(s, client[c].agent)
          /\ client' = [client EXCEPT ![c].pc = "check", ![c].sid = s]
    BY <1>13 DEF Open
  <2>2. /\ s \notin issued /\ issued' = issued \cup {s} /\ UNCHANGED pointer
        /\ \A r \in Sessions : r # s => meta'[r] = meta[r]
    BY <1>2, <1>13, <2>1 DEF Open, OpenSession
  <2>3. client[c] \in Handling
    BY <1>1, <1>13, HandlingTyped DEF Open, PC
  <2>4. /\ client'[c].sid = s /\ client'[c].pc = "check"
        /\ \A d \in Clients : d # c => client'[d] = client[d]
    BY <1>2, <2>1, <2>3 DEF Handling
  <2>5. \A d \in Clients : client'[d].pc = "close push" => meta'[client'[d].sid] # "open"
    <3>1. ASSUME NEW d \in Clients, d # c, client[d].pc = "close push"
          PROVE  /\ meta[client[d].sid] # "open" /\ client[d].sid \in Sessions
                 /\ client[d].sid # s
      BY <1>1, <1>6, <2>2, <3>1 DEF HandlersHold, PC, Naming, IsOpen
    <3>2. QED BY <2>2, <2>4, <3>1
  <2>6. HandlersHold'
    BY <1>3, <1>4, <2>2, <2>4, <2>5 DEF HandlersHold, IsOpen
  <2>7. JobOnlyForClosed'
    <3>1. UNCHANGED JobSids
      BY <1>13, DistillUnchanged DEF Open
    <3>2. QED BY <1>1, <1>2, <2>2, <3>1 DEF JobOnlyForClosed, IsOpen
  <2>8. QED BY <1>1, <2>6, <2>7 DEF JobInv
<1>14. ASSUME NEW c \in Clients, AppendCheck(c)
       PROVE  JobInv'
  <2>1. client[c].pc \in PC /\ client[c] \in Handling
    BY <1>1, <1>14, HandlingTyped DEF AppendCheck, PC
  <2>2. \/ client' = [client EXCEPT ![c].pc = "push"]
        \/ client' = [client EXCEPT ![c].pc = "open", ![c].retried = TRUE]
        \/ client' = [client EXCEPT ![c] = Resting]
    BY <1>14 DEF AppendCheck, Goto
  <2>3. /\ client'[c].sid \in {client[c].sid, None}
        /\ client'[c].pc # "close push"
        /\ \A d \in Clients : d # c => client'[d] = client[d]
    <3>1. ASSUME client' = [client EXCEPT ![c].pc = "push"]
          PROVE  client'[c].sid = client[c].sid /\ client'[c].pc = "push"
      BY <1>2, <1>7, <2>1, <3>1
    <3>2. ASSUME client' = [client EXCEPT ![c].pc = "open", ![c].retried = TRUE]
          PROVE  client'[c].sid = client[c].sid /\ client'[c].pc = "open"
      BY <1>2, <2>1, <3>2 DEF Handling
    <3>3. ASSUME client' = [client EXCEPT ![c] = Resting]
          PROVE  client'[c].sid = None /\ client'[c].pc = "idle"
      BY <1>2, <1>5, <3>3
    <3>4. \A d \in Clients : d # c => client'[d] = client[d]
      BY <1>2, <2>2
    <3>5. QED BY <2>2, <3>1, <3>2, <3>3, <3>4
  <2>4. UNCHANGED wmVars /\ UNCHANGED pointer
    BY <1>14 DEF AppendCheck
  <2>5. QED BY <1>1, <1>3, <1>4, <2>3, <2>4, HoldFrame
<1>15. ASSUME NEW c \in Clients, AppendPush(c)
       PROVE  JobInv'
  <2>1. client[c] \in Handling
    BY <1>1, <1>15, HandlingTyped DEF AppendPush, PC
  <2>2. /\ client'[c].sid = client[c].sid /\ client'[c].pc = "set"
        /\ \A d \in Clients : d # c => client'[d] = client[d]
    BY <1>2, <1>15, <2>1 DEF AppendPush, Handling
  <2>3. /\ UNCHANGED <<issued, pointer>> /\ UNCHANGED JobSids
        /\ meta' = [meta EXCEPT ![client[c].sid] =
                                    IF @ = "ghost" THEN "fading" ELSE @]
    BY <1>15, DistillUnchanged DEF AppendPush, PushTurn
  <2>4. \A s : ~ IsOpen(s) => meta'[s] # "open"
    BY <1>1, <2>3 DEF IsOpen, TypeOK, WMTypeOK
  <2>5. HandlersHold' /\ JobOnlyForClosed'
    BY <1>1, <2>2, <2>3, <2>4 DEF HandlersHold, JobOnlyForClosed, IsOpen
  <2>6. QED BY <1>1, <2>5 DEF JobInv
<1>16. ASSUME NEW c \in Clients, SetPointer(c)
       PROVE  JobInv'
  <2>1. client[c].sid \in issued
    BY <1>6, <1>16 DEF SetPointer, PC, Naming
  <2>2. \A a \in Agents : pointer'[a].sid \in issued \cup {None}
    BY <1>2, <1>3, <1>16, <2>1 DEF SetPointer
  <2>3. /\ client'[c] = Resting
        /\ \A d \in Clients : d # c => client'[d] = client[d]
    BY <1>2, <1>16 DEF SetPointer
  <2>4. UNCHANGED wmVars
    BY <1>16 DEF SetPointer
  <2>5. QED BY <1>1, <1>5, <2>2, <2>3, <2>4, HoldFrame
<1>17. ASSUME NEW c \in Clients, ClientCrash(c)
       PROVE  JobInv'
  <2>1. /\ client'[c] = Resting
        /\ \A d \in Clients : d # c => client'[d] = client[d]
        /\ UNCHANGED wmVars /\ UNCHANGED pointer
    BY <1>2, <1>17 DEF ClientCrash
  <2>2. QED BY <1>1, <1>3, <1>5, <2>1, HoldFrame
<1>18. ASSUME NEW a \in Agents, ExpirePointer(a)
       PROVE  JobInv'
  <2>1. \A b \in Agents : pointer'[b].sid \in issued \cup {None}
    BY <1>2, <1>3, <1>18 DEF ExpirePointer, NoPointer
  <2>2. UNCHANGED wmVars /\ UNCHANGED client
    BY <1>18 DEF ExpirePointer
  <2>3. QED BY <1>1, <2>1, <2>2, HoldFrame
<1>19. ASSUME NEW s \in Sessions, Expire(s)
       PROVE  JobInv'
  <2>1. /\ UNCHANGED <<issued, pointer, client>> /\ UNCHANGED JobSids
        /\ \A r \in Sessions : ~ IsOpen(r) => ~ IsOpen(r)'
    BY <1>2, <1>19, DistillUnchanged DEF Expire, ExpireSession, IsOpen
  <2>2. HandlersHold'
    <3>1. ASSUME NEW d \in Clients, client[d].pc = "close push"
          PROVE  ~ IsOpen(client[d].sid) /\ client[d].sid \in Sessions
      BY <1>1, <1>6, <3>1 DEF HandlersHold, PC, Naming
    <3>2. QED BY <1>3, <1>4, <2>1, <3>1 DEF HandlersHold, IsOpen
  <2>3. JobOnlyForClosed'
    BY <1>1, <1>2, <2>1 DEF JobOnlyForClosed
  <2>4. QED BY <1>1, <2>2, <2>3 DEF JobInv
<1>20. ASSUME Worker \/ WorkerFaults
       PROVE  JobInv'
  <2>1. UNCHANGED <<issued, meta, pointer, client>>
    BY <1>20 DEF Worker, WorkerFaults, store
  <2>2. JobSids' \subseteq JobSids
    BY <1>1, <1>20, WorkerSids DEF Worker, WorkerFaults
  <2>3. HandlersHold' /\ JobOnlyForClosed'
    BY <1>1, <2>1, <2>2 DEF HandlersHold, JobOnlyForClosed, IsOpen
  <2>4. QED BY <1>1, <2>3 DEF JobInv
<1>21. CASE UNCHANGED vars
  BY <1>1, <1>3, <1>21, HoldFrame DEF vars
<1>22. QED
  BY <1>8, <1>9, <1>10, <1>11, <1>12, <1>13, <1>14, <1>15, <1>16, <1>17,
     <1>18, <1>19, <1>20, <1>21 DEF Next, ClientStep

(* The initial state is typed and has no job.                              *)
LEMMA InitJobs == Init => JobInv
<1> SUFFICES ASSUME Init PROVE JobInv
  OBVIOUS
<1>1. WMTypeOK
  BY InitTyped DEF Init
<1>2. TypeOK
  BY <1>1 DEF Init, TypeOK, NoPointer
<1>3. HandlersHold
  BY DEF Init, HandlersHold, NoPointer, Resting
<1>4. JobSids = {}
  BY DEF Init, WMInit, JobSids, QueuedJobs, JobsInHand, DeadJobs, Idle
<1>5. QED BY <1>2, <1>3, <1>4 DEF JobInv, JobOnlyForClosed

(* Types hold in every reachable state.                                    *)
THEOREM TypeCorrect == Spec => []TypeOK
<1>1. Init => TypeOK
  BY InitJobs DEF JobInv
<1>2. TypeOK /\ [Next]_vars => TypeOK'
  BY StepTyped
<1>3. QED BY <1>1, <1>2, PTL DEF Spec

(* No session with a distillation job can still take turns through the     *)
(* front door, however handlers, expiry, crashes and retries interleave.   *)
THEOREM JobsOnlyForClosed == Spec => []JobOnlyForClosed
<1>1. Init => JobInv
  BY InitJobs
<1>2. JobInv /\ [Next]_vars => JobInv'
  BY StepJobs
<1>3. JobInv => JobOnlyForClosed
  BY DEF JobInv
<1>4. QED BY <1>1, <1>2, <1>3, PTL DEF Spec

----------------------------------------------------------------------------
(* Conservation of jobs.                                                   *)

(* The actions that touch the pipeline are the worker's and ClosePush.     *)
LEMMA PipelineSteps ==
  ASSUME [Next]_vars
  PROVE  \/ UNCHANGED distill
         \/ \E c \in Clients : ClosePush(c)
         \/ WorkerStep \/ WorkerFault
BY DEF Next, vars, wmVars, distill, ClientStep, Begin, GetPointer, CloseMeta,
       CloseMark, Open, AppendCheck, AppendPush, SetPointer, ClientCrash,
       ExpirePointer, Expire, Worker, WorkerFaults

(* Every job ever pushed is accounted for, however handlers and faults     *)
(* interleave.                                                             *)
THEOREM JobsAccountedFor == Spec => []JobsConserved
<1> DEFINE Inv == TypeOK /\ JobsConserved
<1>1. Init => Inv
  <2> SUFFICES ASSUME Init PROVE Inv
    OBVIOUS
  <2>1. TypeOK
    BY InitJobs DEF JobInv
  <2>2. JobsInHand = {}
    BY DEF Init, WMInit, JobsInHand, Idle
  <2>3. Cardinality(JobsInHand) = 0
    BY <2>2, HandSize
  <2>4. JobsConserved
    BY <2>3 DEF Init, WMInit, JobsConserved
  <2>5. QED BY <2>1, <2>4
<1>2. Inv /\ [Next]_vars => Inv'
  <2> SUFFICES ASSUME TypeOK, JobsConserved, [Next]_vars PROVE Inv'
    OBVIOUS
  <2>1. TypeOK' /\ WMTypeOK
    BY StepTyped DEF TypeOK
  <2>2. CASE UNCHANGED distill
    <3>1. UNCHANGED <<queue, dead, count>> /\ JobsInHand' = JobsInHand
      BY <2>2, DistillUnchanged
    <3>2. JobsConserved'
      BY <3>1 DEF JobsConserved
    <3>3. QED BY <2>1, <3>2
  <2>3. ASSUME NEW c \in Clients, ClosePush(c)
        PROVE  Inv'
    <3>1. client[c].sid \in Sessions
      BY <2>3, HandlingTyped DEF ClosePush, PC, Naming
    <3>2. JobsConserved'
      BY <2>1, <2>3, <3>1, PushConserves DEF ClosePush
    <3>3. QED BY <2>1, <3>2
  <2>4. CASE WorkerStep \/ WorkerFault
    BY <2>1, <2>4, WorkerConserves
  <2>5. QED BY <2>2, <2>3, <2>4, PipelineSteps
<1>3. QED BY <1>1, <1>2, PTL DEF Spec

----------------------------------------------------------------------------
(* Refinement.                                                             *)

(* Every action is a step of the contract or leaves the contract's view    *)
(* unchanged.                                                              *)
LEMMA StepRefines == JobInv /\ [Next]_vars => [Contract!Next]_(Contract!contract)
<1> SUFFICES ASSUME JobInv, [Next]_vars
             PROVE  Contract!Next \/ UNCHANGED <<Phase, Due>>
  BY DEF Contract!contract
<1>1. TypeOK /\ HandlersHold /\ JobOnlyForClosed /\ WMTypeOK
  BY DEF JobInv, TypeOK
<1>2. ASSUME NEW c \in Clients, client[c].pc \in Naming
      PROVE  client[c].sid \in issued /\ client[c].sid \in Sessions
  BY <1>1, <1>2, HandlingTyped, NoneAssumption DEF HandlersHold
<1>3. ASSUME UNCHANGED distill, UNCHANGED <<issued, meta>>
      PROVE  UNCHANGED <<Phase, Due>>
  BY <1>3, DistillUnchanged, PhaseFrame
<1>4. ASSUME NEW c \in Clients, CloseMark(c)
      PROVE  Contract!Next \/ UNCHANGED <<Phase, Due>>
  <2>1. client[c].sid \in issued /\ client[c].sid \in Sessions
    BY <1>2, <1>4 DEF CloseMark, PC, Naming
  <2>2. UNCHANGED Due
    BY <1>4, DistillUnchanged DEF CloseMark
  <2>3. Contract!Close(client[c].sid) \/ UNCHANGED Phase
    BY <1>1, <1>4, <2>1, <2>2, PhaseMoves DEF CloseMark
  <2>4. QED BY <2>1, <2>2, <2>3 DEF Contract!Next
<1>5. ASSUME NEW c \in Clients, ClosePush(c)
      PROVE  Contract!Next
  <2>1. client[c].sid \in issued /\ client[c].sid \in Sessions
    BY <1>2, <1>5 DEF ClosePush, PC, Naming
  <2>2. meta[client[c].sid] # "open"
    BY <1>1, <1>5 DEF ClosePush, HandlersHold, IsOpen
  <2>3. Phase[client[c].sid] \in {"closed", "gone"}
    BY <2>1, <2>2 DEF Phase
  <2>4. Due' = Due \cup {client[c].sid}
    BY <1>1, <1>5, <2>1, PushSids DEF ClosePush
  <2>5. UNCHANGED Phase
    BY <1>5, PhaseFrame DEF ClosePush, store
  <2>6. QED BY <2>1, <2>3, <2>4, <2>5 DEF Contract!Next, Contract!Enqueue
<1>6. ASSUME NEW c \in Clients, Open(c)
      PROVE  Contract!Next
  <2>1. PICK s \in Sessions : OpenSession(s, client[c].agent)
    BY <1>6 DEF Open
  <2>2. UNCHANGED Due
    BY <1>6, DistillUnchanged DEF Open
  <2>3. Contract!Open(s)
    BY <1>1, <2>1, <2>2, PhaseMoves
  <2>4. QED BY <2>3 DEF Contract!Next
<1>7. ASSUME NEW s \in Sessions, Expire(s)
      PROVE  Contract!Next \/ UNCHANGED <<Phase, Due>>
  <2>1. UNCHANGED Due
    BY <1>7, DistillUnchanged DEF Expire
  <2>2. Contract!Expire(s) \/ UNCHANGED Phase
    BY <1>1, <1>7, <2>1, PhaseMoves DEF Expire
  <2>3. QED BY <2>1, <2>2 DEF Contract!Next
<1>8. ASSUME Worker \/ WorkerFaults
      PROVE  Contract!Next \/ UNCHANGED <<Phase, Due>>
  <2>1. UNCHANGED Phase
    BY <1>8, PhaseFrame DEF Worker, WorkerFaults, store
  <2>2. UNCHANGED Due \/ \E s \in Due : Due' = Due \ {s}
    BY <1>1, <1>8, WorkerSids DEF Worker, WorkerFaults
  <2>3. Due \subseteq Sessions
    BY <1>1 DEF JobOnlyForClosed, JobSids, Due, WMTypeOK
  <2>4. QED BY <2>1, <2>2, <2>3 DEF Contract!Next, Contract!Settle
<1>9. ASSUME NEW c \in Clients,
             \/ \E t \in Turns : Begin(c, t)
             \/ GetPointer(c) \/ CloseMeta(c) \/ AppendCheck(c)
             \/ SetPointer(c) \/ ClientCrash(c)
      PROVE  UNCHANGED <<Phase, Due>>
  <2>1. UNCHANGED distill /\ UNCHANGED <<issued, meta>>
    BY <1>9 DEF Begin, GetPointer, CloseMeta, AppendCheck, SetPointer,
                ClientCrash, wmVars, distill
  <2>2. QED BY <1>3, <2>1
<1>10. ASSUME UNCHANGED vars \/ \E a \in Agents : ExpirePointer(a)
       PROVE  UNCHANGED <<Phase, Due>>
  <2>1. UNCHANGED distill /\ UNCHANGED <<issued, meta>>
    BY <1>10 DEF vars, ExpirePointer, wmVars, distill
  <2>2. QED BY <1>3, <2>1
<1>11. ASSUME NEW c \in Clients, AppendPush(c)
       PROVE  UNCHANGED <<Phase, Due>>
  <2>1. client[c].sid \in Sessions
    BY <1>2, <1>11 DEF AppendPush, PC, Naming
  <2>2. UNCHANGED Due
    BY <1>11, DistillUnchanged DEF AppendPush
  <2>3. UNCHANGED Phase
    <3>1. PICK a : a \in {None} BY NoneAssumption
    <3>2. QED BY <1>1, <1>11, <2>1, <2>2, <3>1, PhaseMoves DEF AppendPush
  <2>4. QED BY <2>2, <2>3
<1>12. QED
  BY <1>4, <1>5, <1>6, <1>7, <1>8, <1>9, <1>10, <1>11 DEF Next, ClientStep

(* record_turn, the distill worker, expiry and every fault together        *)
(* implement the contract of a session.                                    *)
THEOREM CaptureRefinesContract == Spec => ContractSpec
<1>1. Init => JobInv
  BY InitJobs
<1>2. JobInv /\ [Next]_vars => JobInv'
  BY StepJobs
<1>3. Init => Contract!Init
  BY DEF Init, WMInit, Contract!Init, Phase, Due, QueuedJobs, JobsInHand, Idle
<1>4. JobInv /\ [Next]_vars => [Contract!Next]_(Contract!contract)
  BY StepRefines
<1>5. QED
  BY <1>1, <1>2, <1>3, <1>4, PTL DEF Spec, ContractSpec, Contract!Spec

----------------------------------------------------------------------------
(* One handler per agent at a time.                                        *)

OneHandlerEach ==
  \A c, d \in Clients :
    client[c].pc # "idle" /\ client[d].pc # "idle" /\ client[c].agent = client[d].agent
      => c = d

(* A step of a handler: where it goes, and the session it then has.        *)
Goes(c, pc, s) ==
  /\ client'[c].pc = pc /\ client'[c].sid = s
  /\ client'[c].agent = client[c].agent /\ client'[c].turn = client[c].turn
  /\ \A d \in Clients \ {c} : client'[d] = client[d]

Leaves(c) ==
  /\ client'[c].pc = "idle" /\ client'[c].sid = None /\ client'[c].agent = None
  /\ \A d \in Clients \ {c} : client'[d] = client[d]

(* The fields a step of a handler sets, and those it keeps.                *)
Has(e, pc, s, h) == e.pc = pc /\ e.sid = s /\ e.agent = h.agent /\ e.turn = h.turn

LEMMA HandlerSet ==
  ASSUME NEW h \in Handling, NEW pc, NEW v
  PROVE  /\ Has([h EXCEPT !.pc = pc], pc, h.sid, h)
         /\ Has([h EXCEPT !.pc = pc, !.sid = v], pc, v, h)
         /\ Has([h EXCEPT !.pc = pc, !.retried = v], pc, h.sid, h)
         /\ Has([h EXCEPT !.pc = pc, !.n = v], pc, h.sid, h)
BY DEF Has, Handling

LEMMA HandlerWrites ==
  ASSUME TypeOK, NEW c \in Clients, NEW e, NEW pc, NEW s,
         Has(e, pc, s, client[c]), client' = [client EXCEPT ![c] = e]
  PROVE  Goes(c, pc, s)
<1>1. client'[c] = e /\ \A d \in Clients \ {c} : client'[d] = client[d]
  BY DEF TypeOK
<1>2. QED BY <1>1 DEF Goes, Has

LEMMA HandlerGoes ==
  ASSUME TypeOK, NEW c \in Clients
  PROVE  LET a == client[c].agent  s == client[c].sid  p == pointer[client[c].agent] IN
         /\ client[c].pc # "idle" => a \in Agents
         /\ GetPointer(c) => \/ p.sid = None /\ Goes(c, "open", s)
                             \/ p.sid # None /\ Goes(c, "check", p.sid)
                             \/ p.sid # None /\ Goes(c, "close meta", p.sid)
         /\ CloseMeta(c) => Goes(c, IF HasMetadata(s) THEN "close mark" ELSE "open", s)
         /\ CloseMark(c) => Goes(c, "close push", s)
         /\ ClosePush(c) => Goes(c, "open", s)
         /\ Open(c) => \E new \in Sessions \ issued :
                         OpenSession(new, a) /\ Goes(c, "check", new)
         /\ AppendCheck(c) => \/ IsOpen(s) /\ Goes(c, "push", s)
                              \/ ~IsOpen(s) /\ (Goes(c, "open", s) \/ Leaves(c))
         /\ AppendPush(c) => Goes(c, "set", s)
         /\ SetPointer(c) => /\ Leaves(c)
                             /\ pointer'[a].sid = s
                             /\ \A b \in Agents \ {a} : pointer'[b] = pointer[b]
         /\ ClientCrash(c) => Leaves(c)
<1>1. /\ client \in [Clients -> Handling \cup {Resting}]
      /\ pointer \in [Agents -> [sid: Sessions \cup {None}, n: Nat]]
  BY DEF TypeOK
<1>2. Resting.pc = "idle" /\ Resting.sid = None /\ Resting.agent = None
  BY DEF Resting
<1>3. client[c].pc # "idle" => client[c].agent \in Agents /\ client[c] \in Handling
  BY HandlingTyped
<1>4. ASSUME NEW e, client' = [client EXCEPT ![c] = e]
      PROVE  client'[c] = e /\ \A d \in Clients \ {c} : client'[d] = client[d]
  BY <1>1, <1>4
<1>5. ASSUME client' = [client EXCEPT ![c] = Resting]
      PROVE  Leaves(c)
  BY <1>2, <1>4, <1>5 DEF Leaves
<1>6. ASSUME client[c].pc # "idle", NEW pc, Goto(c, pc)
      PROVE  Goes(c, pc, client[c].sid)
  <2>1. client' = [client EXCEPT ![c] = [client[c] EXCEPT !.pc = pc]]
    BY <1>1, <1>6 DEF Goto
  <2>2. Has([client[c] EXCEPT !.pc = pc], pc, client[c].sid, client[c])
    BY <1>3, <1>6, HandlerSet
  <2>3. QED BY <2>1, <2>2, HandlerWrites
<1>7. ASSUME client[c].pc # "idle", NEW pc, NEW s,
             client' = [client EXCEPT ![c].pc = pc, ![c].sid = s]
      PROVE  Goes(c, pc, s)
  <2>1. client' = [client EXCEPT ![c] = [client[c] EXCEPT !.pc = pc, !.sid = s]]
    BY <1>1, <1>7
  <2>2. Has([client[c] EXCEPT !.pc = pc, !.sid = s], pc, s, client[c])
    BY <1>3, <1>7, HandlerSet
  <2>3. QED BY <2>1, <2>2, HandlerWrites
<1>8. GetPointer(c) => LET p == pointer[client[c].agent] IN
                       \/ p.sid = None /\ Goes(c, "open", client[c].sid)
                       \/ p.sid # None /\ Goes(c, "check", p.sid)
                       \/ p.sid # None /\ Goes(c, "close meta", p.sid)
  BY <1>6, <1>7 DEF GetPointer
<1>9. CloseMeta(c) => Goes(c, IF HasMetadata(client[c].sid) THEN "close mark" ELSE "open",
                           client[c].sid)
  BY <1>6 DEF CloseMeta
<1>10. /\ CloseMark(c) => Goes(c, "close push", client[c].sid)
       /\ ClosePush(c) => Goes(c, "open", client[c].sid)
  BY <1>6 DEF CloseMark, ClosePush
<1>11. Open(c) => \E new \in Sessions \ issued :
                    OpenSession(new, client[c].agent) /\ Goes(c, "check", new)
  BY <1>7 DEF Open, OpenSession
<1>12. AppendCheck(c) => \/ IsOpen(client[c].sid) /\ Goes(c, "push", client[c].sid)
                         \/ ~IsOpen(client[c].sid) /\ (Goes(c, "open", client[c].sid) \/ Leaves(c))
  <2>1. ASSUME client[c].pc # "idle",
               client' = [client EXCEPT ![c].pc = "open", ![c].retried = TRUE]
        PROVE  Goes(c, "open", client[c].sid)
    <3>1. client' = [client EXCEPT ![c] = [client[c] EXCEPT !.pc = "open", !.retried = TRUE]]
      BY <1>1, <2>1
    <3>2. Has([client[c] EXCEPT !.pc = "open", !.retried = TRUE], "open", client[c].sid, client[c])
      BY <1>3, <2>1, HandlerSet
    <3>3. QED BY <3>1, <3>2, HandlerWrites
  <2>2. QED BY <1>5, <1>6, <2>1 DEF AppendCheck
<1>13. AppendPush(c) => Goes(c, "set", client[c].sid)
  <2>1. ASSUME client[c].pc # "idle", NEW n,
               client' = [client EXCEPT ![c].pc = "set", ![c].n = n]
        PROVE  Goes(c, "set", client[c].sid)
    <3>1. client' = [client EXCEPT ![c] = [client[c] EXCEPT !.pc = "set", !.n = n]]
      BY <1>1, <2>1
    <3>2. Has([client[c] EXCEPT !.pc = "set", !.n = n], "set", client[c].sid, client[c])
      BY <1>3, <2>1, HandlerSet
    <3>3. QED BY <3>1, <3>2, HandlerWrites
  <2>2. QED BY <2>1 DEF AppendPush
<1>14. SetPointer(c) => /\ Leaves(c)
                        /\ pointer'[client[c].agent].sid = client[c].sid
                        /\ \A b \in Agents \ {client[c].agent} : pointer'[b] = pointer[b]
  BY <1>1, <1>3, <1>5 DEF SetPointer
<1>15. ClientCrash(c) => Leaves(c)
  BY <1>5 DEF ClientCrash
<1>16. QED
  BY <1>3, <1>8, <1>9, <1>10, <1>11, <1>12, <1>13, <1>14, <1>15

(* A turn begins: its handler is at work for the agent of the turn.        *)
LEMMA BeginGoes ==
  ASSUME TypeOK, NEW c \in Clients, NEW t \in Turns, Begin(c, t)
  PROVE  /\ client'[c].pc = "get" /\ client'[c].sid = None
         /\ client'[c].agent = Author[t] /\ client'[c].turn = t
         /\ Author[t] \in Agents
         /\ \A d \in Clients \ {c} : client'[d] = client[d]
<1>1. client' = [client EXCEPT ![c] = [Resting EXCEPT !.pc = "get", !.agent = Author[t],
                                                      !.turn = t]]
  BY DEF Begin
<1>2. QED BY <1>1, AuthorAssumption DEF TypeOK, Resting

(* The open sessions of an agent: where its handler is closing one or      *)
(* about to open one there is none, else at most the one it has in hand or *)
(* the pointer names.                                                      *)
OpenOf(a) == {s \in issued : IsOpen(s) /\ agentOf[s] = a}
Holding == {"close meta", "close mark", "check", "push", "set"}

RollsAt(c) ==
  /\ client[c].pc \in Holding => OpenOf(client[c].agent) \subseteq {client[c].sid}
  /\ client[c].pc \in {"close push", "open"} => OpenOf(client[c].agent) = {}

Resumes(a) ==
  (\A c \in Clients : client[c].pc \notin {"idle", "get"} => client[c].agent # a)
    => OpenOf(a) \subseteq {pointer[a].sid}

Rolling ==
  /\ \A s \in issued : agentOf[s] \in Agents
  /\ \A c \in Clients : RollsAt(c)
  /\ \A a \in Agents : Resumes(a)

(* No session is opened but by Open, and those of other agents stay.       *)
LEMMA OpenShrinks ==
  ASSUME JobInv, Next, \A c \in Clients : ~Open(c)
  PROVE  /\ \A a \in Agents : OpenOf(a)' \subseteq OpenOf(a)
         /\ UNCHANGED <<issued, agentOf>>
<1>1. UNCHANGED <<issued, agentOf>> /\ \A s \in Sessions : meta'[s] = "open" => meta[s] = "open"
  <2>1. ASSUME NEW c \in Clients, ClientStep(c)
        PROVE  UNCHANGED <<issued, agentOf>> /\ \A s \in Sessions : meta'[s] = "open" => meta[s] = "open"
    <3>1. CASE CloseMark(c)
      BY <3>1 DEF CloseMark, MarkClosed, JobInv, TypeOK, WMTypeOK
    <3>2. CASE AppendPush(c)
      BY <3>2 DEF AppendPush, PushTurn, JobInv, TypeOK, WMTypeOK
    <3>3. QED
      BY <2>1, <3>1, <3>2 DEF ClientStep, GetPointer, CloseMeta, ClosePush, AppendCheck, SetPointer,
         wmVars, store
  <2>2. ASSUME NEW s \in Sessions, Expire(s)
        PROVE  UNCHANGED <<issued, agentOf>> /\ \A u \in Sessions : meta'[u] = "open" => meta[u] = "open"
    BY <2>2 DEF Expire, ExpireSession, JobInv, TypeOK, WMTypeOK
  <2>3. QED
    BY <2>1, <2>2 DEF Next, Begin, ClientCrash, ExpirePointer, Worker, WorkerFaults, wmVars, store
<1>2. issued \subseteq Sessions
  BY DEF JobInv, TypeOK, WMTypeOK
<1>3. QED BY <1>1, <1>2 DEF OpenOf, IsOpen

LEMMA RollingStays ==
  ASSUME JobInv, Rolling, OneHandlerEach, OneHandlerEach', Next, "client crash" \notin Faults
  PROVE  Rolling'
<1>1. TypeOK /\ HandlersHold
  BY DEF JobInv
<1>2. CASE \E c \in Clients : Open(c)
  <2>1. PICK c \in Clients : Open(c)
    BY <1>2
  <2>2. PICK new \in Sessions \ issued : OpenSession(new, client[c].agent) /\ Goes(c, "check", new)
    BY <1>1, <2>1, HandlerGoes
  <2>3. PICK a \in Agents : client[c].pc = "open" /\ client[c].agent = a /\ UNCHANGED pointer
    BY <1>1, <2>1, HandlerGoes DEF Open
  <2>4. /\ issued' = issued \cup {new}
        /\ \A s \in issued : meta'[s] = meta[s] /\ agentOf'[s] = agentOf[s]
        /\ agentOf'[new] = a
    BY <1>1, <2>2, <2>3 DEF OpenSession, TypeOK, WMTypeOK
  <2>5. OpenOf(a)' \subseteq {new}
    <3>1. OpenOf(a) = {}
      BY <2>3 DEF Rolling, RollsAt
    <3>2. QED BY <2>4, <3>1 DEF OpenOf, IsOpen
  <2>6. \A b \in Agents : b # a => OpenOf(b)' \subseteq OpenOf(b)
    BY <2>4 DEF OpenOf, IsOpen
  <2>7. ASSUME NEW d \in Clients
        PROVE  RollsAt(d)'
    <3>1. CASE d = c
      BY <2>2, <2>3, <2>5, <3>1 DEF RollsAt, Goes, Holding
    <3>2. CASE d # c
      <4>1. client'[d] = client[d]
        BY <2>2, <2>3, <3>2 DEF Goes
      <4>2. client[d].pc # "idle" => client[d].agent # a /\ client[d].agent \in Agents
        BY <1>1, <2>3, <3>2, HandlerGoes DEF OneHandlerEach
      <4>3. RollsAt(d)
        BY DEF Rolling
      <4>4. QED BY <2>6, <4>1, <4>2, <4>3 DEF RollsAt, Holding
    <3>3. QED BY <3>1, <3>2
  <2>8. ASSUME NEW b \in Agents
        PROVE  Resumes(b)'
    <3>1. CASE b = a
      BY <2>2, <2>3, <3>1 DEF Resumes, Goes
    <3>2. CASE b # a
      <4>1. (\A d \in Clients : client[d].pc \notin {"idle", "get"} => client[d].agent # b)'
              => \A d \in Clients : client[d].pc \notin {"idle", "get"} => client[d].agent # b
        BY <2>2, <2>3, <3>2 DEF Goes
      <4>2. Resumes(b)
        BY DEF Rolling
      <4>3. QED BY <2>3, <2>6, <3>2, <4>1, <4>2 DEF Resumes
    <3>3. QED BY <3>1, <3>2
  <2>9. QED BY <2>3, <2>4, <2>7, <2>8 DEF Rolling
<1>3. CASE \A c \in Clients : ~Open(c)
  <2>1. /\ \A a \in Agents : OpenOf(a)' \subseteq OpenOf(a)
        /\ UNCHANGED <<issued, agentOf>>
    BY <1>3, OpenShrinks
  <2>2. \A s \in issued' : agentOf'[s] \in Agents
    BY <2>1 DEF Rolling
  <2>3. ASSUME NEW d \in Clients, client'[d] = client[d]
        PROVE  RollsAt(d)'
    BY <1>1, <2>1, <2>3, HandlerGoes DEF Rolling, RollsAt, Holding
(* A step of a handler is felt by its agent only.                          *)
  <2>4. ASSUME NEW c \in Clients, NEW a \in Agents, client[c].pc # "idle", client[c].agent = a,
               \A d \in Clients \ {c} : client'[d] = client[d],
               RollsAt(c)',
               \A b \in Agents \ {a} : pointer'[b] = pointer[b],
               client'[c].pc # "idle" => client'[c].agent = a,
               Resumes(a)'
        PROVE  Rolling'
    <3>1. \A d \in Clients : RollsAt(d)'
      BY <2>3, <2>4
    <3>2. ASSUME NEW b \in Agents, b # a
          PROVE  Resumes(b)'
      <4>1. (\A d \in Clients : client[d].pc \notin {"idle", "get"} => client[d].agent # b)'
              => \A d \in Clients : client[d].pc \notin {"idle", "get"} => client[d].agent # b
        BY <2>4, <3>2
      <4>2. Resumes(b)
        BY DEF Rolling
      <4>3. QED BY <2>1, <2>4, <3>2, <4>1, <4>2 DEF Resumes
    <3>3. QED BY <2>2, <2>4, <3>1, <3>2 DEF Rolling
  <2>5. ASSUME NEW c \in Clients, ClientStep(c)
        PROVE  Rolling'
    <3>0. client[c].pc # "idle" /\ client[c].agent \in Agents
      BY <1>1, <2>5, HandlerGoes DEF ClientStep, GetPointer, CloseMeta, CloseMark, ClosePush, Open,
         AppendCheck, AppendPush, SetPointer
    <3>1. PICK a \in Agents, s \in Sessions \cup {None}, p \in Sessions \cup {None} :
            /\ client[c].pc # "idle" /\ client[c].agent = a
            /\ client[c].sid = s /\ pointer[a].sid = p
      BY <1>1, <3>0, HandlingTyped DEF TypeOK
    <3>2. RollsAt(c) /\ Resumes(a)
      BY <3>1 DEF Rolling
    <3>3. OpenOf(a)' \subseteq OpenOf(a)
      BY <2>1, <3>1
    <3>4. ASSUME NEW pc, NEW own, Goes(c, pc, own), pc \notin {"idle", "get"}, UNCHANGED pointer,
                 pc \in Holding => OpenOf(a)' \subseteq {own},
                 pc \in {"close push", "open"} => OpenOf(a)' = {}
          PROVE  Rolling'
      <4>1. RollsAt(c)' /\ Resumes(a)'
        BY <3>1, <3>4 DEF Goes, RollsAt, Resumes
      <4>2. QED BY <2>4, <3>1, <3>4, <4>1 DEF Goes
    <3>5. ASSUME Leaves(c), OpenOf(a)' \subseteq {pointer'[a].sid},
                 \A b \in Agents \ {a} : pointer'[b] = pointer[b]
          PROVE  Rolling'
      <4>1. RollsAt(c)' /\ Resumes(a)'
        BY <3>5 DEF Leaves, RollsAt, Resumes, Holding
      <4>2. QED BY <2>4, <3>1, <3>5, <4>1 DEF Leaves
    <3>6. CASE GetPointer(c)
      <4>1. OpenOf(a) \subseteq {p}
        <5>1. client[c].pc = "get"
          BY <3>6 DEF GetPointer
        <5>2. \A d \in Clients : client[d].pc \notin {"idle", "get"} => client[d].agent # a
          BY <3>1, <5>1 DEF OneHandlerEach
        <5>3. QED BY <3>1, <3>2, <5>2 DEF Resumes
      <4>2. None \notin OpenOf(a)'
        BY <1>1, <2>1, NoneAssumption DEF OpenOf, TypeOK, WMTypeOK
      <4>3. UNCHANGED pointer
        BY <3>6 DEF GetPointer
      <4>4. \/ p = None /\ Goes(c, "open", s)
            \/ Goes(c, "check", p)
            \/ Goes(c, "close meta", p)
        BY <1>1, <3>1, <3>6, HandlerGoes
      <4>5. p = None => OpenOf(a)' = {}
        BY <3>3, <4>1, <4>2
      <4>6. OpenOf(a)' \subseteq {p}
        BY <3>3, <4>1
      <4>7. QED BY <3>4, <4>3, <4>4, <4>5, <4>6 DEF Holding
    <3>7. CASE CloseMeta(c)
      <4>1. OpenOf(a) \subseteq {s} /\ UNCHANGED pointer
        BY <3>1, <3>2, <3>7 DEF CloseMeta, RollsAt, Holding
      <4>2. ~HasMetadata(s) => OpenOf(a) = {}
        BY <4>1 DEF HasMetadata, OpenOf, IsOpen
      <4>3. \/ Goes(c, "close mark", s)
            \/ ~HasMetadata(s) /\ Goes(c, "open", s)
        BY <1>1, <3>1, <3>7, HandlerGoes
      <4>4. OpenOf(a)' \subseteq {s} /\ (OpenOf(a) = {} => OpenOf(a)' = {})
        BY <3>3, <4>1
      <4>5. QED BY <3>4, <4>1, <4>2, <4>3, <4>4 DEF Holding
    <3>8. CASE CloseMark(c)
      <4>1. OpenOf(a) \subseteq {s} /\ UNCHANGED pointer
        BY <3>1, <3>2, <3>8 DEF CloseMark, RollsAt, Holding
      <4>2. meta'[s] # "open"
        BY <1>1, <3>1, <3>8, HandlingTyped DEF CloseMark, MarkClosed, TypeOK, WMTypeOK, Naming, PC
      <4>3. OpenOf(a)' = {}
        BY <3>3, <4>1, <4>2 DEF OpenOf, IsOpen
      <4>4. Goes(c, "close push", s)
        BY <1>1, <3>1, <3>8, HandlerGoes
      <4>5. QED BY <3>4, <4>1, <4>3, <4>4 DEF Holding
    <3>9. CASE ClosePush(c)
      <4>1. OpenOf(a) = {} /\ UNCHANGED pointer
        BY <3>1, <3>2, <3>9 DEF ClosePush, RollsAt
      <4>2. Goes(c, "open", s)
        BY <1>1, <3>1, <3>9, HandlerGoes
      <4>3. OpenOf(a)' = {}
        BY <3>3, <4>1
      <4>4. QED BY <3>4, <4>1, <4>2, <4>3 DEF Holding
    <3>10. CASE AppendCheck(c)
      <4>1. OpenOf(a) \subseteq {s} /\ UNCHANGED pointer
        BY <3>1, <3>2, <3>10 DEF AppendCheck, RollsAt, Holding
      <4>2. ~IsOpen(s) => OpenOf(a) = {}
        BY <4>1 DEF OpenOf
      <4>3. \/ Goes(c, "push", s)
            \/ ~IsOpen(s) /\ (Goes(c, "open", s) \/ Leaves(c))
        BY <1>1, <3>1, <3>10, HandlerGoes
      <4>4. OpenOf(a)' \subseteq {s} /\ (OpenOf(a) = {} => OpenOf(a)' = {})
        BY <3>3, <4>1
      <4>5. QED BY <3>4, <3>5, <4>1, <4>2, <4>3, <4>4 DEF Holding
    <3>11. CASE AppendPush(c)
      <4>1. OpenOf(a) \subseteq {s} /\ UNCHANGED pointer
        BY <3>1, <3>2, <3>11 DEF AppendPush, RollsAt, Holding
      <4>2. Goes(c, "set", s)
        BY <1>1, <3>1, <3>11, HandlerGoes
      <4>3. OpenOf(a)' \subseteq {s}
        BY <3>3, <4>1
      <4>4. QED BY <3>4, <4>1, <4>2, <4>3 DEF Holding
    <3>12. CASE SetPointer(c)
      <4>1. OpenOf(a) \subseteq {s}
        BY <3>1, <3>2, <3>12 DEF SetPointer, RollsAt, Holding
      <4>2. QED BY <1>1, <3>1, <3>3, <3>5, <3>12, <4>1, HandlerGoes
    <3>13. QED
      BY <1>3, <2>5, <3>6, <3>7, <3>8, <3>9, <3>10, <3>11, <3>12 DEF ClientStep
  <2>6. ASSUME NEW c \in Clients, NEW t \in Turns, Begin(c, t)
        PROVE  Rolling'
    <3>1. /\ client'[c].pc = "get" /\ \A d \in Clients \ {c} : client'[d] = client[d]
          /\ client[c].pc = "idle" /\ UNCHANGED pointer
      BY <1>1, <2>6, BeginGoes DEF Begin
    <3>2. \A d \in Clients : RollsAt(d)'
      BY <2>3, <3>1 DEF RollsAt, Holding
    <3>3. ASSUME NEW b \in Agents
          PROVE  Resumes(b)'
      <4>1. (\A d \in Clients : client[d].pc \notin {"idle", "get"} => client[d].agent # b)'
              => \A d \in Clients : client[d].pc \notin {"idle", "get"} => client[d].agent # b
        BY <3>1
      <4>2. Resumes(b)
        BY DEF Rolling
      <4>3. QED BY <2>1, <3>1, <4>1, <4>2 DEF Resumes
    <3>4. QED BY <2>2, <3>2, <3>3 DEF Rolling
  <2>7. CASE UNCHANGED client
    <3>1. \A d \in Clients : RollsAt(d)'
      BY <2>3, <2>7
    <3>2. ASSUME NEW b \in Agents, pointer'[b] = pointer[b] \/ ~IsOpen(pointer[b].sid)
          PROVE  Resumes(b)'
      <4>1. Resumes(b)
        BY DEF Rolling
      <4>2. ~IsOpen(pointer[b].sid) /\ OpenOf(b) \subseteq {pointer[b].sid} => OpenOf(b) = {}
        BY DEF OpenOf
      <4>3. QED BY <2>1, <2>7, <3>2, <4>1, <4>2 DEF Resumes
    <3>3. \A b \in Agents : pointer'[b] = pointer[b] \/ ~IsOpen(pointer[b].sid)
      <4>1. ASSUME NEW a \in Agents, ExpirePointer(a)
            PROVE  \A b \in Agents : pointer'[b] = pointer[b] \/ ~IsOpen(pointer[b].sid)
        BY <1>1, <4>1 DEF ExpirePointer, TypeOK
      <4>2. ASSUME NEW c \in Clients, ClientStep(c)
            PROVE  \A b \in Agents : pointer'[b] = pointer[b] \/ ~IsOpen(pointer[b].sid)
        <5>1. ~SetPointer(c)
          <6>1. (client[c].pc # "idle" /\ client'[c].pc # "idle") \/ ~SetPointer(c)
            BY <2>7 DEF SetPointer
          <6>2. QED BY <1>1, <6>1, HandlerGoes DEF Leaves
        <5>2. QED
          BY <1>1, <4>2, <5>1 DEF ClientStep, GetPointer, CloseMeta, CloseMark, ClosePush, Open,
             AppendCheck, AppendPush, TypeOK
      <4>3. QED
        BY <4>1, <4>2 DEF Next, Begin, ClientCrash, Expire, Worker, WorkerFaults
    <3>4. QED BY <2>2, <3>1, <3>2, <3>3 DEF Rolling
  <2>8. QED
    BY <2>5, <2>6, <2>7 DEF Next, ClientCrash, ExpirePointer, Expire, Worker, WorkerFaults
<1>4. QED BY <1>2, <1>3

(* While no agent has two turns recorded at the same moment, and no        *)
(* handler ends between two of its round trips, record_turn keeps one      *)
(* rolling session per agent; whatever expires, fails or is retried.       *)
THEOREM OneSessionRolls ==
  "client crash" \notin Faults => (Spec /\ []OneHandlerEach => []SingleRollingSession)
<1> SUFFICES ASSUME "client crash" \notin Faults
             PROVE  Spec /\ []OneHandlerEach => []SingleRollingSession
  OBVIOUS
<1> DEFINE Inv == JobInv /\ Rolling
<1>1. Init => Inv
  <2> SUFFICES ASSUME Init PROVE Inv
    OBVIOUS
  <2>1. JobInv
    BY InitJobs
  <2>2. issued = {} /\ \A c \in Clients : client[c].pc = "idle"
    BY DEF Init, WMInit, Resting
  <2>3. Rolling
    BY <2>2 DEF Rolling, RollsAt, Resumes, OpenOf, Holding
  <2>4. QED BY <2>1, <2>3
<1>2. Inv /\ OneHandlerEach /\ OneHandlerEach' /\ [Next]_vars => Inv'
  <2> SUFFICES ASSUME JobInv, Rolling, OneHandlerEach, OneHandlerEach', [Next]_vars
               PROVE  Inv'
    OBVIOUS
  <2>1. JobInv'
    BY StepJobs
  <2>2. CASE UNCHANGED vars
    BY <2>1, <2>2 DEF vars, wmVars, Rolling, RollsAt, Resumes, OpenOf, IsOpen
  <2>3. CASE Next
    BY <2>1, <2>3, RollingStays
  <2>4. QED BY <2>2, <2>3
<1>3. Inv /\ OneHandlerEach => SingleRollingSession
  <2> SUFFICES ASSUME JobInv, Rolling, OneHandlerEach, NEW s1 \in issued, NEW s2 \in issued,
                      IsOpen(s1), IsOpen(s2), agentOf[s1] = agentOf[s2]
               PROVE  s1 = s2
    BY DEF SingleRollingSession
  <2>1. PICK a \in Agents : {s1, s2} \subseteq OpenOf(a)
    BY DEF Rolling, OpenOf
  <2>2. CASE \A c \in Clients : client[c].pc \notin {"idle", "get"} => client[c].agent # a
    BY <2>1, <2>2 DEF Rolling, Resumes
  <2>3. ASSUME NEW c \in Clients, client[c].pc \notin {"idle", "get"}, client[c].agent = a
        PROVE  s1 = s2
    <3>1. client[c].pc \in Holding \cup {"close push", "open"}
      BY <2>3, HandlingTyped DEF JobInv, PC, Holding
    <3>2. RollsAt(c)
      BY DEF Rolling
    <3>3. QED BY <2>1, <2>3, <3>1, <3>2 DEF RollsAt
  <2>4. QED BY <2>2, <2>3
<1>4. QED BY <1>1, <1>2, <1>3, PTL DEF Spec
=============================================================================
