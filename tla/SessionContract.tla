-------------------------- MODULE SessionContract --------------------------
(***************************************************************************)
(* What the working-memory pillar promises of every session, whatever the  *)
(* number of handlers and processes behind it: an id is opened once, takes *)
(* turns until it is closed or expires, is never reopened, and is due for  *)
(* distillation only once no more turns can be accepted.  AutoCapture      *)
(* implements it.                                                          *)
(***************************************************************************)
CONSTANT Sessions

VARIABLES phase,   \* phase of each session id
          due      \* sessions a distillation job waits or runs for

contract == <<phase, due>>

Init ==
  /\ phase = [s \in Sessions |-> "new"]
  /\ due = {}

Open(s) ==
  /\ phase[s] = "new"
  /\ phase' = [phase EXCEPT ![s] = "open"]
  /\ UNCHANGED due

Close(s) ==
  /\ phase[s] = "open"
  /\ phase' = [phase EXCEPT ![s] = "closed"]
  /\ UNCHANGED due

(* The idle TTL.                                                           *)
Expire(s) ==
  /\ phase[s] \in {"open", "closed"}
  /\ phase' = [phase EXCEPT ![s] = "gone"]
  /\ UNCHANGED due

Enqueue(s) ==
  /\ phase[s] \in {"closed", "gone"}
  /\ due' = due \cup {s}
  /\ UNCHANGED phase

(* The last job of the session was distilled, dead-lettered or lost.       *)
Settle(s) ==
  /\ s \in due
  /\ due' = due \ {s}
  /\ UNCHANGED phase

Next == \E s \in Sessions : Open(s) \/ Close(s) \/ Expire(s) \/ Enqueue(s)
                              \/ Settle(s)

Spec == Init /\ [][Next]_contract
=============================================================================
