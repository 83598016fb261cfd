--------------------------- MODULE MCMemoryItems ---------------------------
(***************************************************************************)
(* Small instances of MemoryItems for TLC, and of Recalls, whose answers   *)
(* are made of what a search of MemoryItems found.                         *)
(***************************************************************************)
EXTENDS Recalls

CONSTANTS p1, p2, c3, i1, i2

(* "mail" holds an address, which redact_pii turns into "mask".            *)
MaskMail(c) == IF c = "mail" THEN "mask" ELSE c

(* The third call is another process's.                                    *)
ThirdElsewhere(c) == IF c = c3 THEN p2 ELSE p1

(* A user in a team with a project, and an agent.                          *)
User == [type |-> "user", id |-> "u1", teams |-> {"t1"}, projects |-> {"j1"}]
AgentReader == [type |-> "agent", id |-> "g1", teams |-> {}, projects |-> {}]
TwoReaders == {User, AgentReader}

Hit(id, pillar, importance, age, tagged, cost) ==
  [id |-> id, pillar |-> pillar, scope |-> NoOne, ref |-> NoOne, visibility |-> "private",
   listed |-> FALSE, importance |-> importance, age |-> age, tagged |-> tagged,
   cost |-> cost, score |-> NoOne]

InScope(hit, scope, ref) == [hit EXCEPT !.scope = scope, !.ref = ref]

(* The rows: a plan of the team, shared with everybody, and an episode of  *)
(* the agent.                                                              *)
TwoRows ==
  [i \in {i1, i2} |->
     IF i = i1 THEN Shared(InScope(Hit("plan", "semantic", 0, 9, TRUE, 2), "team", "t1"))
     ELSE InScope(Hit("event", "episodic", 1, 1, FALSE, 3), "agent", "g1")]

TwoOthers == {Hit("ship", "skill", 0, 9, FALSE, 2), Hit("task", "work", 0, 0, TRUE, 1)}
TwoTurns == <<Hit("turn1", "working", 0, 0, FALSE, 1), Hit("turn2", "working", 0, 0, FALSE, 4)>>
OneEdge == {<<"cli", "app">>}

(* The plain recall and one of two pillars with the turns; all goes well,  *)
(* or the search of the rows or of the turns fails.  One of another pillar *)
(* that fails leaves what one that finds nothing does.                     *)
DefaultOrSome == {{}, {"semantic", "work", "working"}}
OneFails == {{}, {"memories"}, {"working"}}
=============================================================================
