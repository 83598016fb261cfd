------------------------------- MODULE MCEdge -------------------------------
(***************************************************************************)
(* RequestGuards and Members for TLC, side by side: they share no state,   *)
(* so in a behaviour one of them moves and the other one rests.            *)
(***************************************************************************)
EXTENDS MCRequestGuards, MCMembers

VARIABLE moving

edgeVars == <<vars, membersVars, moving>>

EdgeInit == Init /\ MembersInit /\ moving \in {"guards", "members"}

GuardsMove == moving = "guards" /\ Next /\ UNCHANGED <<membersVars, moving>>
MembersMove == moving = "members" /\ MembersNext /\ UNCHANGED <<vars, moving>>

EdgeNext == GuardsMove \/ MembersMove
EdgeSpec == EdgeInit /\ [][EdgeNext]_edgeVars

EdgeSymmetry == Symmetry \cup Symmetric
=============================================================================
