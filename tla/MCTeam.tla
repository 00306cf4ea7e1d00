------------------------------- MODULE MCTeam -------------------------------
(***************************************************************************)
(* Three people and two requests at once for Team.                         *)
(***************************************************************************)
EXTENDS Team, TLC

Slots == Permutations(Slot)
=============================================================================
