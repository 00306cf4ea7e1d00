------------------------------ MODULE MCPasses ------------------------------
(***************************************************************************)
(* A few passes for Passes: order_cancel requests are interchangeable.     *)
(***************************************************************************)
EXTENDS Passes, TLC

CONSTANTS flex, season, e1

FlexAndSeason == {flex, season} \X {e1}
Clerks == Permutations(Clerk)
=============================================================================
