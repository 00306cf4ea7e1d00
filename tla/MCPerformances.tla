--------------------------- MODULE MCPerformances ---------------------------
(***************************************************************************)
(* A venue with two charts of one seat each; buyers are interchangeable.   *)
(***************************************************************************)
EXTENDS Performances, TLC

CONSTANTS stalls, cabaret, a, x

Charts     == {stalls, cabaret}
Seats      == {a, x}
SeatsOfTwo == (stalls :> {a}) @@ (cabaret :> {x})
Buyers == Permutations(Session)
=============================================================================
