---------------------------- MODULE MCInventory ----------------------------
(***************************************************************************)
(* Small houses for Inventory: the constants come from the .cfg files as   *)
(* model values.  Buyers and seats are interchangeable in a safety run.    *)
(***************************************************************************)
EXTENDS Inventory, TLC

BuyersAndSeats == Permutations(Session) \cup Permutations(Seat)
=============================================================================
