----------------------------- MODULE MCCheckout -----------------------------
(***************************************************************************)
(* Small shops for Checkout: session ids are interchangeable.  The number  *)
(* of orders needs no bound of its own, a paid session has at most one.    *)
(***************************************************************************)
EXTENDS Checkout, TLC

Sessions == Permutations(Session)
=============================================================================
