--------------------------- MODULE MCProvisioning ---------------------------
(***************************************************************************)
(* Two overlapping workers and one terminal for Provisioning; the first    *)
(* row in the queue's order has a reserved subdomain.                      *)
(***************************************************************************)
EXTENDS Provisioning, TLC
=============================================================================
