---------------------------- MODULE MCCampaigns ----------------------------
(***************************************************************************)
(* Small audiences for Campaigns: the constants come from the .cfg files   *)
(* as model values.  CampaignSend checks liveness and so has no symmetry.  *)
(***************************************************************************)
EXTENDS Campaigns
=============================================================================
