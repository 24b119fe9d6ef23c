------------------------- MODULE MCLivestatusClient -------------------------
(***************************************************************************)
(* LivestatusClient for TLC: responses of up to three rows.                *)
(***************************************************************************)
EXTENDS LivestatusClient
=============================================================================
