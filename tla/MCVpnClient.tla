----------------------------- MODULE MCVpnClient -----------------------------
(***************************************************************************)
(* An instance of VpnClient for TLC.                                       *)
(***************************************************************************)
EXTENDS VpnClient
=============================================================================
