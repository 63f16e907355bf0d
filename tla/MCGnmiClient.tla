---------------------------- MODULE MCGnmiClient ----------------------------
(***************************************************************************)
(* Instances of GnmiClient for TLC.                                        *)
(***************************************************************************)
EXTENDS GnmiClient
=============================================================================
