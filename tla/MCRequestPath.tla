---------------------------- MODULE MCRequestPath ----------------------------
(***************************************************************************)
(* Instances of RequestPath for TLC.                                       *)
(***************************************************************************)
EXTENDS RequestPath
=============================================================================
