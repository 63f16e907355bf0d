---------------------------- MODULE MCGrpcStream ----------------------------
(***************************************************************************)
(* Instances of GrpcStream for TLC.                                        *)
(***************************************************************************)
EXTENDS GrpcStream, TLC

\* Stream ids are only compared for equality.
Symmetry == Permutations(Streams)
=============================================================================
