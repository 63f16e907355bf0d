----------------------------- MODULE MCTunnelHub -----------------------------
(***************************************************************************)
(* Instances of TunnelHub for TLC.                                         *)
(***************************************************************************)
EXTENDS TunnelHub, TLC

\* Connections, targets and descriptors are only compared for equality.
Symmetry == Permutations(Conns) \cup Permutations(Targets) \cup Permutations(Fds)
=============================================================================
