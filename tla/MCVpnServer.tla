----------------------------- MODULE MCVpnServer -----------------------------
(***************************************************************************)
(* Instances of VpnServer for TLC.                                         *)
(***************************************************************************)
EXTENDS VpnServer, TLC

\* Addresses are ordered (the lowest free one is assigned); the rest is only
\* compared for equality.
Symmetry == Permutations(Fds) \cup Permutations(Peers) \cup Permutations(Reqs)
=============================================================================
