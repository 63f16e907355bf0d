SPECIFICATION Spec
CONSTANTS
  Fds = {f1, f2, f3, f4}
  Pool = {2, 3, 4}
  Peers = {p1, p2, p3}
  Reqs = {r1, r2}
SYMMETRY Symmetry
INVARIANTS TypeOK PoolIsPartitioned ViewsAgree RoutesFollowLeases
PROPERTIES ImplementsAddressLease
