SPECIFICATION Spec
CONSTANTS
  Fds = {f1, f2}
  Pool = {2, 3}
  Peers = {p1, p2}
  Reqs = {r1}
INVARIANT CallbackFindsItsPeer
