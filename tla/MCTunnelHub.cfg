SPECIFICATION Spec
CONSTANTS
  Conns = {c1, c2, c3}
  Targets = {t1, t2}
  Fds = {f1, f2}
  MaxSid = 1
  MaxTag = 2
  MaxBytes = 2
  NoStream = NoStream
SYMMETRY Symmetry
INVARIANTS TypeOK RegistryNeverDangles OperatorsMatchBridges
PROPERTIES StaleCloseIsHarmless ImplementsSessionPipe
