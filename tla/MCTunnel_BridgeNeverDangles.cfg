SPECIFICATION Spec
CONSTANTS
  Conns = {c1, c2}
  Targets = {t1}
  Fds = {f1}
  MaxSid = 2
  MaxTag = 1
  MaxBytes = 1
  NoStream = NoStream
INVARIANT BridgeNeverDangles
