SPECIFICATION Spec
CONSTANTS
  Streams = {s1, s2}
  MaxUnits = 3
  MaxChunks = 3
  Window = 2
INVARIANTS WireGrammar DispatchedOnce NoHangingCall
PROPERTIES PushedIsSent
