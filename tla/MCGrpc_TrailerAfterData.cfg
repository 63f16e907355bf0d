SPECIFICATION Spec
CONSTANTS
  Streams = {s1}
  MaxUnits = 2
  MaxChunks = 2
  Window = 1
INVARIANT TrailerAfterData
