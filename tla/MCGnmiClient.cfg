SPECIFICATION FairSpec
CONSTANTS
  Blocking = {b1}
  Pushes = {p1, p2}
  Subs = {s1}
  MaxMsgs = 2
  MaxMade = 2
INVARIANTS TypeOK CompletedOnce MessagesIntact SuccessIsWhole
PROPERTIES ReportStands EveryCallCompletes ImplementsAsyncCall
