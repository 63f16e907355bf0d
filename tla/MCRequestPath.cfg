SPECIFICATION Spec
CONSTANTS
  Vips = {"v1", "v2"}
  MaxPolls = 2
  MaxChanges = 2
  MaxRestarts = 1
  MaxCommands = 2
  MaxStarts = 2
  MaxDrops = 1
INVARIANTS TypeOK ListingIsWhole AnnouncedArePeers ListCatchesUp AnswersAreNotReused
CHECK_DEADLOCK FALSE
