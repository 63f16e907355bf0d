SPECIFICATION Spec
CONSTANTS
  Vips = {"v1", "v2"}
  MaxPolls = 1
  MaxChanges = 2
  MaxRestarts = 0
  MaxCommands = 2
  MaxStarts = 1
  MaxDrops = 0
INVARIANTS AnswerMatchesRequest
CHECK_DEADLOCK FALSE
