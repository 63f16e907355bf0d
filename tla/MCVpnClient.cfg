SPECIFICATION FairSpec
CONSTANTS
  Vips = {v1, v2}
  Fds = {1, 2}
  Forwarding = TRUE
  MaxConns = 3
  MaxFrames = 4
  MaxRestarts = 1
INVARIANTS RuleFollowsVip TunFollowsSession StatusIsCurrent FramesStayWhole
PROPERTIES NeverGivesUp
