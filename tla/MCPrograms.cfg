SPECIFICATION Spec
CONSTANTS
  Modes = {"telemetry", "mgmt", "openvpn-client", "commands", "completion", "tui", "peer"}
  Clients = {"c1", "c2"}
  Sids = {1, 3}
  Elems = {"a", "b", "c"}
  PathLists <- MCPathLists
  Requests <- MCRequests
  MaxSets = 2
  MaxConnects = 3
  MaxCalls = 2
  Links = {"l1", "l2"}
  Calls = {1, 3}
  Devices = {"tcc"}
  Commands = {"show", "get"}
  MaxSends = 2
  MaxLinks = 2
  MaxSessions = 2
  MaxNotifs = 1
  Addrs = {"a1", "a2"}
  Ports = {58989, 9339}
  MaxLog = 4
  MaxConnections = 3
  MaxRuns = 3
  Files = {"f1", "f2"}
  MaxOps = 4
  MaxBatch = 3
  Letters = {"a", "b", "x", "y"}
  Keys <- MCKeys
  Values <- MCValues
  Depth = 3
  Tables <- MCTables
  Typed <- MCTyped
  Cap = 4
  Heights = {2, 4, 6, 8}
  Columns = 12
  Messages <- MCMessages
  Typings = {"show", "get"}
  MaxPrinted = 6
  Scripts <- MCScripts
  MaxResponses = 2
INVARIANTS TypeOK FanOutIsExact SessionsAreTheirDevices RepliesNameTheirCommand NatServesFirstVip DeletedIsGone CompletionIsExact ShellRunsItsInput
PROPERTIES ViewHolds
CHECK_DEADLOCK FALSE
