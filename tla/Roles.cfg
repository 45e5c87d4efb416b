SPECIFICATION MCFairSpec
CONSTANTS
  Roles <- MCRoles
  IncomingCap = 2
  Conns = {1, 2}
  Callers = {"worker"}
  CmdDepth = 2
  Threads = {"worker", "ctrl1", "ctrl2"}
  MasterThread = "ctrl1"
  MaxItems = 1
  MaxWire = 1
CHECK_DEADLOCK FALSE
INVARIANTS RoleIsSound RequestsAreAccounted
PROPERTY StopEnds
