SPECIFICATION MCSpec
CONSTANTS
  p1 = p1
  p2 = p2
  k1 = k1
  k3 = k3
  Proc <- MCProc
  Task <- MCTask
  ProcOf <- MCProcOf
  Project = {}
  NoProject = "none"
  MaxSessions = 1
  MaxTurns = 2
  MaxText = 1
  MaxDrafts = 0
  MaxScopes = 0
  MaxEvents = 0
  MaxArtifacts = 0
  MaxFaults = 0
INVARIANTS
  OneTerminalEvent
  LogIsOrdered
PROPERTIES
  TerminalIsFinal
  SendEnds
  TurnEnds
CHECK_DEADLOCK FALSE
