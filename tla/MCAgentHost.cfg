SPECIFICATION MCSpec
CONSTANTS
  p1 = p1
  k1 = k1
  k2 = k2
  Proc <- MCProc
  Task <- MCTask
  ProcOf <- MCProcOf
  Project = {"pr"}
  NoProject = "none"
  MaxSessions = 1
  MaxTurns = 2
  MaxText = 1
  MaxDrafts = 1
  MaxScopes = 2
  MaxEvents = 4
  MaxArtifacts = 1
  MaxFaults = 1
INVARIANTS
  HostTypeOK
  GateIsHeld
  OneInflightTurn
  ContextIsComplete
  ProjectIsKept
  DraftIsBound
  CancelIsHeeded
  ArtifactIsExact
CHECK_DEADLOCK FALSE
