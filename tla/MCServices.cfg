SPECIFICATION MCSpec
CONSTANTS
  Account = {a, b}
  NoAccount = NoAccount
  Withdrawn = Withdrawn
  Model = {m}
  NoModel = NoModel
  DefaultModel = m
  MaxGeneration = 2
  MaxFaults = 1
  MaxRestarts = 1
  Data = {"delta", "finish", "last", "usage", "stray", "rdelta", "rcompleted", "rfailed", "done", "tool", "open"}
  MaxFrames = 3
  MaxBuffer = 8
  Texts <- MCTexts
  MaxMembers = 2
  MaxSource = 13
  MaxRedirects = 2
  Address = {"public", "other", "private"}
  Blocked = {"private"}
INVARIANTS
  CredTypeOK
  ConnectedIsWhole
  CatalogFollowsAccount
  StreamIsWhole
  SourceIsExact
PROPERTY
  ImplementsAccount
CHECK_DEADLOCK FALSE
