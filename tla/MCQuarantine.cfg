SPECIFICATION CredSpec
CONSTANTS
  Account = {a, b}
  NoAccount = NoAccount
  Withdrawn = Withdrawn
  Model = {m}
  NoModel = NoModel
  DefaultModel = m
  MaxGeneration = 2
  MaxFaults = 1
  MaxRestarts = 1
INVARIANT
  QuarantineSurvivesRestart
CHECK_DEADLOCK FALSE
