SPECIFICATION MCSpec
CONSTANTS
  h1 = h1
  h2 = h2
  Host <- MCHost
  Ops <- MCOps
  Scope <- MCScope
  Claimant <- MCClaimant
  NoClaimant = "none"
  MaxGrants = 1
  MaxEffects = 1
  MaxPairs = 1
  MaxTime = 0
  BootstrapTTL = 1
  PostApprovalTTL = 1
  MaxSeq = 7
  Wording <- MCWording
  MaxEvents = 7
  MaxFrozen = 2
SYMMETRY MCSymmetry
INVARIANTS
  SnapshotIsCurrent
  EvidenceReloads
  ApprovalNamesPlan
PROPERTIES
  ImplementsRunStore
CHECK_DEADLOCK FALSE
