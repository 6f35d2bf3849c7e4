SPECIFICATION MCSpec
CONSTANTS
  p1 = p1
  p2 = p2
  Proc <- MCProc
  Scope <- MCScope
  Ops <- MCOps
  Claimant <- MCClaimant
  NoClaimant = "none"
  MaxGrants = 2
  MaxEffects = 2
  MaxPairs = 1
  MaxTime = 0
  BootstrapTTL = 1
  PostApprovalTTL = 1
SYMMETRY MCSymmetry
INVARIANTS
  TypeOK
  BrokerInv
  BlockedIsJustified
  EveryEffectIsAuthorised
  OneEffectPerGrant
  CertaintyIsTruthful
  NoSilentEffect
  CallsDoNotShareEffects
PROPERTIES
  RevocationIsFinal
  JournalIsForwardOnly
