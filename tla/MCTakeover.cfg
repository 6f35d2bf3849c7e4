SPECIFICATION MCSpec
CONSTANTS
  p1 = p1
  p2 = p2
  MaxDisturb = 1
  Proc <- MCProc
  Content <- MCContent
  NoContent = "absent"
  Review <- MCReview
  Target = "index.html"
  Scope <- MCScope
  Ops <- MCOps
  Owner <- MCOwner
  Claimant <- MCClaimant
  NoClaimant = "none"
  MaxGrants = 7
  MaxEffects = 6
  MaxPairs = 2
  MaxTime = 1
  BootstrapTTL = 2
  PostApprovalTTL = 2
  LeaseTTL = 1
  MaxIdent = 1
  MaxCrash = 1
PROPERTY LeaseIsRespected
CHECK_DEADLOCK FALSE
