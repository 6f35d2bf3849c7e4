SPECIFICATION MCSpec
CONSTANTS
  p1 = p1
  MaxDisturb = 2
  Proc <- MCProc
  Content <- MCContent
  NoContent = "absent"
  Review <- MCReview
  Target = "index.html"
  Scope <- MCScope
  Ops <- MCOps
  Owner <- MCOwner
  Claimant <- MCClaimant
  NoClaimant = "none"
  MaxGrants = 7
  MaxEffects = 7
  MaxPairs = 2
  MaxTime = 1
  BootstrapTTL = 1
  PostApprovalTTL = 1
  LeaseTTL = 1
  MaxIdent = 1
  MaxCrash = 1
INVARIANTS
  ReplacementIsApproved
  CompletionIsEarned
  FrozenWasDisclosed
  ResultIsTheReplacement
CHECK_DEADLOCK FALSE
