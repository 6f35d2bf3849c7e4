----------------------------- MODULE RunPolicy -----------------------------
(***************************************************************************)
(* The pure rules of a Harness Run (crates/tule-core/src/run.rs and        *)
(* capability.rs): the lifecycle derived from the event log and the effect *)
(* journal, default-deny grant evaluation, settlement and reconciliation   *)
(* certainty, and the resume decision.                                     *)
(*                                                                         *)
(* derive_lifecycle folds the whole log from the left on every call.  The  *)
(* model keeps the value of that fold (`life') and advances it by one      *)
(* FoldEvent per appended event, which is the same function of the log.    *)
(* Hashes are modelled by what they hash: equal hash, equal content.       *)
(***************************************************************************)
EXTENDS Naturals

(* HarnessRunLifecycle *)
Lifecycle == {"Created", "AwaitingApproval", "Approved", "Executing",
              "Checkpointed", "Validated", "Completed", "Paused",
              "Cancelled", "Abandoned", "Blocked"}

(* HarnessRunLifecycle::is_terminal *)
IsTerminal(l) == l \in {"Completed", "Cancelled", "Abandoned"}

(* EffectJournalPhase, with "None" for an effect id not yet used *)
Phase == {"None", "Prepared", "Claimed", "Dispatched", "Settled"}

(* EffectOperationResult and EffectCertainty, "None" for Option::None *)
OperationResult == {"None", "Success", "Error", "Cancelled"}
EffectCertainty == {"None", "ConfirmedCommitted", "ConfirmedNoEffect",
                    "UnknownOrPartial"}

(* CapabilityType; each capability has exactly one registered operation *)
Capability == {"LocalRead", "ProviderDisclose", "CreateOrReplace",
               "NativeInspection"}

---------------------------------------------------------------------------
(* One step of the fold of derive_lifecycle.  "Settled" is EffectSettled   *)
(* with a confirmed certainty, "SettledUnknown" with UnknownOrPartial;     *)
(* "Progress" stands for EffectPrepared, EffectClaimed, EffectDispatched   *)
(* and GrantIssued, which the code treats alike; "Other" for the kinds     *)
(* that leave the lifecycle alone (Denied, GrantRevoked, Lease*, Resumed). *)
FoldEvent(life, kind) ==
  IF kind \in {"Approved", "Checkpointed", "Validated", "Completed",
               "Paused", "Cancelled", "Abandoned"} THEN kind
  ELSE IF kind = "RunCreated" THEN "Created"
  ELSE IF kind = "PairFrozen" THEN "AwaitingApproval"
  ELSE IF kind = "Settled" THEN "Executing"
  ELSE IF kind = "SettledUnknown" THEN "Blocked"
  ELSE IF /\ kind = "Progress"
          /\ life \in {"Approved", "Executing", "AwaitingApproval", "Created"}
       THEN "Executing"
  ELSE life

(* The settlement event's kind, by the certainty it carries *)
SettledKind(cert) ==
  IF cert = "UnknownOrPartial" THEN "SettledUnknown" ELSE "Settled"

(* Mutant: an effect left unsettled by a restart is not held against it *)
InDoubt_Settled(e) == e.certainty = "UnknownOrPartial"

(* An effect that derive_lifecycle holds against the whole Run *)
InDoubt(e) ==
  \/ e.certainty = "UnknownOrPartial"
  \/ e.phase \in {"Claimed", "Dispatched"} /\ e.certainty = "None"

(* derive_lifecycle: `life' is the fold of the log, `cancelled' says the   *)
(* log holds a Cancelled event.  No use case appends Abandoned, and the    *)
(* code's second unknown check is reached only when the first one failed.  *)
DeriveLifecycle(life, cancelled, effs) ==
  IF \E i \in DOMAIN effs : InDoubt(effs[i])
  THEN IF cancelled THEN "Cancelled" ELSE "Blocked"
  ELSE life

(* is_quiescent_for_checkpoint *)
IsQuiescent(effs) ==
  \A i \in DOMAIN effs : effs[i].phase \notin {"Claimed", "Dispatched"}

---------------------------------------------------------------------------
(* EffectRecord::settle: an error or a cancellation alone never proves     *)
(* that there was no effect.                                               *)
SettleAllowed(result, cert) ==
  ~ (result \in {"Error", "Cancelled"} /\ cert = "ConfirmedNoEffect")

Probe == {"MatchesPreimage", "MatchesPostimage", "MatchesNeither"}

(* Mutant: no match is taken for no effect *)
ReconciledCertainty_Negative(probe) ==
  IF probe = "MatchesPostimage" THEN "ConfirmedCommitted" ELSE "ConfirmedNoEffect"

(* reconcile_replacement_certainty *)
ReconciledCertainty(probe) ==
  IF probe = "MatchesPreimage" THEN "ConfirmedNoEffect"
  ELSE IF probe = "MatchesPostimage" THEN "ConfirmedCommitted"
  ELSE "UnknownOrPartial"

(* evaluate_resume: the four revalidations of ResumeRevalidation are one   *)
(* Boolean, since any mismatch has the same outcome.                       *)
EvaluateResume(matches, expired, confirmed) ==
  IF ~ matches THEN "RequireReapprovalOrAbandon"
  ELSE IF confirmed THEN "SkipConfirmedReplacement"
  ELSE IF expired THEN "RequireFreshGrant"
  ELSE "Continue"

---------------------------------------------------------------------------
(* evaluate_grant allows: every binding matches and the grant is neither   *)
(* revoked, expired nor exhausted.  The resource selector and the action   *)
(* scope are one value, `scope'; the denial reason is not distinguished.   *)
GrantAllows(g, expires, cap, scope, pair, now) ==
  /\ g.cap = cap
  /\ g.scope = scope
  /\ g.pair = pair
  /\ ~ g.revoked
  /\ now < expires
  /\ g.left > 0

=============================================================================
