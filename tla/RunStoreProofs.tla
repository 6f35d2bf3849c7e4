---------------------------- MODULE RunStoreProofs ----------------------------
(***************************************************************************)
(* Proofs about the durable record of a Run: its use cases, taken          *)
(* atomically and in any order, keep its types, the shape of the journal   *)
(* and the reason for a Blocked lifecycle, and never move an effect back.  *)
(* OperationBrokerProofs and RunStoreCASProofs show that the broker and    *)
(* the read-decide-commit of the code are such behaviours.                 *)
(***************************************************************************)
EXTENDS RunStore, TLAPS

(* The fold of the log stays a lifecycle, whatever the event *)
LEMMA FoldIsLifecycle ==
  ASSUME NEW l \in Lifecycle, NEW k
  PROVE  FoldEvent(l, k) \in Lifecycle
BY DEF FoldEvent, Lifecycle
(* The records of unused ids have their types *)
LEMMA NullStoreRecords ==
  /\ NoGrant \in GrantRecord
  /\ NoEffect \in EffectEntry
<1>1. 0 \in Time /\ 0 \in 0 .. DispatchBudget
  BY StoreAssumption DEF Time, DispatchBudget
<1>2. NoGrant \in GrantRecord
  BY <1>1 DEF NoGrant, GrantRecord
<1>3. NoEffect \in EffectEntry
  BY DEF NoEffect, EffectEntry, Phase, OperationResult, EffectCertainty
<1> QED BY <1>2, <1>3

(* A new record is well typed *)
LEMMA StoreInitType == ASSUME StoreInit PROVE StoreTypeOK
<1>1. life \in Lifecycle
  BY DEF StoreInit, FoldEvent, Lifecycle
<1> QED
  BY <1>1, NullStoreRecords DEF StoreInit, StoreTypeOK

(* Each use case keeps the type of the durable record *)
LEMMA GrantUpdateType ==
  ASSUME StoreTypeOK, NEW cap \in Capability, NEW s \in Scope,
         NEW pr \in PairId \cup {NoPair}, NEW now \in Time, NEW g \in GrantId,
         IssueGrant(g, cap, s, pr, now)
  PROVE  StoreTypeOK'
<1>1. [cap |-> cap, scope |-> s, pair |-> pr, issued |-> now,
       left |-> DispatchBudget, revoked |-> FALSE] \in GrantRecord
  BY DEF GrantRecord, DispatchBudget
<1>2. grants' \in [GrantId -> GrantRecord]
  BY <1>1 DEF IssueGrant, StoreTypeOK
<1> QED
  BY <1>2, FoldIsLifecycle DEF IssueGrant, StoreTypeOK, Log

(* A revocation keeps the type of the record *)
LEMMA RevokeType ==
  ASSUME StoreTypeOK, NEW g \in GrantId, RevokeGrant(g)
  PROVE  StoreTypeOK'
<1>1. PICK stale \in grants[g].left .. DispatchBudget :
        grants' = [grants EXCEPT ![g].revoked = TRUE, ![g].left = stale]
  BY DEF RevokeGrant
<1>2. grants[g].left \in 0 .. DispatchBudget
  BY DEF StoreTypeOK, GrantRecord
<1>3. stale \in 0 .. DispatchBudget
  BY <1>2 DEF DispatchBudget
<1> DEFINE row == [grants[g] EXCEPT !.revoked = TRUE, !.left = stale]
<1>4. row \in GrantRecord /\ grants' = [grants EXCEPT ![g] = row]
  <2>1. grants \in [GrantId -> GrantRecord] /\ grants[g] \in GrantRecord
    BY DEF StoreTypeOK
  <2>2. row \in GrantRecord
    BY <1>3, <2>1 DEF GrantRecord
  <2> QED BY <1>1, <2>1, <2>2
<1> HIDE DEF row
<1>5. grants' \in [GrantId -> GrantRecord]
  BY <1>4 DEF StoreTypeOK
<1> QED
  BY <1>5, FoldIsLifecycle DEF RevokeGrant, StoreTypeOK, Log

(* Preparing an effect keeps the type of the record *)
LEMMA PrepareType ==
  ASSUME StoreTypeOK, NEW e \in EffectId, NEW op \in Capability,
         NEW pr \in PairId \cup {NoPair}, NEW g \in GrantId,
         PrepareEffect(e, op, pr, g)
  PROVE  StoreTypeOK'
<1>1. [NoEffect EXCEPT !.phase = "Prepared", !.op = op, !.grant = g,
                       !.pair = pr] \in EffectEntry
  BY NullStoreRecords DEF EffectEntry, NoEffect, Phase
<1>2. effects' \in [EffectId -> EffectEntry]
  BY <1>1 DEF PrepareEffect, StoreTypeOK
<1> QED
  BY <1>2, FoldIsLifecycle DEF PrepareEffect, StoreTypeOK, Log

(* The journal steps of the handshake keep the type of the record *)
LEMMA HandshakeType ==
  ASSUME StoreTypeOK, NEW e \in EffectId
  PROVE  /\ \A c \in Claimant : ClaimEffect(e, c) => StoreTypeOK'
         /\ \A c \in Claimant : MarkDispatched(e, c) => StoreTypeOK'
         /\ \A c \in Claimant, res \in OperationResult,
               cert \in EffectCertainty :
              SettleEffect(e, c, res, cert) => StoreTypeOK'
         /\ \A probe \in Probe : ReconcileEffect(e, probe) => StoreTypeOK'
<1>1. ASSUME NEW c \in Claimant, ClaimEffect(e, c) PROVE StoreTypeOK'
  <2>0. [effects[e] EXCEPT !.phase = "Claimed", !.claimant = c]
          \in EffectEntry
    BY DEF StoreTypeOK, EffectEntry, Phase
  <2>1. effects' \in [EffectId -> EffectEntry]
    BY <1>1, <2>0 DEF ClaimEffect, StoreTypeOK
  <2> QED BY <1>1, <2>1, FoldIsLifecycle DEF ClaimEffect, StoreTypeOK, Log
<1>2. ASSUME NEW c \in Claimant, MarkDispatched(e, c) PROVE StoreTypeOK'
  <2>1. effects' \in [EffectId -> EffectEntry]
    BY <1>2 DEF MarkDispatched, StoreTypeOK, EffectEntry, Phase
  <2> QED BY <1>2, <2>1, FoldIsLifecycle DEF MarkDispatched, StoreTypeOK, Log
<1>3. ASSUME NEW c \in Claimant, NEW res \in OperationResult,
             NEW cert \in EffectCertainty, SettleEffect(e, c, res, cert)
      PROVE  StoreTypeOK'
  <2>0. [effects[e] EXCEPT !.phase = "Settled", !.result = res,
                          !.certainty = cert] \in EffectEntry
    BY DEF StoreTypeOK, EffectEntry, Phase
  <2>1. effects' \in [EffectId -> EffectEntry]
    BY <1>3, <2>0 DEF SettleEffect, StoreTypeOK
  <2> QED BY <1>3, <2>1, FoldIsLifecycle DEF SettleEffect, StoreTypeOK, Log
<1>4. ASSUME NEW probe \in Probe, ReconcileEffect(e, probe) PROVE StoreTypeOK'
  <2>1. ReconciledCertainty(probe) \in EffectCertainty
    BY DEF ReconciledCertainty, EffectCertainty
  <2>2. effects' \in [EffectId -> EffectEntry]
    BY <1>4, <2>1 DEF ReconcileEffect, StoreTypeOK, EffectEntry
  <2> QED BY <1>4, <2>2, FoldIsLifecycle DEF ReconcileEffect, StoreTypeOK, Log
<1> QED BY <1>1, <1>2, <1>3, <1>4

(* Consuming a dispatch budget keeps the type of the record *)
LEMMA ConsumeType ==
  ASSUME StoreTypeOK, NEW g \in GrantId, NEW now \in Time,
         ConsumeDispatchBudget(g, now)
  PROVE  StoreTypeOK'
<1>1. grants[g].left \in 0 .. DispatchBudget /\ grants[g].left > 0
  BY DEF ConsumeDispatchBudget, Consumable, StoreTypeOK, GrantRecord
<1>2. grants[g].left - 1 \in 0 .. DispatchBudget
  BY <1>1 DEF DispatchBudget
<1>3. grants' \in [GrantId -> GrantRecord]
  BY <1>2 DEF ConsumeDispatchBudget, StoreTypeOK, GrantRecord
<1> QED
  BY <1>3 DEF ConsumeDispatchBudget, StoreTypeOK

(* Every other use case keeps the type of the record *)
LEMMA OtherUseCaseType ==
  ASSUME StoreTypeOK, NEW now \in Time, NEW ops \in SUBSET Capability,
         OtherUseCase(ops, now)
  PROVE  StoreTypeOK'
<1>1. ASSUME NEW p \in PairId, FreezePair(p) \/ ApprovePair(p) \/ CompleteRun(p)
      PROVE  StoreTypeOK'
  BY <1>1, FoldIsLifecycle DEF FreezePair, ApprovePair, CompleteRun, StoreTypeOK, Log
<1>2. ASSUME NEW g \in GrantId, NEW cap \in ops, NEW s \in Scope,
             NEW p \in frozen \cup {NoPair}, IssueGrant(g, cap, s, p, now)
      PROVE  StoreTypeOK'
  BY <1>2, GrantUpdateType DEF StoreTypeOK
<1>3. ASSUME NEW g \in GrantId, RevokeGrant(g) PROVE StoreTypeOK'
  BY <1>3, RevokeType
<1>4. CASE CheckpointRun \/ ValidateRun \/ PauseRun \/ CancelRun
  BY <1>4, FoldIsLifecycle DEF CheckpointRun, ValidateRun, PauseRun, CancelRun,
     StoreTypeOK, Log
<1> QED BY <1>1, <1>2, <1>3, <1>4 DEF OtherUseCase

---------------------------------------------------------------------------
(* The inductive invariant of the record: a Blocked fold needs an unknown  *)
(* effect, and that a fresh effect is none needs the shape of the journal. *)
StoreInv ==
  /\ StoreTypeOK
  /\ JournalShape
  /\ BlockedIsJustified

(* What a step may do to the journal *)
JournalMoves == \A e \in EffectId : EffectStep(effects[e], effects'[e])

(* Only an unknown settlement makes the fold Blocked *)
LEMMA FoldBlocks ==
  ASSUME NEW l, NEW k, FoldEvent(l, k) = "Blocked"
  PROVE  k = "SettledUnknown" \/ (l = "Blocked" /\ k # "Settled")
BY DEF FoldEvent

(* A use case that leaves the journal alone *)
LEMMA QuietStep ==
  ASSUME StoreInv, StoreTypeOK', UNCHANGED effects,
         life' = life \/ \E k : k # "SettledUnknown" /\ Log(k)
  PROVE  StoreInv' /\ JournalMoves
<1>1. life' = "Blocked" => life = "Blocked"
  BY FoldBlocks DEF Log
<1>2. JournalShape' /\ BlockedIsJustified'
  BY <1>1 DEF StoreInv, JournalShape, BlockedIsJustified
<1>3. JournalMoves
  BY DEF JournalMoves, EffectStep
<1> QED BY <1>2, <1>3 DEF StoreInv

(* A journal step of one effect: what it must say of the effect, of its    *)
(* old and its new record and of the event it logs                         *)
LEMMA JournalStep ==
  ASSUME StoreInv, StoreTypeOK', NEW e \in EffectId, NEW k, Log(k),
         NEW new, effects' = [effects EXCEPT ![e] = new],
         EffectStep(effects[e], new),
         new.phase = "Settled" <=> new.certainty # "None",
         new.phase \in {"None", "Prepared"} <=> new.claimant = NoClaimant,
         k = "SettledUnknown" => new.certainty = "UnknownOrPartial",
         effects[e].certainty = "UnknownOrPartial" =>
           k \in {"Settled", "SettledUnknown"}
  PROVE  StoreInv' /\ JournalMoves
<1>1. effects'[e] = new /\ \A f \in EffectId : f # e => effects'[f] = effects[f]
  BY DEF StoreInv, StoreTypeOK
<1>2. JournalShape'
  BY <1>1 DEF StoreInv, JournalShape
<1>3. BlockedIsJustified'
  <2> SUFFICES ASSUME life' = "Blocked"
               PROVE  \E f \in EffectId : effects'[f].certainty = "UnknownOrPartial"
    BY DEF BlockedIsJustified
  <2>1. CASE k = "SettledUnknown"
    BY <1>1, <2>1
  <2>2. CASE k # "SettledUnknown"
    <3>1. life = "Blocked" /\ k # "Settled"
      BY <2>2, FoldBlocks DEF Log
    <3>2. PICK f \in EffectId : effects[f].certainty = "UnknownOrPartial"
      BY <3>1 DEF StoreInv, BlockedIsJustified
    <3>3. f # e
      BY <2>2, <3>1, <3>2
    <3> QED BY <1>1, <3>2, <3>3
  <2> QED BY <2>1, <2>2
<1>4. JournalMoves
  BY <1>1 DEF JournalMoves, EffectStep
<1> QED BY <1>2, <1>3, <1>4 DEF StoreInv

(* prepare_effect makes the record of a fresh id *)
LEMMA PrepareMoves ==
  ASSUME StoreInv, NEW e \in EffectId, NEW op \in Capability,
         NEW pr \in PairId \cup {NoPair}, NEW g \in GrantId,
         PrepareEffect(e, op, pr, g)
  PROVE  StoreInv' /\ JournalMoves
<1> DEFINE kind == "Progress"
           new == [NoEffect EXCEPT !.phase = "Prepared", !.op = op,
                                   !.grant = g, !.pair = pr]
<1>1. StoreTypeOK' /\ Log(kind) /\ effects' = [effects EXCEPT ![e] = new]
  BY PrepareType DEF StoreInv, PrepareEffect
<1>2. effects[e].phase = "None"
  BY DEF PrepareEffect, NextEffect, Used, EffectId
<1>3. effects[e].claimant = NoClaimant /\ effects[e].certainty = "None"
  BY <1>2 DEF StoreInv, StoreTypeOK, EffectEntry, JournalShape
<1>4. new.phase = "Prepared" /\ new.claimant = NoClaimant /\ new.certainty = "None"
  BY DEF NoEffect
<1>5. EffectStep(effects[e], new)
  BY <1>2, <1>3, <1>4 DEF EffectStep
<1>6. kind \notin {"Settled", "SettledUnknown"}
  OBVIOUS
<1> HIDE DEF new, kind
<1> QED BY <1>1, <1>3, <1>4, <1>5, <1>6, JournalStep

(* claim_effect gives a prepared effect its claimant *)
LEMMA ClaimMoves ==
  ASSUME StoreInv, NEW e \in EffectId, NEW c \in Claimant, ClaimEffect(e, c)
  PROVE  StoreInv' /\ JournalMoves
<1> DEFINE kind == "Progress"
           new == [effects[e] EXCEPT !.phase = "Claimed", !.claimant = c]
<1>1. StoreTypeOK' /\ Log(kind) /\ effects' = [effects EXCEPT ![e] = new]
  BY HandshakeType DEF StoreInv, ClaimEffect
<1>2. /\ effects[e] \in EffectEntry /\ effects[e].phase = "Prepared"
      /\ effects[e].claimant = NoClaimant /\ effects[e].certainty = "None"
  BY DEF ClaimEffect, StoreInv, StoreTypeOK, EffectEntry, JournalShape
<1>3. /\ new.phase = "Claimed" /\ new.claimant # NoClaimant
      /\ new.certainty = "None" /\ new.op = effects[e].op
      /\ new.grant = effects[e].grant /\ new.pair = effects[e].pair
  BY <1>2, StoreAssumption DEF EffectEntry
<1>4. EffectStep(effects[e], new)
  BY <1>2, <1>3 DEF EffectStep
<1>6. kind \notin {"Settled", "SettledUnknown"}
  OBVIOUS
<1> HIDE DEF new, kind
<1> QED BY <1>1, <1>2, <1>3, <1>4, <1>6, JournalStep

(* mark_dispatched *)
LEMMA DispatchMoves ==
  ASSUME StoreInv, NEW e \in EffectId, NEW c \in Claimant, MarkDispatched(e, c)
  PROVE  StoreInv' /\ JournalMoves
<1> DEFINE kind == "Progress"
           new == [effects[e] EXCEPT !.phase = "Dispatched"]
<1>1. StoreTypeOK' /\ Log(kind) /\ effects' = [effects EXCEPT ![e] = new]
  BY HandshakeType DEF StoreInv, MarkDispatched
<1>2. /\ effects[e] \in EffectEntry /\ effects[e].phase = "Claimed"
      /\ effects[e].claimant # NoClaimant /\ effects[e].certainty = "None"
  BY DEF MarkDispatched, StoreInv, StoreTypeOK, EffectEntry, JournalShape
<1>3. /\ new.phase = "Dispatched" /\ new.claimant = effects[e].claimant
      /\ new.certainty = "None" /\ new.op = effects[e].op
      /\ new.grant = effects[e].grant /\ new.pair = effects[e].pair
  BY <1>2 DEF EffectEntry
<1>4. EffectStep(effects[e], new)
  BY <1>2, <1>3 DEF EffectStep
<1>6. kind \notin {"Settled", "SettledUnknown"}
  OBVIOUS
<1> HIDE DEF new, kind
<1> QED BY <1>1, <1>2, <1>3, <1>4, <1>6, JournalStep

(* settle logs the unknown kind exactly for an unknown certainty *)
LEMMA SettleMoves ==
  ASSUME StoreInv, NEW e \in EffectId, NEW c \in Claimant,
         NEW res \in OperationResult, NEW cert \in EffectCertainty \ {"None"},
         SettleEffect(e, c, res, cert)
  PROVE  StoreInv' /\ JournalMoves
<1> DEFINE new == [effects[e] EXCEPT !.phase = "Settled", !.result = res,
                                     !.certainty = cert]
<1>1. /\ StoreTypeOK' /\ Log(SettledKind(cert))
      /\ effects' = [effects EXCEPT ![e] = new]
  BY HandshakeType DEF StoreInv, SettleEffect
<1>2. /\ effects[e] \in EffectEntry /\ effects[e].phase = "Dispatched"
      /\ effects[e].claimant # NoClaimant /\ effects[e].certainty = "None"
  BY DEF SettleEffect, StoreInv, StoreTypeOK, EffectEntry, JournalShape
<1>3. /\ new.phase = "Settled" /\ new.claimant = effects[e].claimant
      /\ new.certainty = cert /\ new.op = effects[e].op
      /\ new.grant = effects[e].grant /\ new.pair = effects[e].pair
  BY <1>2 DEF EffectEntry
<1>4. EffectStep(effects[e], new)
  BY <1>2, <1>3 DEF EffectStep
<1>5. SettledKind(cert) = "SettledUnknown" => cert = "UnknownOrPartial"
  BY DEF SettledKind
<1> HIDE DEF new
<1> QED BY <1>1, <1>2, <1>3, <1>4, <1>5, JournalStep

(* reconcile_effect changes nothing but an unknown certainty *)
LEMMA ReconcileMoves ==
  ASSUME StoreInv, NEW e \in EffectId, NEW probe \in Probe,
         ReconcileEffect(e, probe)
  PROVE  StoreInv' /\ JournalMoves
<1> DEFINE cert == ReconciledCertainty(probe)
           new  == [effects[e] EXCEPT !.certainty = cert]
<1>1. /\ StoreTypeOK' /\ Log(SettledKind(cert))
      /\ effects' = [effects EXCEPT ![e] = new]
  BY HandshakeType DEF StoreInv, ReconcileEffect
<1>2. /\ effects[e] \in EffectEntry /\ effects[e].phase = "Settled"
      /\ effects[e].claimant # NoClaimant
      /\ effects[e].certainty = "UnknownOrPartial"
  BY DEF ReconcileEffect, StoreInv, StoreTypeOK, EffectEntry, JournalShape
<1>3. cert # "None"
  BY DEF ReconciledCertainty
<1>4. /\ SettledKind(cert) = "SettledUnknown" => cert = "UnknownOrPartial"
      /\ SettledKind(cert) \in {"Settled", "SettledUnknown"}
  BY DEF SettledKind
<1> HIDE DEF cert
<1>5. /\ new.phase = "Settled" /\ new.claimant = effects[e].claimant
      /\ new.certainty = cert
  BY <1>2 DEF EffectEntry
<1>6. EffectStep(effects[e], new)
  BY <1>2, <1>5 DEF EffectStep
<1> HIDE DEF new
<1> QED BY <1>1, <1>2, <1>3, <1>4, <1>5, <1>6, JournalStep

(* The use cases outside the journal *)
LEMMA OtherMoves ==
  ASSUME StoreInv, NEW now \in Time, NEW ops \in SUBSET Capability,
         OtherUseCase(ops, now)
  PROVE  StoreInv' /\ JournalMoves
<1>1. StoreTypeOK'
  BY OtherUseCaseType DEF StoreInv
<1>2. UNCHANGED effects
  BY DEF OtherUseCase, FreezePair, ApprovePair, CompleteRun, IssueGrant,
     RevokeGrant, CheckpointRun, ValidateRun, PauseRun, CancelRun
<1>3. \E k : k # "SettledUnknown" /\ Log(k)
  BY DEF OtherUseCase, FreezePair, ApprovePair, CompleteRun, IssueGrant,
     RevokeGrant, CheckpointRun, ValidateRun, PauseRun, CancelRun
<1> QED BY <1>1, <1>2, <1>3, QuietStep

(* One step per use case *)
LEMMA StoreStep ==
  ASSUME StoreInv, [StoreNext]_storeVars
  PROVE  StoreInv' /\ JournalMoves
<1>1. CASE UNCHANGED storeVars
  <2>1. StoreTypeOK'
    BY <1>1 DEF StoreInv, StoreTypeOK, storeVars
  <2> QED BY <1>1, <2>1, QuietStep DEF storeVars
<1>2. ASSUME NEW now \in Time, OtherUseCase(Capability, now)
      PROVE  StoreInv' /\ JournalMoves
  BY <1>2, OtherMoves
<1>3. ASSUME NEW e \in EffectId, NEW probe \in Probe, ReconcileEffect(e, probe)
      PROVE  StoreInv' /\ JournalMoves
  BY <1>3, ReconcileMoves
<1>4. ASSUME NEW e \in EffectId, NEW op \in Capability,
             NEW p \in frozen \cup {NoPair}, NEW g \in GrantId,
             PrepareEffect(e, op, p, g)
      PROVE  StoreInv' /\ JournalMoves
  <2>1. p \in PairId \cup {NoPair}
    BY DEF StoreInv, StoreTypeOK
  <2> QED BY <1>4, <2>1, PrepareMoves
<1>5. ASSUME NEW e \in EffectId, NEW c \in Claimant, ClaimEffect(e, c)
      PROVE  StoreInv' /\ JournalMoves
  BY <1>5, ClaimMoves
<1>6. ASSUME NEW g \in GrantId, NEW now \in Time, ConsumeDispatchBudget(g, now)
      PROVE  StoreInv' /\ JournalMoves
  BY <1>6, ConsumeType, QuietStep DEF StoreInv, ConsumeDispatchBudget
<1>7. ASSUME NEW e \in EffectId, NEW c \in Claimant, MarkDispatched(e, c)
      PROVE  StoreInv' /\ JournalMoves
  BY <1>7, DispatchMoves
<1>8. ASSUME NEW e \in EffectId, NEW c \in Claimant,
             NEW res \in OperationResult \ {"None"},
             NEW cert \in EffectCertainty \ {"None"}, SettleEffect(e, c, res, cert)
      PROVE  StoreInv' /\ JournalMoves
  BY <1>8, SettleMoves
<1> QED
  BY <1>1, <1>2, <1>3, <1>4, <1>5, <1>6, <1>7, <1>8 DEF StoreNext

(* A new Run satisfies the invariant *)
LEMMA StoreInitInv == ASSUME StoreInit PROVE StoreInv
<1>1. StoreTypeOK
  BY StoreInitType
<1>2. JournalShape /\ BlockedIsJustified
  BY DEF StoreInit, JournalShape, BlockedIsJustified, NoEffect, FoldEvent
<1> QED BY <1>1, <1>2 DEF StoreInv

---------------------------------------------------------------------------
(* run_use_cases.rs: whatever use cases are called in whatever order, the  *)
(* record keeps its types, the rows of the journal their shape, and the    *)
(* fold of the log says Blocked only while some effect is unknown.         *)
THEOREM StoreInvariant == StoreSpec => []StoreInv
<1>1. StoreInit => StoreInv
  BY StoreInitInv
<1>2. StoreInv /\ [StoreNext]_storeVars => StoreInv'
  BY StoreStep
<1> QED BY <1>1, <1>2, PTL DEF StoreSpec

(* run.rs:2194-2254: no use case moves an effect back, changes its grant,  *)
(* its pair or its claimant, or changes a confirmed certainty.             *)
THEOREM StoreJournalForward == StoreSpec => JournalIsForwardOnly
<1>1. StoreInv /\ [StoreNext]_storeVars => JournalMoves
  BY StoreStep
<1>2. JournalIsForwardOnly <=> [][JournalMoves]_storeVars
  BY DEF JournalIsForwardOnly, JournalMoves
<1> QED BY <1>1, <1>2, StoreInvariant, PTL DEF StoreSpec
=============================================================================
