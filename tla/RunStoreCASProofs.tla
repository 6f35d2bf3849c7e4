-------------------------- MODULE RunStoreCASProofs --------------------------
(***************************************************************************)
(* Reading, deciding and committing apart, by any number of processes,     *)
(* implements the atomic use cases of RunStore.  The argument is the       *)
(* sequence number: a process that still holds the next one has read the   *)
(* log and the journal as they are, however its read was torn, since every *)
(* transaction that changes them appends an event.                         *)
(***************************************************************************)
EXTENDS RunStoreCAS, RunStoreProofs

Snapshot ==
  [pc: {"Idle", "Logged", "Read"}, seq: Nat, life: Lifecycle,
   cancelled: BOOLEAN, grants: [GrantId -> GrantRecord],
   effects: [EffectId -> EffectEntry]]

(* The inductive invariant: no process has read a number that is still to  *)
(* come, so an append makes every snapshot but none current.               *)
CASInv ==
  /\ StoreInv
  /\ seq \in Nat
  /\ snap \in [Host -> Snapshot]
  /\ \A h \in Host : snap[h].seq <= seq
  /\ SnapshotIsCurrent

(* A process that has read nothing *)
LEMMA NoSnapshotType == NoSnapshot \in Snapshot
<1>1. NoSnapshot.grants \in [GrantId -> GrantRecord]
  BY NullStoreRecords DEF NoSnapshot
<1>2. NoSnapshot.effects \in [EffectId -> EffectEntry]
  BY NullStoreRecords DEF NoSnapshot
<1> QED BY <1>1, <1>2 DEF NoSnapshot, Snapshot, Lifecycle

(* Every commit leaves all snapshots behind *)
LEMMA CommitStep ==
  ASSUME CASInv, StoreInv', NEW h \in Host, NEW k, Commit(h, k)
  PROVE  CASInv'
<1>1. /\ seq \in Nat /\ seq' = seq + 1
      /\ snap' = [snap EXCEPT ![h] = NoSnapshot] /\ snap \in [Host -> Snapshot]
  BY DEF CASInv, Commit
<1>2. snap' \in [Host -> Snapshot]
  BY <1>1, NoSnapshotType
<1>3. snap'[h] = NoSnapshot /\ \A q \in Host : q # h => snap'[q] = snap[q]
  BY <1>1
<1>4. NoSnapshot.pc = "Idle" /\ NoSnapshot.seq = 0
  BY DEF NoSnapshot
<1>5. \A q \in Host : snap[q].seq \in Nat /\ snap[q].seq <= seq
  BY <1>1 DEF CASInv, Snapshot
<1>6. \A q \in Host : snap'[q].seq <= seq'
  BY <1>1, <1>3, <1>4, <1>5
<1>7. \A q \in Host : snap'[q].pc # "Idle" => snap'[q].seq # seq'
  BY <1>1, <1>3, <1>4, <1>5
<1>8. SnapshotIsCurrent'
  BY <1>7 DEF SnapshotIsCurrent
<1> QED BY <1>1, <1>2, <1>6, <1>8 DEF CASInv

(* What the invariant says of the snapshot of one process *)
IsCurrent(s) ==
  s.pc # "Idle" /\ s.seq = seq =>
    /\ s.life = life /\ s.cancelled = cancelled
    /\ s.pc = "Read" =>
         /\ s.effects = effects
         /\ \A g \in GrantId : /\ SameGrant(s.grants[g], grants[g])
                               /\ s.grants[g].left >= grants[g].left

(* A step that changes the snapshot of one process and nothing else *)
LEMMA OwnSnapshotStep ==
  ASSUME CASInv, NEW h \in Host, UNCHANGED <<storeVars, seq>>,
         NEW new \in Snapshot, snap' = [snap EXCEPT ![h] = new],
         new.seq <= seq, IsCurrent(new)
  PROVE  CASInv'
<1>0. /\ UNCHANGED <<life, cancelled, frozen, approved, grants, effects, result, seq>>
      /\ seq \in Nat /\ snap \in [Host -> Snapshot]
  BY DEF CASInv, storeVars
<1>1. StoreInv'
  BY <1>0 DEF CASInv, StoreInv, StoreTypeOK, JournalShape, BlockedIsJustified
<1>2. snap'[h] = new /\ \A q \in Host : q # h => snap'[q] = snap[q]
  BY <1>0
<1>3. snap' \in [Host -> Snapshot] /\ \A q \in Host : snap'[q].seq <= seq'
  BY <1>0, <1>2 DEF CASInv
<1>4. SnapshotIsCurrent'
  BY <1>0, <1>2 DEF CASInv, SnapshotIsCurrent, IsCurrent
<1> QED BY <1>0, <1>1, <1>3, <1>4 DEF CASInv

(* A process that reads or refuses *)
LEMMA ReadStep ==
  ASSUME CASInv, NEW h \in Host, ReadLog(h) \/ ReadRecords(h) \/ Refuse(h)
  PROVE  CASInv'
<1>0. /\ UNCHANGED <<storeVars, seq>>
      /\ seq \in Nat /\ snap \in [Host -> Snapshot] /\ StoreTypeOK
  BY DEF CASInv, StoreInv, ReadLog, ReadRecords, Refuse
<1>1. CASE ReadLog(h)
  <2> DEFINE new == [snap[h] EXCEPT !.pc = "Logged", !.seq = seq, !.life = life,
                                    !.cancelled = cancelled]
  <2>1. snap' = [snap EXCEPT ![h] = new]
    BY <1>1 DEF ReadLog
  <2>2. new \in Snapshot /\ new.pc = "Logged" /\ new.seq = seq /\ new.life = life
          /\ new.cancelled = cancelled
    BY <1>0 DEF Snapshot, StoreTypeOK
  <2> HIDE DEF new
  <2>3. IsCurrent(new) /\ new.seq <= seq
    BY <1>0, <2>2 DEF IsCurrent
  <2> QED BY <1>0, <2>1, <2>2, <2>3, OwnSnapshotStep
<1>2. CASE ReadRecords(h)
  <2> DEFINE new == [snap[h] EXCEPT !.pc = "Read", !.grants = grants,
                                    !.effects = effects]
  <2>1. snap' = [snap EXCEPT ![h] = new] /\ snap[h].pc = "Logged"
    BY <1>2 DEF ReadRecords
  <2>2. /\ new \in Snapshot /\ new.seq = snap[h].seq /\ new.life = snap[h].life
        /\ new.cancelled = snap[h].cancelled /\ new.grants = grants
        /\ new.effects = effects
    BY <1>0 DEF Snapshot, StoreTypeOK
  <2> HIDE DEF new
  <2>3. \A g \in GrantId : grants[g].left \in Nat
    BY <1>0 DEF StoreTypeOK, GrantRecord, DispatchBudget
  <2>4. snap[h].seq = seq => snap[h].life = life /\ snap[h].cancelled = cancelled
    BY <2>1 DEF CASInv, SnapshotIsCurrent
  <2>5. \A g \in GrantId : /\ SameGrant(new.grants[g], grants[g])
                           /\ new.grants[g].left >= grants[g].left
    BY <2>2, <2>3 DEF SameGrant
  <2>6. IsCurrent(new) /\ new.seq <= seq
    BY <2>2, <2>4, <2>5 DEF IsCurrent, CASInv
  <2> QED BY <1>0, <2>1, <2>2, <2>6, OwnSnapshotStep
<1>3. CASE Refuse(h)
  <2>1. /\ snap' = [snap EXCEPT ![h] = NoSnapshot]
        /\ NoSnapshot.pc = "Idle" /\ NoSnapshot.seq = 0
    BY <1>3 DEF Refuse, NoSnapshot
  <2>2. IsCurrent(NoSnapshot) /\ NoSnapshot.seq <= seq
    BY <1>0, <2>1 DEF IsCurrent
  <2> QED BY <1>0, <2>1, <2>2, NoSnapshotType, OwnSnapshotStep
<1> QED BY <1>1, <1>2, <1>3

(* Consuming a budget appends no event: the snapshots that are current     *)
(* have the grant with at least the budget that is left.                   *)
LEMMA ConsumeKeepsSnapshots ==
  ASSUME CASInv, StoreInv', NEW g \in GrantId, NEW now \in Time, Consume(g, now)
  PROVE  CASInv'
<1>1. /\ UNCHANGED <<life, cancelled, effects, seq, snap>>
      /\ grants' = [grants EXCEPT ![g].left = @ - 1]
      /\ grants \in [GrantId -> GrantRecord]
  BY DEF Consume, ConsumeDispatchBudget, CASInv, StoreInv, StoreTypeOK
<1>2. \A f \in GrantId : grants[f].left \in Nat
  BY <1>1 DEF GrantRecord, DispatchBudget
<1>3. ASSUME NEW f \in GrantId
      PROVE  SameGrant(grants'[f], grants[f]) /\ grants'[f].left <= grants[f].left
  <2>1. CASE f # g
    BY <1>1, <1>2, <2>1 DEF SameGrant
  <2>2. CASE f = g
    <3>1. grants'[g] = [grants[g] EXCEPT !.left = @ - 1]
      BY <1>1
    <3>2. grants[g] \in GrantRecord
      BY <1>1
    <3>3. grants'[g].left = grants[g].left - 1
      BY <3>1, <3>2 DEF GrantRecord
    <3>4. [grants'[g] EXCEPT !.left = 0] = [grants[g] EXCEPT !.left = 0]
      BY <3>1, <3>2 DEF GrantRecord
    <3> QED BY <1>2, <2>2, <3>3, <3>4 DEF SameGrant
  <2> QED BY <2>1, <2>2
<1>4. \A f \in GrantId : grants'[f].left \in Nat
  BY DEF StoreInv, StoreTypeOK, GrantRecord, DispatchBudget
<1>5. ASSUME NEW h \in Host, snap'[h].pc = "Read", snap'[h].seq = seq', NEW f \in GrantId
      PROVE  /\ SameGrant(snap'[h].grants[f], grants'[f])
             /\ snap'[h].grants[f].left >= grants'[f].left
  <2>1. /\ SameGrant(snap[h].grants[f], grants[f])
        /\ snap[h].grants[f].left >= grants[f].left
    BY <1>1, <1>5 DEF CASInv, SnapshotIsCurrent
  <2>2. snap[h].grants[f].left \in Nat
    BY DEF CASInv, Snapshot, GrantRecord, DispatchBudget
  <2>3. SameGrant(snap[h].grants[f], grants'[f])
    BY <1>3, <2>1 DEF SameGrant
  <2> QED BY <1>1, <1>2, <1>3, <1>4, <2>1, <2>2, <2>3
<1>6. SnapshotIsCurrent'
  BY <1>1, <1>5 DEF CASInv, SnapshotIsCurrent
<1> QED BY <1>1, <1>6 DEF CASInv

---------------------------------------------------------------------------
(* What a process that may commit has read: the lifecycle and the journal  *)
(* as they are, and of each grant at least the budget that is left         *)
LEMMA CommitIsCurrent ==
  ASSUME CASInv, NEW h \in Host, NEW k, Commit(h, k)
  PROVE  /\ Log(k) /\ Seen(h) = Derived /\ snap[h].effects = effects
         /\ \A g \in GrantId : /\ SameGrant(snap[h].grants[g], grants[g])
                               /\ snap[h].grants[g].left >= grants[g].left
<1>1. snap[h].seq \in Nat /\ seq \in Nat
  BY DEF CASInv, Snapshot
<1>2. snap[h].pc = "Read" /\ snap[h].seq = seq /\ Log(k)
  BY <1>1 DEF Commit
<1> QED BY <1>2 DEF CASInv, SnapshotIsCurrent, Seen, Derived

(* The use cases that read nothing but the sequence number *)
LEMMA BlindIsStoreStep ==
  ASSUME CASInv, NEW h \in Host, BlindCommit(h)
  PROVE  [StoreNext]_storeVars /\ \E k : Commit(h, k)
<1>0. /\ StoreTypeOK /\ 0 \in Time /\ Ops \subseteq Capability
      /\ frozen \subseteq PairId
  BY CASAssumption, StoreAssumption DEF CASInv, StoreInv, StoreTypeOK, Time
<1>1. ASSUME NEW p \in PairId, NextPair(p), frozen' = frozen \cup {p},
             Commit(h, "PairFrozen"),
             UNCHANGED <<cancelled, approved, grants, effects, result>>
      PROVE  StoreNext
  <2>1. FreezePair(p)
    BY <1>1 DEF Commit, FreezePair
  <2> QED BY <1>0, <2>1 DEF StoreNext, OtherUseCase
<1>2. ASSUME NEW p \in frozen, approved' = approved \cup {p}, Commit(h, "Approved"),
             UNCHANGED <<cancelled, frozen, grants, effects, result>>
      PROVE  StoreNext
  <2>1. ApprovePair(p)
    BY <1>2 DEF Commit, ApprovePair
  <2> QED BY <1>0, <2>1 DEF StoreNext, OtherUseCase
<1>3. ASSUME NEW g \in GrantId, NEW cap \in Ops, NEW s \in Scope,
             NEW p \in frozen \cup {NoPair}, NEW now \in Time, NextGrant(g),
             grants' = [grants EXCEPT ![g] =
                          [cap |-> cap, scope |-> s, pair |-> p, issued |-> now,
                           left |-> DispatchBudget, revoked |-> FALSE]],
             Commit(h, "Progress"),
             UNCHANGED <<cancelled, frozen, approved, effects, result>>
      PROVE  StoreNext
  <2>1. IssueGrant(g, cap, s, p, now)
    BY <1>3 DEF Commit, IssueGrant
  <2>2. cap \in Capability
    BY <1>0
  <2> QED BY <2>1, <2>2 DEF StoreNext, OtherUseCase
<1>4. ASSUME Commit(h, "Validated"),
             UNCHANGED <<cancelled, frozen, approved, grants, effects, result>>
      PROVE  StoreNext
  <2>1. ValidateRun
    BY <1>4 DEF Commit, ValidateRun
  <2> QED BY <1>0, <2>1 DEF StoreNext, OtherUseCase
<1>5. ASSUME Commit(h, "Other"),
             UNCHANGED <<cancelled, frozen, approved, grants, effects, result>>
      PROVE  UNCHANGED storeVars
  BY <1>5 DEF Commit, Log, FoldEvent, storeVars
<1>6. ASSUME NEW p \in frozen, result = NoPair, result' = p, Commit(h, "Completed"),
             UNCHANGED <<cancelled, frozen, approved, grants, effects>>
      PROVE  StoreNext
  <2>1. CompleteRun(p)
    BY <1>6 DEF Commit, CompleteRun
  <2> QED BY <1>0, <2>1 DEF StoreNext, OtherUseCase
<1>7. \E k : Commit(h, k)
  BY DEF BlindCommit
<1> QED BY <1>1, <1>2, <1>3, <1>4, <1>5, <1>6, <1>7 DEF BlindCommit

(* revoke_grant writes back a budget between the one that is left and the  *)
(* one a grant starts with                                                 *)
LEMMA RevokeIsStoreStep ==
  ASSUME CASInv, NEW h \in Host, NEW g \in GrantId, CommitRevoke(h, g)
  PROVE  StoreNext
<1>1. /\ Log("Other") /\ SameGrant(snap[h].grants[g], grants[g])
      /\ snap[h].grants[g].left >= grants[g].left
  BY CommitIsCurrent DEF CommitRevoke
<1>2. /\ snap[h].grants[g] \in GrantRecord /\ grants[g] \in GrantRecord
  BY DEF CASInv, Snapshot, StoreInv, StoreTypeOK
<1>3. /\ [snap[h].grants[g] EXCEPT !.left = 0].cap = snap[h].grants[g].cap
      /\ [snap[h].grants[g] EXCEPT !.left = 0].revoked = snap[h].grants[g].revoked
      /\ [grants[g] EXCEPT !.left = 0].cap = grants[g].cap
      /\ [grants[g] EXCEPT !.left = 0].revoked = grants[g].revoked
  BY <1>2 DEF GrantRecord
<1>4. Issued(g) /\ ~ grants[g].revoked
  BY <1>1, <1>3 DEF SameGrant, CommitRevoke, Issued
<1>5. snap[h].grants[g].left \in grants[g].left .. DispatchBudget
  BY <1>1, <1>2 DEF GrantRecord, DispatchBudget
<1>6. RevokeGrant(g)
  BY <1>1, <1>4, <1>5 DEF RevokeGrant, CommitRevoke
<1>7. 0 \in Time
  BY StoreAssumption DEF Time
<1> QED BY <1>6, <1>7 DEF StoreNext, OtherUseCase

(* update_effect overwrites a row with the entry that was read, which is   *)
(* the row itself                                                          *)
LEMMA UpdateIsRowStep ==
  ASSUME CASInv, NEW e \in EffectId, NEW new \in EffectEntry,
         new.op = effects[e].op, new.grant = effects[e].grant,
         new.pair = effects[e].pair, UpdateEffect(e, new)
  PROVE  effects' = [effects EXCEPT ![e] = new]
<1>1. effects[e] \in EffectEntry
  BY DEF CASInv, StoreInv, StoreTypeOK
<1>2. [effects[e] EXCEPT !.phase = new.phase, !.claimant = new.claimant,
                         !.result = new.result, !.certainty = new.certainty] = new
  BY <1>1 DEF EffectEntry
<1> QED BY <1>2 DEF UpdateEffect

(* The journal's commits *)
LEMMA JournalIsStoreStep ==
  ASSUME CASInv, NEW h \in Host, NEW e \in EffectId
  PROVE  /\ \A op \in Ops, p \in frozen \cup {NoPair}, g \in GrantId :
              CommitPrepare(h, e, op, p, g) => StoreNext
         /\ \A c \in Claimant : CommitClaim(h, e, c) => StoreNext
         /\ \A c \in Claimant : CommitDispatched(h, e, c) => StoreNext
         /\ \A c \in Claimant, res \in OperationResult \ {"None"},
               cert \in EffectCertainty \ {"None"} :
              CommitSettled(h, e, c, res, cert) => StoreNext
         /\ \A probe \in Probe : CommitReconciled(h, e, probe) => StoreNext
<1>0. effects[e] \in EffectEntry
  BY DEF CASInv, StoreInv, StoreTypeOK
<1>1. ASSUME NEW op \in Ops, NEW p \in frozen \cup {NoPair}, NEW g \in GrantId,
             CommitPrepare(h, e, op, p, g)
      PROVE  StoreNext
  <2>1. Log("Progress") /\ Seen(h) = Derived
    BY <1>1, CommitIsCurrent DEF CommitPrepare
  <2>2. PrepareEffect(e, op, p, g)
    BY <1>1, <2>1 DEF CommitPrepare, PrepareEffect
  <2>3. op \in Capability
    BY CASAssumption
  <2> QED BY <2>2, <2>3 DEF StoreNext
<1>2. ASSUME NEW c \in Claimant, CommitClaim(h, e, c)
      PROVE  StoreNext
  <2>1. ClaimEffect(e, c)
    BY <1>2 DEF CommitClaim, ClaimEffect, Commit
  <2> QED BY <2>1 DEF StoreNext
<1>3. ASSUME NEW c \in Claimant, CommitDispatched(h, e, c)
      PROVE  StoreNext
  <2> DEFINE new == [effects[e] EXCEPT !.phase = "Dispatched"]
  <2>1. Log("Progress") /\ snap[h].effects = effects
    BY <1>3, CommitIsCurrent DEF CommitDispatched
  <2>2. /\ new \in EffectEntry /\ new.op = effects[e].op
        /\ new.grant = effects[e].grant /\ new.pair = effects[e].pair
    BY <1>0 DEF EffectEntry, Phase
  <2>3. /\ UpdateEffect(e, new) /\ effects[e].phase = "Claimed"
        /\ effects[e].claimant = c
        /\ UNCHANGED <<cancelled, frozen, approved, grants, result>>
    BY <1>3, <2>1 DEF CommitDispatched, UpdateEffect
  <2> HIDE DEF new
  <2>4. effects' = [effects EXCEPT ![e] = new]
    BY <2>2, <2>3, UpdateIsRowStep
  <2>5. MarkDispatched(e, c)
    BY <2>1, <2>3, <2>4 DEF MarkDispatched, new
  <2> QED BY <2>5 DEF StoreNext
<1>4. ASSUME NEW c \in Claimant, NEW res \in OperationResult \ {"None"},
             NEW cert \in EffectCertainty \ {"None"},
             CommitSettled(h, e, c, res, cert)
      PROVE  StoreNext
  <2> DEFINE new == [effects[e] EXCEPT !.phase = "Settled", !.result = res,
                                       !.certainty = cert]
  <2>1. Log(SettledKind(cert)) /\ snap[h].effects = effects
    BY <1>4, CommitIsCurrent DEF CommitSettled
  <2>2. /\ new \in EffectEntry /\ new.op = effects[e].op
        /\ new.grant = effects[e].grant /\ new.pair = effects[e].pair
    BY <1>0 DEF EffectEntry, Phase
  <2>3. /\ UpdateEffect(e, new) /\ effects[e].phase = "Dispatched"
        /\ effects[e].claimant = c /\ SettleAllowed(res, cert)
        /\ UNCHANGED <<cancelled, frozen, approved, grants, result>>
    BY <1>4, <2>1 DEF CommitSettled, UpdateEffect
  <2> HIDE DEF new
  <2>4. effects' = [effects EXCEPT ![e] = new]
    BY <2>2, <2>3, UpdateIsRowStep
  <2>5. SettleEffect(e, c, res, cert)
    BY <2>1, <2>3, <2>4 DEF SettleEffect, new
  <2> QED BY <2>5 DEF StoreNext
<1>5. ASSUME NEW probe \in Probe, CommitReconciled(h, e, probe)
      PROVE  StoreNext
  <2> DEFINE cert == ReconciledCertainty(probe)
             new  == [effects[e] EXCEPT !.certainty = cert]
  <2>1. Log(SettledKind(cert)) /\ snap[h].effects = effects
    BY <1>5, CommitIsCurrent DEF CommitReconciled
  <2>2. cert \in EffectCertainty
    BY DEF ReconciledCertainty, EffectCertainty
  <2>3. /\ UpdateEffect(e, new) /\ effects[e].phase = "Settled"
        /\ effects[e].certainty = "UnknownOrPartial"
        /\ UNCHANGED <<cancelled, frozen, approved, grants, result>>
    BY <1>5, <2>1 DEF CommitReconciled, UpdateEffect
  <2> HIDE DEF cert
  <2>4. /\ new \in EffectEntry /\ new.op = effects[e].op
        /\ new.grant = effects[e].grant /\ new.pair = effects[e].pair
    BY <1>0, <2>2 DEF EffectEntry
  <2> HIDE DEF new
  <2>5. effects' = [effects EXCEPT ![e] = new]
    BY <2>3, <2>4, UpdateIsRowStep
  <2>6. ReconcileEffect(e, probe)
    BY <2>1, <2>3, <2>5 DEF ReconcileEffect, new, cert
  <2> QED BY <2>6 DEF StoreNext
<1> QED BY <1>1, <1>2, <1>3, <1>4, <1>5

(* The commits at a boundary of the Run *)
LEMMA BoundaryIsStoreStep ==
  ASSUME CASInv, NEW h \in Host
  PROVE  /\ CommitCheckpoint(h) => StoreNext
         /\ \A kind \in {"Paused", "Cancelled"} :
              CommitBoundary(h, kind) => StoreNext
<1>0. 0 \in Time /\ cancelled \in BOOLEAN
  BY StoreAssumption DEF Time, CASInv, StoreInv, StoreTypeOK
<1>1. ASSUME CommitCheckpoint(h) PROVE StoreNext
  <2>1. Log("Checkpointed") /\ Seen(h) = Derived
    BY <1>1, CommitIsCurrent DEF CommitCheckpoint
  <2>2. CheckpointRun
    BY <1>1, <2>1 DEF CommitCheckpoint, CheckpointRun
  <2> QED BY <1>0, <2>2 DEF StoreNext, OtherUseCase
<1>2. ASSUME CommitBoundary(h, "Paused") PROVE StoreNext
  <2>1. Log("Paused") /\ Seen(h) = Derived /\ snap[h].effects = effects
    BY <1>2, CommitIsCurrent DEF CommitBoundary
  <2>2. cancelled' = cancelled
    BY <1>0, <1>2 DEF CommitBoundary
  <2>3. PauseRun
    BY <1>2, <2>1, <2>2 DEF CommitBoundary, PauseRun, SafeBoundary
  <2> QED BY <1>0, <2>3 DEF StoreNext, OtherUseCase
<1>3. ASSUME CommitBoundary(h, "Cancelled") PROVE StoreNext
  <2>1. Log("Cancelled") /\ Seen(h) = Derived /\ snap[h].effects = effects
    BY <1>3, CommitIsCurrent DEF CommitBoundary
  <2>2. cancelled' = TRUE
    BY <1>3 DEF CommitBoundary
  <2>3. CancelRun
    BY <1>3, <2>1, <2>2 DEF CommitBoundary, CancelRun, SafeBoundary
  <2> QED BY <1>0, <2>3 DEF StoreNext, OtherUseCase
<1> QED BY <1>1, <1>2, <1>3

(* One step per way a process may step *)
LEMMA CASStep ==
  ASSUME CASInv, [CASNext]_casVars
  PROVE  CASInv' /\ [StoreNext]_storeVars
<1>0. ASSUME NEW h \in Host, NEW k, Commit(h, k), [StoreNext]_storeVars
      PROVE  CASInv' /\ [StoreNext]_storeVars
  <2>1. StoreInv'
    BY <1>0, StoreStep DEF CASInv
  <2> QED BY <1>0, <2>1, CommitStep
<1>1. CASE UNCHANGED casVars
  <2>1. UNCHANGED <<life, cancelled, frozen, approved, grants, effects, result,
                    seq, snap>>
    BY <1>1 DEF casVars, storeVars
  <2>2. StoreInv'
    BY <1>1, StoreStep DEF CASInv, casVars
  <2>3. SnapshotIsCurrent'
    BY <2>1 DEF CASInv, SnapshotIsCurrent
  <2> QED BY <1>1, <2>1, <2>2, <2>3 DEF CASInv, casVars
<1>2. ASSUME NEW h \in Host, ReadLog(h) \/ ReadRecords(h) \/ Refuse(h)
      PROVE  CASInv' /\ [StoreNext]_storeVars
  BY <1>2, ReadStep DEF ReadLog, ReadRecords, Refuse
<1>3. ASSUME NEW h \in Host, BlindCommit(h) PROVE CASInv' /\ [StoreNext]_storeVars
  BY <1>0, <1>3, BlindIsStoreStep
<1>4. ASSUME NEW h \in Host, NEW g \in GrantId, CommitRevoke(h, g) PROVE CASInv' /\ [StoreNext]_storeVars
  <2>1. \E k : Commit(h, k)
    BY <1>4 DEF CommitRevoke
  <2> QED BY <1>0, <1>4, <2>1, RevokeIsStoreStep
<1>5. ASSUME NEW h \in Host, CommitCheckpoint(h) PROVE CASInv' /\ [StoreNext]_storeVars
  <2>1. \E k : Commit(h, k)
    BY <1>5 DEF CommitCheckpoint
  <2> QED BY <1>0, <1>5, <2>1, BoundaryIsStoreStep
<1>6. ASSUME NEW h \in Host, NEW kind \in {"Paused", "Cancelled"},
             CommitBoundary(h, kind)
      PROVE  CASInv' /\ [StoreNext]_storeVars
  <2>1. \E k : Commit(h, k)
    BY <1>6 DEF CommitBoundary
  <2> QED BY <1>0, <1>6, <2>1, BoundaryIsStoreStep
<1>7. ASSUME NEW h \in Host, NEW e \in EffectId, NEW op \in Ops,
             NEW p \in frozen \cup {NoPair}, NEW g \in GrantId,
             CommitPrepare(h, e, op, p, g)
      PROVE  CASInv' /\ [StoreNext]_storeVars
  <2>1. \E k : Commit(h, k)
    BY <1>7 DEF CommitPrepare
  <2> QED BY <1>0, <1>7, <2>1, JournalIsStoreStep
<1>8. ASSUME NEW h \in Host, NEW e \in EffectId, NEW c \in Claimant,
             CommitClaim(h, e, c) \/ CommitDispatched(h, e, c)
      PROVE  CASInv' /\ [StoreNext]_storeVars
  <2>1. \E k : Commit(h, k)
    BY <1>8 DEF CommitClaim, CommitDispatched
  <2> QED BY <1>0, <1>8, <2>1, JournalIsStoreStep
<1>9. ASSUME NEW h \in Host, NEW e \in EffectId, NEW c \in Claimant,
             NEW res \in OperationResult \ {"None"},
             NEW cert \in EffectCertainty \ {"None"},
             CommitSettled(h, e, c, res, cert)
      PROVE  CASInv' /\ [StoreNext]_storeVars
  <2>1. \E k : Commit(h, k)
    BY <1>9 DEF CommitSettled
  <2> QED BY <1>0, <1>9, <2>1, JournalIsStoreStep
<1>10. ASSUME NEW h \in Host, NEW e \in EffectId, NEW probe \in Probe,
              CommitReconciled(h, e, probe)
       PROVE  CASInv' /\ [StoreNext]_storeVars
  <2>1. \E k : Commit(h, k)
    BY <1>10 DEF CommitReconciled
  <2> QED BY <1>0, <1>10, <2>1, JournalIsStoreStep
<1>11. ASSUME NEW g \in GrantId, NEW now \in Time, Consume(g, now) PROVE CASInv' /\ [StoreNext]_storeVars
  <2>1. [StoreNext]_storeVars
    BY <1>11 DEF Consume, StoreNext
  <2>2. StoreInv'
    BY <2>1, StoreStep DEF CASInv
  <2> QED BY <1>11, <2>1, <2>2, ConsumeKeepsSnapshots
<1>12. CASE CASNext
  <2>1. CASE \E g \in GrantId, now \in Time : Consume(g, now)
    BY <1>11, <2>1
  <2>2. CASE ~ \E g \in GrantId, now \in Time : Consume(g, now)
    BY <1>2, <1>3, <1>4, <1>5, <1>6, <1>7, <1>8, <1>9, <1>10, <1>12, <2>2, Zenon
       DEF CASNext
  <2> QED BY <2>1, <2>2
<1> QED BY <1>1, <1>12

---------------------------------------------------------------------------
(* sqlite/runs.rs:509: for any number of processes, the sequence number    *)
(* and what was read with it stay in step.                                 *)
THEOREM CASInvariant == CASSpec => []CASInv
<1>1. CASInit => CASInv
  <2> SUFFICES ASSUME CASInit PROVE CASInv
    OBVIOUS
  <2>1. StoreInv /\ seq = 1 /\ snap = [h \in Host |-> NoSnapshot]
    BY StoreInitInv DEF CASInit
  <2>2. snap \in [Host -> Snapshot] /\ \A h \in Host : snap[h] = NoSnapshot
    BY <2>1, NoSnapshotType
  <2>3. NoSnapshot.pc = "Idle" /\ NoSnapshot.seq = 0
    BY DEF NoSnapshot
  <2> QED BY <2>1, <2>2, <2>3 DEF CASInv, SnapshotIsCurrent
<1>2. CASInv /\ [CASNext]_casVars => CASInv'
  BY CASStep
<1> QED BY <1>1, <1>2, PTL DEF CASSpec

(* sqlite/runs.rs:509 assert_next_sequence: a process whose sequence       *)
(* number is still the next one has read the log and the journal as they   *)
(* are, although reconstruct_run is no transaction.                        *)
THEOREM SnapshotCurrent == CASSpec => []SnapshotIsCurrent
<1>1. CASInv => SnapshotIsCurrent
  BY DEF CASInv
<1> QED BY <1>1, CASInvariant, PTL

(* run_use_cases.rs: reading, deciding and committing apart, by any number *)
(* of processes, implements the atomic use cases of RunStore.              *)
THEOREM CASImplementsStore == CASSpec => ImplementsRunStore
<1>1. CASInit => StoreInit
  BY DEF CASInit
<1>2. CASInv /\ [CASNext]_casVars => [StoreNext]_storeVars
  BY CASStep
<1> QED BY <1>1, <1>2, CASInvariant, PTL DEF CASSpec, ImplementsRunStore, StoreSpec

(* run.rs:907, 2194-2254: so what holds of the atomic use cases holds of   *)
(* the interleaved ones.  The fold says Blocked only for an unknown effect *)
(* and no commit, however stale what it was decided on, moves an effect    *)
(* back.                                                                   *)
THEOREM CASKeepsJournal == CASSpec => []BlockedIsJustified /\ JournalIsForwardOnly
<1>1. StoreInv => BlockedIsJustified
  BY DEF StoreInv
<1>2. ImplementsRunStore <=> StoreSpec
  BY DEF ImplementsRunStore
<1> QED BY <1>1, <1>2, CASImplementsStore, StoreInvariant, StoreJournalForward, PTL
=============================================================================
