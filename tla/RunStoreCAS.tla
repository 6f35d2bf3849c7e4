---------------------------- MODULE RunStoreCAS ----------------------------
(***************************************************************************)
(* The use cases of RunStore as the code runs them: a use case first reads *)
(* the Run with reconstruct_run, decides on what it read, and then commits *)
(* one transaction (apps/desktop/src-tauri/src/sqlite/runs.rs).            *)
(*                                                                         *)
(* reconstruct_run is not a transaction: the event log is selected first   *)
(* and the records after it, so another process may commit in between.     *)
(* Every transaction but one carries an event whose sequence number must   *)
(* be MAX(sequence) + 1 (assert_next_sequence), which is what makes        *)
(* read-decide-commit behave like one atomic step.  The exception is       *)
(* consume_dispatch_budget, which appends no event.                        *)
(*                                                                         *)
(* The refinement is the identity: RunStore's variables are the tables.    *)
(***************************************************************************)
EXTENDS RunStore

CONSTANTS
  Host,     \* processes with a connection to the database
  Ops,      \* capabilities that callers use
  MaxSeq    \* events that may be appended (bound)

ASSUME CASAssumption == MaxSeq \in Nat /\ Ops \subseteq Capability

VARIABLES
  seq,      \* MAX(sequence) of harness_run_events
  snap      \* what each process has read of the Run, and how far

casVars == <<storeVars, seq, snap>>

NoSnapshot ==
  [pc |-> "Idle", seq |-> 0, life |-> "Created", cancelled |-> FALSE,
   grants |-> [g \in GrantId |-> NoGrant],
   effects |-> [e \in EffectId |-> NoEffect]]

CASInit ==
  /\ StoreInit
  /\ seq = 1                    \* create_run appended RunCreated
  /\ snap = [h \in Host |-> NoSnapshot]

---------------------------------------------------------------------------
(* reconstruct_run, first half: load_events *)
ReadLog(h) ==
  /\ snap[h].pc = "Idle"
  /\ snap' = [snap EXCEPT ![h] =
                [@ EXCEPT !.pc = "Logged", !.seq = seq, !.life = life,
                          !.cancelled = cancelled]]
  /\ UNCHANGED <<storeVars, seq>>

(* Mutant: the sequence number is taken when the records are read *)
ReadRecords_Late(h) ==
  /\ snap[h].pc = "Logged"
  /\ snap' = [snap EXCEPT ![h] =
                [@ EXCEPT !.pc = "Read", !.grants = grants,
                          !.effects = effects, !.seq = seq]]
  /\ UNCHANGED <<storeVars, seq>>

(* reconstruct_run, second half: load_plans ... load_grants, load_effects *)
ReadRecords(h) ==
  /\ snap[h].pc = "Logged"
  /\ snap' = [snap EXCEPT ![h] =
                [@ EXCEPT !.pc = "Read", !.grants = grants,
                          !.effects = effects]]
  /\ UNCHANGED <<storeVars, seq>>

(* The use case refuses, or its transaction does: nothing is written *)
Refuse(h) ==
  /\ snap[h].pc # "Idle"
  /\ snap' = [snap EXCEPT ![h] = NoSnapshot]
  /\ UNCHANGED <<storeVars, seq>>

(* Mutant: the sequence number is not compared *)
Commit_Unchecked(h, kind) ==
  /\ snap[h].pc = "Read"
  /\ seq < MaxSeq
  /\ seq' = seq + 1
  /\ snap' = [snap EXCEPT ![h] = NoSnapshot]
  /\ Log(kind)

(* assert_next_sequence and insert_event, on the sequence number computed  *)
(* by next_sequence from the log that was read                             *)
Commit(h, kind) ==
  /\ snap[h].pc = "Read"
  /\ snap[h].seq + 1 = seq + 1
  /\ seq < MaxSeq
  /\ seq' = seq + 1
  /\ snap' = [snap EXCEPT ![h] = NoSnapshot]
  /\ Log(kind)

(* The lifecycle the use case derived from what it read *)
Seen(h) == DeriveLifecycle(snap[h].life, snap[h].cancelled, snap[h].effects)

(* Use cases whose transaction depends on nothing that was read but the    *)
(* sequence number.                                                        *)
BlindCommit(h) ==
  \/ /\ \E p \in PairId : NextPair(p) /\ frozen' = frozen \cup {p}
     /\ Commit(h, "PairFrozen")
     /\ UNCHANGED <<cancelled, approved, grants, effects, result>>
  \/ /\ \E p \in frozen : approved' = approved \cup {p}
     /\ Commit(h, "Approved")
     /\ UNCHANGED <<cancelled, frozen, grants, effects, result>>
  \/ /\ \E g \in GrantId, cap \in Ops, s \in Scope,
           p \in frozen \cup {NoPair}, now \in Time :
          /\ NextGrant(g)
          /\ grants' = [grants EXCEPT ![g] =
                          [cap |-> cap, scope |-> s, pair |-> p,
                           issued |-> now, left |-> DispatchBudget,
                           revoked |-> FALSE]]
     /\ Commit(h, "Progress")
     /\ UNCHANGED <<cancelled, frozen, approved, effects, result>>
  \/ /\ Commit(h, "Validated")
     /\ UNCHANGED <<cancelled, frozen, approved, grants, effects, result>>
  \/ /\ Commit(h, "Other")      \* record_denial, the lease use cases
     /\ UNCHANGED <<cancelled, frozen, approved, grants, effects, result>>
  \/ /\ result = NoPair /\ \E p \in frozen : result' = p
     /\ Commit(h, "Completed")
     /\ UNCHANGED <<cancelled, frozen, approved, grants, effects>>

(* revoke_grant writes back the budget it read *)
CommitRevoke(h, g) ==
  /\ snap[h].grants[g].cap # "None" /\ ~ snap[h].grants[g].revoked
  /\ Commit(h, "Other")
  /\ grants' = [grants EXCEPT ![g].revoked = TRUE,
                              ![g].left = snap[h].grants[g].left]
  /\ UNCHANGED <<cancelled, frozen, approved, effects, result>>

(* prepare_effect decides on the lifecycle it read *)
CommitPrepare(h, e, op, pair, g) ==
  /\ Seen(h) # "Blocked"
  /\ NextEffect(e) /\ Issued(g)
  /\ Commit(h, "Progress")
  /\ effects' = [effects EXCEPT ![e] =
                   [NoEffect EXCEPT !.phase = "Prepared", !.op = op,
                                    !.grant = g, !.pair = pair]]
  /\ UNCHANGED <<cancelled, frozen, approved, grants, result>>

(* claim_effect: UPDATE ... WHERE phase = 'prepared' AND claimant IS NULL *)
CommitClaim(h, e, c) ==
  /\ effects[e].phase = "Prepared" /\ effects[e].claimant = NoClaimant
  /\ Commit(h, "Progress")
  /\ effects' = [effects EXCEPT ![e] =
                   [@ EXCEPT !.phase = "Claimed", !.claimant = c]]
  /\ UNCHANGED <<cancelled, frozen, approved, grants, result>>

(* update_effect: the row is overwritten with the entry that was read and  *)
(* changed in memory, without a condition                                  *)
UpdateEffect(e, entry) ==
  /\ effects' = [effects EXCEPT ![e] =
                   [@ EXCEPT !.phase = entry.phase,
                             !.claimant = entry.claimant,
                             !.result = entry.result,
                             !.certainty = entry.certainty]]
  /\ UNCHANGED <<cancelled, frozen, approved, grants, result>>

CommitDispatched(h, e, c) ==
  LET old == snap[h].effects[e] IN
    /\ old.phase = "Claimed" /\ old.claimant = c
    /\ Commit(h, "Progress")
    /\ UpdateEffect(e, [old EXCEPT !.phase = "Dispatched"])

CommitSettled(h, e, c, res, cert) ==
  LET old == snap[h].effects[e] IN
    /\ old.phase = "Dispatched" /\ old.claimant = c
    /\ SettleAllowed(res, cert)
    /\ Commit(h, SettledKind(cert))
    /\ UpdateEffect(e, [old EXCEPT !.phase = "Settled", !.result = res,
                                   !.certainty = cert])

CommitReconciled(h, e, probe) ==
  LET old == snap[h].effects[e] IN
    /\ old.phase = "Settled" /\ old.certainty = "UnknownOrPartial"
    /\ Commit(h, SettledKind(ReconciledCertainty(probe)))
    /\ UpdateEffect(e, [old EXCEPT !.certainty = ReconciledCertainty(probe)])

(* consume_dispatch_budget: no read, no event, a conditional update *)
Consume(g, now) ==
  /\ ConsumeDispatchBudget(g, now)
  /\ UNCHANGED <<seq, snap>>

(* checkpoint_run decides on what it read, and its transaction tests       *)
(* quiescence once more                                                    *)
CommitCheckpoint(h) ==
  /\ IsQuiescent(snap[h].effects) /\ Seen(h) # "Blocked"
  /\ IsQuiescent(effects)
  /\ Commit(h, "Checkpointed")
  /\ UNCHANGED <<cancelled, frozen, approved, grants, effects, result>>

(* pause_run and cancel_run *)
CommitBoundary(h, kind) ==
  /\ ~ IsTerminal(Seen(h)) /\ Seen(h) # "Blocked"
  /\ IsQuiescent(snap[h].effects)
  /\ Commit(h, kind)
  /\ cancelled' = (cancelled \/ kind = "Cancelled")
  /\ UNCHANGED <<frozen, approved, grants, effects, result>>

---------------------------------------------------------------------------
CASNext ==
  \/ \E h \in Host :
       \/ ReadLog(h) \/ ReadRecords(h) \/ Refuse(h)
       \/ BlindCommit(h) \/ CommitCheckpoint(h)
       \/ \E g \in GrantId : CommitRevoke(h, g)
       \/ \E kind \in {"Paused", "Cancelled"} : CommitBoundary(h, kind)
       \/ \E e \in EffectId, op \in Ops, p \in frozen \cup {NoPair},
             g \in GrantId : CommitPrepare(h, e, op, p, g)
       \/ \E e \in EffectId, c \in Claimant :
            \/ CommitClaim(h, e, c)
            \/ CommitDispatched(h, e, c)
            \/ \E res \in OperationResult \ {"None"},
                  cert \in EffectCertainty \ {"None"} :
                 CommitSettled(h, e, c, res, cert)
       \/ \E e \in EffectId, probe \in Probe : CommitReconciled(h, e, probe)
  \/ \E g \in GrantId, now \in Time : Consume(g, now)

CASSpec == CASInit /\ [][CASNext]_casVars

---------------------------------------------------------------------------
(* Two records that differ at most in the budget, which consuming changes  *)
(* without an event                                                        *)
SameGrant(a, b) == [a EXCEPT !.left = 0] = [b EXCEPT !.left = 0]

(* sqlite/runs.rs:509 assert_next_sequence: a process whose sequence       *)
(* number is still the next one has read the current log and journal, torn *)
(* read or not; only a budget may have been consumed meanwhile.            *)
SnapshotIsCurrent ==
  \A h \in Host : snap[h].pc # "Idle" /\ snap[h].seq = seq =>
    /\ snap[h].life = life /\ snap[h].cancelled = cancelled
    /\ snap[h].pc = "Read" =>
         /\ snap[h].effects = effects
         /\ \A g \in GrantId :
              /\ SameGrant(snap[h].grants[g], grants[g])
              /\ snap[h].grants[g].left >= grants[g].left

(* run_use_cases.rs: reading, deciding and committing apart, by several    *)
(* processes, looks like the atomic use cases of RunStore.                 *)
ImplementsRunStore == StoreSpec
=============================================================================
