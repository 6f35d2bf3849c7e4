------------------------------ MODULE RunStore ------------------------------
(***************************************************************************)
(* The durable record of one Harness Run and the use cases that change it  *)
(* (crates/tule-core/src/run_use_cases.rs over the RunRepository port).    *)
(* Every use case is one atomic step here: it reads the reconstructed Run, *)
(* decides, and commits one transaction whose event must carry the next    *)
(* sequence number.  RunStoreCAS models the read and the commit apart and  *)
(* is shown to implement this module.                                      *)
(*                                                                         *)
(* A use case that returns an error leaves the record as it was, so a      *)
(* refused call is a step that is not taken.  Denials, attempts and lease  *)
(* events only append evidence and leave every variable here unchanged.    *)
(***************************************************************************)
EXTENDS RunPolicy

CONSTANTS
  MaxGrants,        \* grants that may be issued (bound)
  MaxEffects,       \* effects that may be prepared (bound)
  MaxPairs,         \* plan/graph pairs that may be frozen (bound)
  MaxTime,          \* last instant of the clock (bound)
  Scope,            \* what a grant may be scoped to
  Claimant,         \* claimant strings
  NoClaimant,       \* claimant of an unclaimed effect (Option::None)
  BootstrapTTL,     \* BOOTSTRAP_GRANT_TTL_MS, in ticks
  PostApprovalTTL   \* POST_APPROVAL_GRANT_TTL_MS, in ticks

ASSUME StoreAssumption ==
  /\ MaxGrants \in Nat /\ MaxEffects \in Nat /\ MaxPairs \in Nat
  /\ MaxTime \in Nat
  /\ BootstrapTTL \in Nat /\ PostApprovalTTL \in Nat
  /\ NoClaimant \notin Claimant

GrantId  == 1 .. MaxGrants
EffectId == 1 .. MaxEffects
PairId   == 1 .. MaxPairs
NoPair   == 0
Time     == 0 .. MaxTime

VARIABLES
  life,       \* the fold of the event log
  cancelled,  \* the log holds a Cancelled event
  frozen,     \* pairs frozen so far
  approved,   \* pairs with an approval record
  grants,     \* harness_grants
  effects,    \* harness_effects
  result      \* pair of the final work result, NoPair while there is none

storeVars == <<life, cancelled, frozen, approved, grants, effects, result>>

(* DEFAULT_DISPATCH_BUDGET *)
DispatchBudget == 1

(* CapabilityType::default_ttl_ms *)
TTL(cap) == IF cap \in {"LocalRead", "ProviderDisclose"}
            THEN BootstrapTTL ELSE PostApprovalTTL

ExpiresAt(g) == g.issued + TTL(g.cap)

GrantRecord ==
  [cap: Capability \cup {"None"}, scope: Scope \cup {"None"},
   pair: PairId \cup {NoPair}, issued: Time,
   left: 0 .. DispatchBudget, revoked: BOOLEAN]

NoGrant == [cap |-> "None", scope |-> "None", pair |-> NoPair, issued |-> 0,
            left |-> 0, revoked |-> FALSE]

EffectEntry ==
  [phase: Phase, op: Capability \cup {"None"}, grant: GrantId \cup {0},
   pair: PairId \cup {NoPair}, claimant: Claimant \cup {NoClaimant},
   result: OperationResult, certainty: EffectCertainty]

NoEffect == [phase |-> "None", op |-> "None", grant |-> 0, pair |-> NoPair,
             claimant |-> NoClaimant, result |-> "None",
             certainty |-> "None"]

Issued(g) == grants[g].cap # "None"
Used(e)   == effects[e].phase # "None"

(* The lifecycle every use case and the interface derive from the record *)
Derived == DeriveLifecycle(life, cancelled, effects)

(* Ids are fresh UUIDs; the model numbers them in the order of insertion *)
NextGrant(g)  == g \in GrantId  /\ \A k \in GrantId  : Issued(k) <=> k < g

(* Mutant: the id of an effect that exists already is given out again *)
NextEffect_Reused(e) == e \in EffectId /\ \A k \in EffectId : k < e => Used(k)

NextEffect(e) == e \in EffectId /\ \A k \in EffectId : Used(k) <=> k < e
NextPair(p)   == p \in PairId   /\ frozen = {k \in PairId : k < p}

Log(kind) == life' = FoldEvent(life, kind)

---------------------------------------------------------------------------
(* create_run: the header and its RunCreated event, in one transaction *)
StoreInit ==
  /\ life = FoldEvent("Created", "RunCreated")
  /\ cancelled = FALSE
  /\ frozen = {}
  /\ approved = {}
  /\ grants = [g \in GrantId |-> NoGrant]
  /\ effects = [e \in EffectId |-> NoEffect]
  /\ result = NoPair

(* compile_and_freeze_pair and persist_frozen_pair *)
FreezePair(p) ==
  /\ NextPair(p)
  /\ frozen' = frozen \cup {p}
  /\ Log("PairFrozen")
  /\ UNCHANGED <<cancelled, approved, grants, effects, result>>

(* approve_pair: issues no grant *)
ApprovePair(p) ==
  /\ p \in frozen
  /\ approved' = approved \cup {p}
  /\ Log("Approved")
  /\ UNCHANGED <<cancelled, frozen, grants, effects, result>>

(* issue_grant: checks neither the lifecycle nor the approval *)
IssueGrant(g, cap, scope, pair, now) ==
  /\ NextGrant(g)
  /\ grants' = [grants EXCEPT ![g] =
                  [cap |-> cap, scope |-> scope, pair |-> pair,
                   issued |-> now, left |-> DispatchBudget,
                   revoked |-> FALSE]]
  /\ Log("Progress")
  /\ UNCHANGED <<cancelled, frozen, approved, effects, result>>

(* revoke_grant.  persist_grant_revocation writes back the budget that the *)
(* use case read; consuming appends no event, so the sequence check does   *)
(* not notice one that committed in between and the write may restore it.  *)
RevokeGrant(g) ==
  /\ g \in GrantId /\ Issued(g) /\ ~ grants[g].revoked
  /\ \E stale \in grants[g].left .. DispatchBudget :
       grants' = [grants EXCEPT ![g].revoked = TRUE, ![g].left = stale]
  /\ Log("Other")
  /\ UNCHANGED <<cancelled, frozen, approved, effects, result>>

(* prepare_effect: refused only while the derived lifecycle is Blocked *)
PrepareEffect(e, op, pair, g) ==
  /\ Derived # "Blocked"
  /\ NextEffect(e) /\ Issued(g)     \* grant_id REFERENCES harness_grants
  /\ effects' = [effects EXCEPT ![e] =
                   [NoEffect EXCEPT !.phase = "Prepared", !.op = op,
                                    !.grant = g, !.pair = pair]]
  /\ Log("Progress")
  /\ UNCHANGED <<cancelled, frozen, approved, grants, result>>

(* claim_effect: a conditional update, one claimant per effect *)
ClaimEffect(e, c) ==
  /\ effects[e].phase = "Prepared" /\ effects[e].claimant = NoClaimant
  /\ effects' = [effects EXCEPT ![e] =
                   [@ EXCEPT !.phase = "Claimed", !.claimant = c]]
  /\ Log("Progress")
  /\ UNCHANGED <<cancelled, frozen, approved, grants, result>>

(* Mutants of the condition: without the budget, without the revocation *)
Consumable_Unbounded(g, now) ==
  Issued(g) /\ ~ grants[g].revoked /\ now < ExpiresAt(grants[g])
Consumable_Revoked(g, now) ==
  Issued(g) /\ now < ExpiresAt(grants[g]) /\ grants[g].left > 0

(* consume_dispatch_budget: a conditional update that appends no event *)
Consumable(g, now) ==
  Issued(g) /\ ~ grants[g].revoked /\ now < ExpiresAt(grants[g])
            /\ grants[g].left > 0

(* Mutant: the budget is tested and not decremented *)
ConsumeDispatchBudget_Uncounted(g, now) ==
  Consumable(g, now) /\ UNCHANGED storeVars

ConsumeDispatchBudget(g, now) ==
  /\ Consumable(g, now)
  /\ grants' = [grants EXCEPT ![g].left = @ - 1]
  /\ UNCHANGED <<life, cancelled, frozen, approved, effects, result>>

(* The rest of dispatch_effect: mark_dispatched, persist_effect_dispatched *)
MarkDispatched(e, c) ==
  /\ effects[e].phase = "Claimed" /\ effects[e].claimant = c
  /\ effects' = [effects EXCEPT ![e].phase = "Dispatched"]
  /\ Log("Progress")
  /\ UNCHANGED <<cancelled, frozen, approved, grants, result>>

SettleEffect(e, c, res, cert) ==
  /\ effects[e].phase = "Dispatched" /\ effects[e].claimant = c
  /\ SettleAllowed(res, cert)
  /\ effects' = [effects EXCEPT ![e] =
                   [@ EXCEPT !.phase = "Settled", !.result = res,
                             !.certainty = cert]]
  /\ Log(SettledKind(cert))
  /\ UNCHANGED <<cancelled, frozen, approved, grants, result>>

(* Mutants: a confirmed certainty is reconciled again; no event is logged *)
ReconcileEffect_Again(e, probe) ==
  /\ effects[e].phase = "Settled"
  /\ effects' = [effects EXCEPT ![e].certainty = ReconciledCertainty(probe)]
  /\ Log(SettledKind(ReconciledCertainty(probe)))
  /\ UNCHANGED <<cancelled, frozen, approved, grants, result>>
ReconcileEffect_Unlogged(e, probe) ==
  /\ effects[e].phase = "Settled"
  /\ effects[e].certainty = "UnknownOrPartial"
  /\ effects' = [effects EXCEPT ![e].certainty = ReconciledCertainty(probe)]
  /\ UNCHANGED <<life, cancelled, frozen, approved, grants, result>>

(* reconcile_effect: positive evidence replaces an unknown certainty *)
ReconcileEffect(e, probe) ==
  /\ effects[e].phase = "Settled"
  /\ effects[e].certainty = "UnknownOrPartial"
  /\ effects' = [effects EXCEPT ![e].certainty = ReconciledCertainty(probe)]
  /\ Log(SettledKind(ReconciledCertainty(probe)))
  /\ UNCHANGED <<cancelled, frozen, approved, grants, result>>

(* checkpoint_run *)
CheckpointRun ==
  /\ IsQuiescent(effects) /\ Derived # "Blocked"
  /\ Log("Checkpointed")
  /\ UNCHANGED <<cancelled, frozen, approved, grants, effects, result>>

(* validate_native_structural: records the outcome, refuses nothing *)
ValidateRun ==
  /\ Log("Validated")
  /\ UNCHANGED <<cancelled, frozen, approved, grants, effects, result>>

(* complete_run: one final result per Run (its table's primary key) *)
CompleteRun(p) ==
  /\ p \in frozen /\ result = NoPair
  /\ result' = p
  /\ Log("Completed")
  /\ UNCHANGED <<cancelled, frozen, approved, grants, effects>>

(* The safe boundary that pause_run and cancel_run require *)
SafeBoundary ==
  ~ IsTerminal(Derived) /\ Derived # "Blocked" /\ IsQuiescent(effects)

PauseRun ==
  /\ SafeBoundary
  /\ Log("Paused")
  /\ UNCHANGED <<cancelled, frozen, approved, grants, effects, result>>

CancelRun ==
  /\ SafeBoundary
  /\ cancelled' = TRUE
  /\ Log("Cancelled")
  /\ UNCHANGED <<frozen, approved, grants, effects, result>>

---------------------------------------------------------------------------
(* The use cases that change a Run without touching its effects or its     *)
(* dispatch budgets, by any caller in any order.                           *)
OtherUseCase(ops, now) ==
  \/ \E p \in PairId : FreezePair(p) \/ ApprovePair(p) \/ CompleteRun(p)
  \/ \E g \in GrantId, cap \in ops, s \in Scope,
        p \in frozen \cup {NoPair} : IssueGrant(g, cap, s, p, now)
  \/ \E g \in GrantId : RevokeGrant(g)
  \/ CheckpointRun \/ ValidateRun \/ PauseRun \/ CancelRun

StoreNext ==
  \/ \E now \in Time : OtherUseCase(Capability, now)
  \/ \E e \in EffectId, probe \in Probe : ReconcileEffect(e, probe)
  \/ \E e \in EffectId, op \in Capability, p \in frozen \cup {NoPair},
        g \in GrantId : PrepareEffect(e, op, p, g)
  \/ \E e \in EffectId, c \in Claimant : ClaimEffect(e, c)
  \/ \E g \in GrantId, now \in Time : ConsumeDispatchBudget(g, now)
  \/ \E e \in EffectId, c \in Claimant : MarkDispatched(e, c)
  \/ \E e \in EffectId, c \in Claimant,
        res \in OperationResult \ {"None"},
        cert \in EffectCertainty \ {"None"} : SettleEffect(e, c, res, cert)

StoreSpec == StoreInit /\ [][StoreNext]_storeVars

---------------------------------------------------------------------------
(* The type of the durable record. *)
StoreTypeOK ==
  /\ life \in Lifecycle
  /\ cancelled \in BOOLEAN
  /\ frozen \subseteq PairId
  /\ approved \subseteq frozen
  /\ grants \in [GrantId -> GrantRecord]
  /\ effects \in [EffectId -> EffectEntry]
  /\ result \in PairId \cup {NoPair}

(* The effect rows the handshake can leave: certainty exactly when settled, *)
(* a claimant exactly from the claim on.                                    *)
JournalShape ==
  \A e \in EffectId :
    /\ effects[e].phase = "Settled" <=> effects[e].certainty # "None"
    /\ effects[e].phase \in {"None", "Prepared"}
         <=> effects[e].claimant = NoClaimant

(* run.rs:907 derive_lifecycle: the log's fold says Blocked only while an  *)
(* effect of the journal is still unknown, so reconciling the last unknown *)
(* effect always unblocks the Run.                                         *)
BlockedIsJustified ==
  life = "Blocked" =>
    \E e \in EffectId : effects[e].certainty = "UnknownOrPartial"

(* run.rs:2194 claim, 2212 mark_dispatched, 2225 settle, 2254 reconcile:   *)
(* an effect goes through its phases in order and never back, keeps its    *)
(* grant, pair and claimant, and its certainty is final once confirmed.    *)
EffectStep(old, new) ==
  \/ new = old
  \/ /\ <<old.phase, new.phase>> \in
          {<<"None", "Prepared">>, <<"Prepared", "Claimed">>,
           <<"Claimed", "Dispatched">>, <<"Dispatched", "Settled">>}
     /\ old.phase # "None" =>
          (new.op = old.op /\ new.grant = old.grant /\ new.pair = old.pair)
     /\ old.claimant # NoClaimant => new.claimant = old.claimant
  \/ /\ old.phase = "Settled" /\ old.certainty = "UnknownOrPartial"
     /\ new = [old EXCEPT !.certainty = new.certainty]

JournalIsForwardOnly ==
  [][\A e \in EffectId : EffectStep(effects[e], effects'[e])]_storeVars
=============================================================================
