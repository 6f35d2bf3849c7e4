--------------------------- MODULE OperationBroker ---------------------------
(***************************************************************************)
(* The operation broker (apps/desktop/src-tauri/src/operation_broker.rs):  *)
(* the handshake that every local read, provider disclosure, replacement   *)
(* and native inspection of a Harness Run goes through                     *)
(*                                                                         *)
(*   ensure_grant - prepare - claim - consume budget - mark dispatched     *)
(*     - the operation itself - settle                                     *)
(*                                                                         *)
(* run by several processes on one durable Run (the application does not   *)
(* prevent a second instance on the same database).  Each line of the      *)
(* handshake is one store call, so other processes' use cases, a failed    *)
(* store call or the end of the process may come between any two.  The     *)
(* callers are free here: any process may present any grant it has found   *)
(* with any request.  HarnessRun restricts them to the host's commands.    *)
(***************************************************************************)
EXTENDS RunStore

CONSTANTS
  Proc,     \* application processes
  Ops       \* capabilities that callers use (all four, or fewer in a run)

ASSUME BrokerAssumption == Ops \subseteq Capability

VARIABLES
  clock,       \* wall clock, in ticks
  call,        \* the broker call each process is in
  performed,   \* history: the effect reached the file system or provider
  spentBy      \* history: the effect for which a grant's budget was consumed

brokerVars == <<clock, call, performed, spentBy>>
vars == <<storeVars, brokerVars>>

(* operation_broker.rs: one claimant string for every process *)
CLAIMANT == "operation-broker"

ASSUME ClaimantAssumption == CLAIMANT \in Claimant /\ NoClaimant # CLAIMANT

CallPc == {"Idle", "Found", "Ensured", "Prepared", "Claimed", "Consumed",
           "Dispatched", "Performed", "Errored", "Done", "Failed"}

(* A call holds its request, its `now' captured by the command, and the    *)
(* grant record as it was when the caller loaded it (`seen').              *)
CallRecord ==
  [pc: CallPc, op: Capability \cup {"None"}, grant: GrantId \cup {0},
   scope: Scope \cup {"None"}, pair: PairId \cup {NoPair}, now: Time,
   seen: GrantRecord, effect: EffectId \cup {0}]

NoCall == [pc |-> "Idle", op |-> "None", grant |-> 0, scope |-> "None",
           pair |-> NoPair, now |-> 0, seen |-> NoGrant, effect |-> 0]

GoTo(p, pc) == call' = [call EXCEPT ![p].pc = pc]

(* Mutant: an error of the broker is dropped *)
Finish_Ok(p, pc) == call' = [call EXCEPT ![p] = [NoCall EXCEPT !.pc = "Done"]]

(* The call returns to its caller: Ok is "Done", any error is "Failed" *)
Finish(p, pc) == call' = [call EXCEPT ![p] = [NoCall EXCEPT !.pc = pc]]

BrokerInit ==
  /\ clock = 0
  /\ call = [p \in Proc |-> NoCall]
  /\ performed = [e \in EffectId |-> FALSE]
  /\ spentBy = [g \in GrantId |-> 0]

---------------------------------------------------------------------------
(* A process calls the broker with a captured time and a grant record:     *)
(* `seen' is loaded from the store (find_grant) or is the record that      *)
(* issue_grant returned.                                                   *)
AsIssued(g) == [grants[g] EXCEPT !.left = DispatchBudget, !.revoked = FALSE]

CallBroker(p, op, g, seen, scope, pair, now) ==
  /\ call[p].pc = "Idle" /\ Issued(g) /\ now <= clock
  /\ call' = [call EXCEPT ![p] =
                [pc |-> "Found", op |-> op, grant |-> g, scope |-> scope,
                 pair |-> pair, now |-> now, seen |-> seen, effect |-> 0]]
  /\ UNCHANGED <<storeVars, clock, performed, spentBy>>

(* ensure_grant and require_grant, on the record the caller loaded.  A     *)
(* denial is recorded and ends the call.                                   *)
EnsureGrant(p) ==
  /\ call[p].pc = "Found"
  /\ LET c == call[p] IN
       IF GrantAllows(c.seen, ExpiresAt(c.seen), c.op, c.scope, c.pair, c.now)
       THEN call' = [call EXCEPT ![p] =
                       [@ EXCEPT !.pc = "Ensured", !.seen = NoGrant]]
       ELSE Finish(p, "Failed")
  /\ UNCHANGED <<storeVars, clock, performed, spentBy>>

Prepare(p) ==
  /\ call[p].pc = "Ensured"
  /\ \E e \in EffectId :
       /\ PrepareEffect(e, call[p].op, call[p].pair, call[p].grant)
       /\ call' = [call EXCEPT ![p] =
                     [@ EXCEPT !.pc = "Prepared", !.effect = e]]
  /\ UNCHANGED <<clock, performed, spentBy>>

Claim(p) ==
  /\ call[p].pc = "Prepared"
  /\ ClaimEffect(call[p].effect, CLAIMANT)
  /\ GoTo(p, "Claimed")
  /\ UNCHANGED <<clock, performed, spentBy>>

(* dispatch_effect, first transaction: the budget of the current record *)
Consume(p) ==
  /\ call[p].pc = "Claimed"
  /\ ConsumeDispatchBudget(call[p].grant, call[p].now)
  /\ GoTo(p, "Consumed")
  /\ spentBy' = [spentBy EXCEPT ![call[p].grant] = call[p].effect]
  /\ UNCHANGED <<clock, performed>>

(* HarnessGrantDenied: the effect stays Claimed *)
ConsumeDenied(p) ==
  /\ call[p].pc = "Claimed"
  /\ ~ Consumable(call[p].grant, call[p].now)
  /\ Finish(p, "Failed")
  /\ UNCHANGED <<storeVars, clock, performed, spentBy>>

(* dispatch_effect, second transaction *)
Dispatch(p) ==
  /\ call[p].pc = "Consumed"
  /\ MarkDispatched(call[p].effect, CLAIMANT)
  /\ GoTo(p, "Dispatched")
  /\ UNCHANGED <<clock, performed, spentBy>>

(* Mutant: the operation is performed before its dispatch is durable *)
Perform_Early(p) ==
  /\ call[p].pc \in {"Consumed", "Dispatched"}
  /\ performed' = [performed EXCEPT ![call[p].effect] = TRUE]
  /\ GoTo(p, IF call[p].pc = "Consumed" THEN "Consumed" ELSE "Performed")
  /\ UNCHANGED <<storeVars, clock, spentBy>>

(* The read, the disclosure, the replacement or the inspection *)
Perform(p) ==
  /\ call[p].pc = "Dispatched"
  /\ performed' = [performed EXCEPT ![call[p].effect] = TRUE]
  /\ GoTo(p, "Performed")
  /\ UNCHANGED <<storeVars, clock, spentBy>>

(* The operation returns an error, having happened or not.  Only           *)
(* create_or_replace settles it; the others return with the effect         *)
(* Dispatched.                                                             *)
PerformError(p) ==
  /\ call[p].pc = "Dispatched"
  /\ \E happened \in BOOLEAN :
       performed' = [performed EXCEPT ![call[p].effect] = happened]
  /\ IF call[p].op = "CreateOrReplace"
     THEN GoTo(p, "Errored") ELSE Finish(p, "Failed")
  /\ UNCHANGED <<storeVars, clock, spentBy>>

SettleSuccess(p) ==
  /\ call[p].pc = "Performed"
  /\ SettleEffect(call[p].effect, CLAIMANT, "Success", "ConfirmedCommitted")
  /\ Finish(p, "Done")
  /\ UNCHANGED <<clock, performed, spentBy>>

SettleError(p) ==
  /\ call[p].pc = "Errored"
  /\ SettleEffect(call[p].effect, CLAIMANT, "Error", "UnknownOrPartial")
  /\ Finish(p, "Failed")
  /\ UNCHANGED <<clock, performed, spentBy>>

(* A store call fails or its sequence number is stale, the Run is Blocked  *)
(* at the prepare, a path does not resolve, or a fault point trips: the    *)
(* call stops where it is.                                                 *)
Fail(p) ==
  /\ call[p].pc \notin {"Idle", "Done", "Failed"}
  /\ Finish(p, "Failed")
  /\ UNCHANGED <<storeVars, clock, performed, spentBy>>

Return(p) ==
  /\ call[p].pc \in {"Done", "Failed"}
  /\ call' = [call EXCEPT ![p] = NoCall]
  /\ UNCHANGED <<storeVars, clock, performed, spentBy>>

(* The process ends in the middle of a call: what it wrote stays *)
EndProcess(p) ==
  /\ call[p].pc # "Idle"
  /\ call' = [call EXCEPT ![p] = NoCall]
  /\ UNCHANGED <<storeVars, clock, performed, spentBy>>

(* One step of the handshake *)
Handshake(p) ==
  \/ EnsureGrant(p) \/ Prepare(p) \/ Claim(p)
  \/ Consume(p) \/ ConsumeDenied(p) \/ Dispatch(p)
  \/ Perform(p) \/ PerformError(p) \/ SettleSuccess(p) \/ SettleError(p)
  \/ Fail(p)

(* reconcile_effect with a probe of the target, which tells the truth: the *)
(* host has no such command, the core use case is there for one.           *)
Reconcile(e, probe) ==
  /\ probe = "MatchesPostimage" => performed[e]
  /\ probe = "MatchesPreimage" => ~ performed[e]
  /\ ReconcileEffect(e, probe)
  /\ UNCHANGED brokerVars

Tick ==
  /\ clock < MaxTime
  /\ clock' = clock + 1
  /\ UNCHANGED <<storeVars, call, performed, spentBy>>

Init == StoreInit /\ BrokerInit

Next ==
  \/ \E p \in Proc : Handshake(p) \/ Return(p) \/ EndProcess(p)
  \/ Tick
  \/ \E p \in Proc, g \in GrantId : \E seen \in {grants[g], AsIssued(g)},
        op \in Ops, s \in Scope, pr \in frozen \cup {NoPair}, now \in Time :
       CallBroker(p, op, g, seen, s, pr, now)
  \/ \E now \in Time : now <= clock /\ OtherUseCase(Ops, now)
                       /\ UNCHANGED brokerVars
  \/ \E e \in EffectId, probe \in Probe : Reconcile(e, probe)

Spec == Init /\ [][Next]_vars

---------------------------------------------------------------------------
(* The type of the durable record and of the broker calls. *)
TypeOK ==
  /\ StoreTypeOK
  /\ clock \in Time
  /\ call \in [Proc -> CallRecord]
  /\ performed \in [EffectId -> BOOLEAN]
  /\ spentBy \in [GrantId -> EffectId \cup {0}]

(* docs/architecture.md:239, operation_broker.rs:495: an effect reaches    *)
(* the file system or the provider only after its dispatch is durable,     *)
(* under an issued grant of its own capability, bound to its own pair, and *)
(* whose budget was consumed for this very effect.                         *)
EveryEffectIsAuthorised ==
  \A e \in EffectId : performed[e] =>
    /\ effects[e].phase \in {"Dispatched", "Settled"}
    /\ LET g == effects[e].grant IN
         /\ g \in GrantId
         /\ spentBy[g] = e
         /\ grants[g].cap = effects[e].op
         /\ grants[g].pair = effects[e].pair

(* capability.rs:19, sqlite/runs.rs:305: the budget of one grant lets one  *)
(* effect through, whatever calls share the grant and however a revocation *)
(* races with them.                                                        *)
OneEffectPerGrant ==
  \A e, f \in EffectId :
    performed[e] /\ performed[f] /\ effects[e].grant = effects[f].grant
      => e = f

(* run.rs:639 EffectCertainty: a confirmed certainty is true of the world: *)
(* committed effects happened, no-effect ones did not.                     *)
CertaintyIsTruthful ==
  \A e \in EffectId :
    /\ effects[e].certainty = "ConfirmedCommitted" => performed[e]
    /\ effects[e].certainty = "ConfirmedNoEffect" => ~ performed[e]

(* run.rs:907: while some effect may have happened and no certainty is     *)
(* recorded, the Run never shows as progressing or completed.              *)
NoSilentEffect ==
  (\E e \in EffectId : performed[e] /\ effects[e].certainty = "None")
    => Derived \in {"Blocked", "Cancelled"}

(* operation_broker.rs:28: all processes claim under one name, so the      *)
(* claimant check cannot tell them apart; still no two calls ever work on  *)
(* one effect, and no call works on a settled one.                         *)
CallsDoNotShareEffects ==
  \A p \in Proc : call[p].effect # 0 =>
    /\ \A q \in Proc : call[q].effect = call[p].effect => p = q
    /\ effects[call[p].effect].phase # "Settled"

(* The strengthening that makes the safety invariants inductive: what a    *)
(* call at each step of the handshake knows of the durable record that     *)
(* other processes change meanwhile.                                       *)
CallKnows(p) ==
  LET c == call[p] IN
    /\ c.effect = 0 <=> c.pc \in {"Idle", "Found", "Ensured", "Done", "Failed"}
    /\ c.pc = "Found" =>
         /\ c.grant \in GrantId /\ c.op # "None" /\ Issued(c.grant)
         /\ c.seen.cap = grants[c.grant].cap
         /\ c.seen.pair = grants[c.grant].pair
    /\ c.pc = "Ensured" \/ c.effect # 0 =>
         /\ c.grant \in GrantId /\ c.op # "None"
         /\ grants[c.grant].cap = c.op
         /\ grants[c.grant].pair = c.pair
    /\ c.effect # 0 =>
         /\ effects[c.effect].op = c.op
         /\ effects[c.effect].grant = c.grant
         /\ effects[c.effect].pair = c.pair
    /\ c.pc = "Prepared" => effects[c.effect].phase = "Prepared"
    /\ c.pc \in {"Claimed", "Consumed"} =>
         effects[c.effect].phase = "Claimed"
    /\ c.pc \in {"Dispatched", "Performed", "Errored"} =>
         effects[c.effect].phase = "Dispatched"
    /\ c.pc \in {"Consumed", "Dispatched", "Performed", "Errored"} =>
         spentBy[c.grant] = c.effect
    /\ c.pc = "Performed" => performed[c.effect]

(* A grant that can still be consumed has let no effect through *)
BudgetIsExact ==
  \A g \in GrantId :
    /\ spentBy[g] # 0 => Issued(g) /\ (grants[g].revoked \/ grants[g].left = 0)
    /\ grants[g].revoked => Issued(g)

BrokerInv ==
  /\ TypeOK
  /\ JournalShape
  /\ \A p \in Proc : CallKnows(p)
  /\ CallsDoNotShareEffects
  /\ BudgetIsExact
  /\ EveryEffectIsAuthorised
  /\ CertaintyIsTruthful

(* A step on a revoked grant: it stays revoked and lets nothing through *)
RevokedStays ==
  \A g \in GrantId : grants[g].revoked =>
    grants'[g].revoked /\ spentBy'[g] = spentBy[g]

(* capability.rs:487 revoke: once a revocation is durable no further call  *)
(* gets through the grant, not even one whose ensure_grant allowed it      *)
(* before the revocation.                                                  *)
RevocationIsFinal == [][RevokedStays]_vars
=============================================================================
