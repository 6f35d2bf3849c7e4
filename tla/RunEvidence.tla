---------------------------- MODULE RunEvidence ----------------------------
(***************************************************************************)
(* The evidence of one Run: what every use case of run_use_cases.rs makes  *)
(* in memory, the columns it is written to, and reconstruct_run, which     *)
(* reads it all back (apps/desktop/src-tauri/src/sqlite/runs.rs).  One     *)
(* record that cannot be read makes the whole Run unreadable, and a record *)
(* that reads back differently changes every later decision.               *)
(*                                                                         *)
(* A table is a function from ids to rows; an optional row is a sequence   *)
(* of at most one.  Identifiers are opaque texts.  A time is the number of *)
(* the event it goes with and 0 stands for NULL, so that columns differ.   *)
(* The use cases run one at a time here; RunStoreCAS interleaves them.     *)
(***************************************************************************)
EXTENDS RunRecords

CONSTANTS
  Wording,     \* texts an owner may give as instructions or model id
  MaxEvents,   \* events of the log (bound)
  MaxFrozen    \* pairs that are frozen (bound)

ASSUME EvidenceAssumption ==
  /\ MaxEvents \in Nat /\ MaxFrozen \in Nat
  /\ \A t \in Wording : t \in Seq(STRING) /\ t # <<>>

VARIABLES
  db,          \* the harness_* tables
  kept         \* the same records as the use cases returned them (history)

evidenceVars == <<db, kept>>

Id(what, n) == <<what, ToString(n)>>

(* The clock, and the durations in its ticks *)
Now == Len(db.events) + 1
GrantDuration(cap) ==
  IF cap \in {"LocalRead", "ProviderDisclose"} THEN 5 * MaxEvents
  ELSE 15 * MaxEvents
LeaseDuration == 2

Target   == <<"index.html">>
Claiming == <<"operation-broker">>
Profile  == <<"xai-subscription-oauth">>
Revision == <<"tule-execution-policy-v1">>
Label    == <<"native structural validation">>

---------------------------------------------------------------------------
(* Rows, and the records read from them.                                   *)

(* insert_event *)
EventRow(event) == [event EXCEPT !.kind = EventKindToParts(@)]

(* ORDER BY sequence ASC: the k-th row has k - 1 rows before it *)
BySequence(rows) ==
  [k \in DOMAIN rows |->
     rows[CHOOSE i \in DOMAIN rows :
            Cardinality({j \in DOMAIN rows : rows[j].seq < rows[i].seq}) = k - 1]]

(* load_events, RunEvent::from_stored_parts *)
LoadEvents ==
  LET rows == BySequence(db.events)
  IN  [i \in DOMAIN rows |-> [rows[i] EXCEPT !.kind = EventKindFromParts(@)]]

(* load_run *)
LoadRun == [db.run EXCEPT !.cohort = CohortFromJson(@)]

(* persist_frozen_pair *)
GraphRow(graph) ==
  [graph EXCEPT !.nodes = NodesToJson(@), !.edges = EdgesToJson(@)]

(* load_graphs *)
LoadGraphs ==
  [id \in DOMAIN db.graphs |->
     [db.graphs[id] EXCEPT !.nodes = NodesFromJson(@),
                           !.edges = EdgesFromJson(@)]]

(* load_replacements: every column is a text *)
LoadReplacements == db.replacements

(* persist_frozen_pair: the plan's row holds the replacement's id *)
PlanRow(plan) ==
  [c \in (DOMAIN plan \ {"replacement"}) \cup {"replacement_id"} |->
     CASE c = "replacement_id" -> plan.replacement.id
       [] c = "envelope" -> EnvelopeToJson(plan.envelope)
       [] OTHER -> plan[c]]

(* load_plans: INNER JOIN harness_replacements *)
LoadPlans ==
  [id \in {p \in DOMAIN db.plans :
             db.plans[p].replacement_id \in DOMAIN db.replacements} |->
     LET row == db.plans[id]
     IN  [c \in (DOMAIN row \ {"replacement_id"}) \cup {"replacement"} |->
            CASE c = "replacement" -> db.replacements[row.replacement_id]
              [] c = "envelope" -> EnvelopeFromJson(row.envelope)
              [] OTHER -> row[c]]]

(* load_approvals *)
LoadApprovals == db.approvals

(* insert_grant *)
GrantRow(grant) ==
  [grant EXCEPT !.cap = CapabilityText[@], !.resource = ResourceToJson(@),
                !.scope = ActionScopeToJson(@), !.repeatable = Bit(@)]

(* load_grant: half a pair, or more budget left than given, is malformed *)
LoadGrant(id) ==
  LET row == db.grants[id]
  IN  [row EXCEPT !.cap = IF /\ (row.plan = NULL) = (row.graph = NULL)
                             /\ row.left <= row.budget
                          THEN ParseCapability(@) ELSE "malformed",
                  !.resource = ResourceFromJson(@),
                  !.scope = ActionScopeFromJson(@), !.repeatable = (@ # 0)]

(* load_grants *)
LoadGrants == [id \in DOMAIN db.grants |-> LoadGrant(id)]

(* insert_effect *)
EffectRow(effect) ==
  [effect EXCEPT !.phase = PhaseText[@], !.result = ResultText[@],
                 !.certainty = CertaintyText[@]]

(* load_effect *)
LoadEffect(id) ==
  [db.effects[id] EXCEPT !.phase = ParsePhase(@), !.result = ParseResult(@),
                         !.certainty = ParseCertainty(@)]

(* load_effects_for_run *)
LoadEffects == [id \in DOMAIN db.effects |-> LoadEffect(id)]

(* update_effect: the seven columns that a journal step may change *)
UpdatedEffect(row, effect) ==
  LET new == EffectRow(effect)
  IN  [row EXCEPT !.phase = new.phase, !.claimant = new.claimant,
                  !.result = new.result, !.certainty = new.certainty,
                  !.claimed = new.claimed, !.dispatched = new.dispatched,
                  !.settled = new.settled]

(* load_checkpoints *)
LoadCheckpoints == db.checkpoints

(* persist_validation *)
ValidationRow(validation) == [validation EXCEPT !.passed = Bit(@)]

(* load_validations *)
LoadValidations ==
  [id \in DOMAIN db.validations |->
     [db.validations[id] EXCEPT !.passed = (@ # 0)]]

(* persist_denial: the resource is optional *)
DenialRow(denial) ==
  [denial EXCEPT !.resource = [i \in DOMAIN @ |-> ResourceToJson(@[i])]]

(* load_denials *)
LoadDenials ==
  [id \in DOMAIN db.denials |->
     [db.denials[id] EXCEPT
        !.resource = [i \in DOMAIN @ |-> ResourceFromJson(@[i])]]]

(* load_lease *)
LoadLease == db.lease

(* persist_final_result *)
FinalRow(final) ==
  [final EXCEPT !.stopped = Bit(@), !.cohort = CohortToJson(@),
                !.instrumentation = InstrumentationToJson(@)]

(* load_final_result *)
LoadFinal ==
  [i \in DOMAIN db.final |->
     [db.final[i] EXCEPT !.stopped = (@ # 0), !.cohort = CohortFromJson(@),
                         !.instrumentation = InstrumentationFromJson(@)]]

(* reconstruct_run *)
Reconstructed ==
  [run |-> LoadRun, events |-> LoadEvents, plans |-> LoadPlans,
   graphs |-> LoadGraphs, replacements |-> LoadReplacements,
   approvals |-> LoadApprovals, grants |-> LoadGrants, effects |-> LoadEffects,
   checkpoints |-> LoadCheckpoints, validations |-> LoadValidations,
   denials |-> LoadDenials, lease |-> LoadLease, final |-> LoadFinal]

---------------------------------------------------------------------------
(* What the use cases decide on.                                           *)

(* The classes of kinds that derive_lifecycle tells apart *)
KindClass(kind) ==
  IF kind.kind \in {"EffectPrepared", "EffectClaimed", "EffectDispatched",
                    "GrantIssued"} THEN "Progress"
  ELSE IF kind.kind = "EffectSettled" THEN SettledKind(kind.fields[2][1])
  ELSE kind.kind

(* derive_lifecycle, on the log and the journal that were read *)
ReadLifecycle ==
  LET events == LoadEvents
      kinds == [i \in DOMAIN events |-> KindClass(events[i].kind)]
  IN  DeriveLifecycle(FoldLeft(FoldEvent, "Created", kinds),
                      "Cancelled" \in Range(kinds), LoadEffects)

(* run_use_cases.rs next_sequence *)
NextSequence ==
  LET events == LoadEvents
  IN  IF events = <<>> THEN 1 ELSE Last(events).seq + 1

(* RunEvent::new *)
NewEvent(kind, fields) ==
  [id |-> Id("event", Now), seq |-> NextSequence, at |-> Now,
   kind |-> [kind |-> kind, fields |-> fields]]

(* assert_next_sequence, insert_event and the commit of a transaction that *)
(* also leaves the tables as `tables'; `memory' is what the caller holds   *)
PersistWith(tables, memory, kind, fields) ==
  LET event == NewEvent(kind, fields)
  IN  /\ Len(db.events) < MaxEvents
      /\ event.seq = Len(db.events) + 1
      /\ db' = [tables EXCEPT !.events = Append(@, EventRow(event))]
      /\ kept' = [memory EXCEPT !.events = Append(@, event)]

(* INSERT INTO: the id is the table's primary key *)
IsNew(table, id) == id \notin DOMAIN table

Insert(table, record) ==
  [id \in DOMAIN table \cup {record.id} |->
     IF id = record.id THEN record ELSE table[id]]

(* create_run *)
EvidenceInit ==
  \E cohort \in {<<>>, <<[taxonomy |-> <<"v1">>, cohort |-> <<"c">>, at |-> 1,
                          authority |-> <<"owner">>, rationale |-> <<"r">>]>>} :
    LET run == [id |-> Id("run", 1), name |-> <<"root">>, at |-> 1,
                cohort |-> cohort]
        event == [id |-> Id("event", 1), seq |-> 1, at |-> 1,
                  kind |-> [kind |-> "RunCreated", fields |-> <<>>]]
        made == [run |-> run, events |-> <<event>>, plans |-> <<>>,
                 graphs |-> <<>>, replacements |-> <<>>, approvals |-> <<>>,
                 grants |-> <<>>, effects |-> <<>>, checkpoints |-> <<>>,
                 validations |-> <<>>, denials |-> <<>>, lease |-> <<>>,
                 final |-> <<>>]
    IN  /\ kept = made
        /\ db = [made EXCEPT !.run.cohort = CohortToJson(@),
                             !.events = <<EventRow(event)>>]

---------------------------------------------------------------------------
(* The pair, its approval and its grants.                                  *)

(* compile_and_freeze_pair and persist_frozen_pair, called by              *)
(* bootstrap_harness_plan for the file content that was read: the owner's  *)
(* instructions are also the request semantics                             *)
RecordPair(instructions, model, page) ==
  LET pre  == <<page, "<h1>Ready</h1>">>
      post == <<page, "<h1>Ready for review</h1>">>
      replacement == NewReplacement(Id("replacement", Now), Target, pre, post,
                                    <<"harness-request">>, NULL, Now)
      graph == FixedFirstGraph(Id("graph", Now))
      plan == FreezePlan(Id("plan", Now), graph,
                [instructions |-> instructions, profile |-> Profile,
                 model |-> model, revision |-> Revision,
                 policy |-> <<"controlled-fixture-disclosure-v1">>,
                 allowed |-> <<"selected bytes and the request">>,
                 envelope |-> [summary |-> <<"controlled fixture">>,
                               requested |-> <<"LocalRead", "ProviderDisclose",
                                 "CreateOrReplace", "NativeInspection">>],
                 manifest |-> NewManifest(Id("manifest", Now), pre, instructions,
                                          <<"controlled fixture context">>),
                 replacement |-> replacement, identity |-> <<"file", page>>],
                Now)
  IN  /\ Cardinality(DOMAIN db.plans) < MaxFrozen
      /\ IsNew(db.replacements, replacement.id) /\ IsNew(db.graphs, graph.id)
      /\ IsNew(db.plans, plan.id)
      /\ PersistWith(
           [db EXCEPT !.replacements = Insert(@, replacement),
                      !.graphs = Insert(@, GraphRow(graph)),
                      !.plans = Insert(@, PlanRow(plan))],
           [kept EXCEPT !.replacements = Insert(@, replacement),
                        !.graphs = Insert(@, graph), !.plans = Insert(@, plan)],
           "PairFrozen", <<plan.id, graph.id, plan.hash>>)

(* approve_pair and persist_approval *)
RecordApproval(p) ==
  LET plan == LoadPlans[p]
      approval == [id |-> Id("approval", Now), plan |-> plan.id,
                   graph |-> plan.graph, hash |-> plan.hash,
                   approver |-> <<"owner">>, at |-> Now]
  IN  /\ IsNew(db.approvals, approval.id)
      /\ PersistWith([db EXCEPT !.approvals = Insert(@, approval)],
                     [kept EXCEPT !.approvals = Insert(@, approval)],
                     "Approved", <<approval.id>>)

(* CapabilityGrant::issue *)
NewGrant(cap, resource, scope, plan, graph, approval) ==
  [id |-> Id("grant", Now), cap |-> cap, resource |-> resource, scope |-> scope,
   plan |-> plan, graph |-> graph, approval |-> approval, issuer |-> <<"owner">>,
   issued |-> Now, expires |-> Now + GrantDuration(cap), revoked |-> 0,
   budget |-> 1, left |-> 1, operation |-> RegisteredOperation(cap).id,
   repeatable |-> RegisteredOperation(cap).repeatable]

(* issue_grant and persist_grant *)
RecordGrant(grant) ==
  /\ IsNew(db.grants, grant.id)
  /\ PersistWith([db EXCEPT !.grants = Insert(@, GrantRow(grant))],
                 [kept EXCEPT !.grants = Insert(@, grant)],
                 "GrantIssued", <<grant.id>>)

(* The two grants before the pair (bootstrap_harness_plan) *)
BootstrapGrant ==
  \E resource \in {[kind |-> "RelativeTarget", fields |-> <<Target>>],
                   [kind |-> "ContextManifestHash", fields |-> <<Digest(Target)>>]} :
    RecordGrant(NewGrant(
      IF resource.kind = "RelativeTarget" THEN "LocalRead" ELSE "ProviderDisclose",
      resource, [kind |-> "Run", fields |-> <<>>], NULL, NULL, NULL))

(* The two grants after the approval (issue_harness_grants) *)
PairGrant(a) ==
  LET approval == LoadApprovals[a]
      r == LoadPlans[approval.plan].replacement
      grant(cap, resource, node) ==
        NewGrant(cap, resource, [kind |-> "Node", fields |-> <<node>>],
                 approval.plan, approval.graph, approval.id)
  IN  \/ RecordGrant(grant("CreateOrReplace",
                 [kind |-> "ReplacementTarget", fields |-> <<r.target, r.pre, r.post>>],
                 <<"replace-existing-file-v1">>))
      \/ RecordGrant(grant("NativeInspection",
                 [kind |-> "RelativeTarget", fields |-> <<r.target>>],
                 <<"verify-approved-postimage-v1">>))

(* revoke_grant and persist_grant_revocation *)
RecordRevocation(g) ==
  LET revoked == [LoadGrants[g] EXCEPT !.revoked = Now]
  IN  /\ LoadGrants[g].revoked = 0
      /\ PersistWith([db EXCEPT !.grants[g].revoked = revoked.revoked,
                                !.grants[g].left = revoked.left],
                     [kept EXCEPT !.grants[g].revoked = Now],
                     "GrantRevoked", <<g>>)

(* record_denial and persist_denial *)
RecordDenial(grant, resource) ==
  LET denial == [id |-> Id("denial", Now), reason |-> <<"denied">>,
                 grant |-> grant, resource |-> resource, at |-> Now]
  IN  /\ IsNew(db.denials, denial.id)
      /\ PersistWith([db EXCEPT !.denials = Insert(@, DenialRow(denial))],
                     [kept EXCEPT !.denials = Insert(@, denial)],
                     "Denied", <<denial.id>>)

(* Denied by evaluate_grant (require_grant), or for an operation that is   *)
(* not registered (OperationBroker::reject_unsupported)                    *)
AnyDenial ==
  \/ RecordDenial(NULL, <<>>)
  \/ \E g \in DOMAIN LoadGrants : RecordDenial(g, <<LoadGrants[g].resource>>)

---------------------------------------------------------------------------
(* The effect journal.                                                     *)

(* prepare_effect and persist_prepared_effect: only a replacement carries  *)
(* the expected hashes                                                     *)
RecordEffect(g) ==
  LET grant == LoadGrants[g]
      bound == grant.resource.kind = "ReplacementTarget"
      effect == [id |-> Id("effect", Now), attempt |-> NULL, plan |-> grant.plan,
                 graph |-> grant.graph, operation |-> grant.operation,
                 target |-> CASE bound -> grant.resource.fields[3]
                              [] grant.resource.kind = "RelativeTarget" ->
                                   Digest(grant.resource.fields[1])
                              [] OTHER -> Digest(<<"request semantics">>),
                 grant |-> g,
                 phase |-> "Prepared", claimant |-> NULL, result |-> "None",
                 certainty |-> "None", prepared |-> Now, claimed |-> 0,
                 dispatched |-> 0, settled |-> 0,
                 pre |-> IF bound THEN grant.resource.fields[2] ELSE NULL,
                 post |-> IF bound THEN grant.resource.fields[3] ELSE NULL]
  IN  /\ ReadLifecycle # "Blocked" /\ IsNew(db.effects, effect.id)
      /\ PersistWith([db EXCEPT !.effects = Insert(@, EffectRow(effect))],
                     [kept EXCEPT !.effects = Insert(@, effect)],
                     "EffectPrepared", <<effect.id>>)

(* claim_effect: UPDATE ... WHERE phase = 'prepared' AND claimant IS NULL *)
RecordClaim(e) ==
  /\ db.effects[e].phase = "prepared" /\ db.effects[e].claimant = NULL
  /\ PersistWith(
       [db EXCEPT !.effects[e].phase = "claimed", !.effects[e].claimant = Claiming,
                  !.effects[e].claimed = Now],
       [kept EXCEPT !.effects[e].phase = "Claimed",
                    !.effects[e].claimant = Claiming, !.effects[e].claimed = Now],
       "EffectClaimed", <<e, Claiming>>)

(* consume_dispatch_budget: UPDATE ... WHERE revoked IS NULL ... *)
Spendable(row) == row.revoked = 0 /\ row.expires > Now /\ row.left > 0

(* EffectRecord::mark_dispatched *)
Dispatched(effect) == [effect EXCEPT !.phase = "Dispatched", !.dispatched = Now]

(* dispatch_effect: the budget is consumed in a transaction of its own *)
RecordDispatch(e) ==
  LET effect == LoadEffects[e] IN
    /\ Spendable(db.grants[effect.grant])
    /\ effect.phase = "Claimed" /\ effect.claimant = Claiming
    /\ PersistWith(
         [db EXCEPT !.grants[effect.grant].left = @ - 1,
                    !.effects[e] = UpdatedEffect(@, Dispatched(effect))],
         [kept EXCEPT !.grants[effect.grant].left = @ - 1,
                      !.effects[e] = Dispatched(@)],
         "EffectDispatched", <<e>>)

(* dispatch_effect that ended, or was refused, after the first transaction *)
LoseDispatch(e) ==
  LET g == LoadEffects[e].grant IN
    /\ Spendable(db.grants[g])
    /\ db' = [db EXCEPT !.grants[g].left = @ - 1]
    /\ kept' = [kept EXCEPT !.grants[g].left = @ - 1]

(* EffectRecord::settle *)
SettledAs(effect, result, cert) ==
  [effect EXCEPT !.phase = "Settled", !.result = result, !.certainty = cert,
                 !.settled = Now]

(* settle_effect and persist_effect_settled *)
RecordSettlement(e, result, cert) ==
  LET effect == LoadEffects[e] IN
    /\ effect.phase = "Dispatched" /\ effect.claimant = Claiming
    /\ SettleAllowed(result, cert)
    /\ PersistWith(
         [db EXCEPT !.effects[e] = UpdatedEffect(@, SettledAs(effect, result, cert))],
         [kept EXCEPT !.effects[e] = SettledAs(@, result, cert)],
         "EffectSettled", <<e, <<cert>>>>)

(* EffectRecord::reconcile *)
ReconciledAs(effect, probe) ==
  [effect EXCEPT !.certainty = ReconciledCertainty(probe), !.settled = Now]

(* reconcile_effect *)
RecordReconciliation(e, probe) ==
  LET effect == LoadEffects[e] IN
    /\ effect.phase = "Settled" /\ effect.certainty = "UnknownOrPartial"
    /\ PersistWith(
         [db EXCEPT !.effects[e] = UpdatedEffect(@, ReconciledAs(effect, probe))],
         [kept EXCEPT !.effects[e] = ReconciledAs(@, probe)],
         "EffectSettled", <<e, <<ReconciledCertainty(probe)>>>>)

---------------------------------------------------------------------------
(* Checkpoint, validation, result, lease and lifecycle.                    *)

(* checkpoint_run and persist_quiescent_checkpoint *)
RecordCheckpoint(p) ==
  LET plan == LoadPlans[p]
      checkpoint == [id |-> Id("checkpoint", Now), last |-> NextSequence - 1,
                     chain |-> HashEventChain(LoadEvents), plan |-> plan.id,
                     graph |-> plan.graph, revision |-> plan.revision,
                     post |-> plan.replacement.post, at |-> Now]
  IN  /\ IsQuiescent(LoadEffects) /\ ReadLifecycle # "Blocked"
      /\ IsNew(db.checkpoints, checkpoint.id)
      /\ PersistWith([db EXCEPT !.checkpoints = Insert(@, checkpoint)],
                     [kept EXCEPT !.checkpoints = Insert(@, checkpoint)],
                     "Checkpointed", <<checkpoint.id>>)

(* validate_native_structural and persist_validation, on what inspection   *)
(* observed: the file before or after the replacement                      *)
RecordValidation(p, observed) ==
  LET plan == LoadPlans[p]
      validation == [id |-> Id("validation", Now), plan |-> plan.id,
                     graph |-> plan.graph, label |-> Label,
                     approved |-> plan.replacement.post, observed |-> observed,
                     diff |-> plan.replacement.diff,
                     passed |-> plan.replacement.post = observed, at |-> Now]
  IN  /\ IsNew(db.validations, validation.id)
      /\ PersistWith(
           [db EXCEPT !.validations = Insert(@, ValidationRow(validation))],
           [kept EXCEPT !.validations = Insert(@, validation)],
           "Validated", <<validation.id>>)

(* What execute_harness_run measures *)
Measured ==
  [k \in {"time_to_first_provider_output_ms",
          "total_time_to_structural_result_ms", "provider_input_tokens",
          "provider_output_tokens", "provider_cached_tokens",
          "context_bytes_resent", "model_turns", "registered_operation_calls",
          "validation_time_ms", "retries", "task_success"} |->
     CASE k = "model_turns" -> <<"1">>
       [] k = "registered_operation_calls" -> <<"4">>
       [] k = "retries" -> <<"0">>
       [] k = "task_success" -> <<"true">>
       [] OTHER -> NULL]

(* complete_run and persist_final_result: run_id is the primary key *)
RecordResult(p) ==
  LET plan == LoadPlans[p]
      final == [plan |-> plan.id, graph |-> plan.graph, label |-> Label,
                stopped |-> TRUE, instrumentation |-> Measured,
                algorithm |-> <<"tule-graph-shape-v1">>,
                fingerprint |-> Fingerprint(LoadGraphs[plan.graph], plan.revision),
                cohort |-> LoadRun.cohort, at |-> Now]
  IN  /\ db.final = <<>>
      /\ PersistWith([db EXCEPT !.final = <<FinalRow(final)>>],
                     [kept EXCEPT !.final = <<final>>], "Completed", <<>>)

(* RootLease::acquire *)
NewLease == [id |-> Id("lease", Now), owner |-> <<"pid">>, acquired |-> Now,
             expires |-> Now + LeaseDuration, renew |-> 1]

(* upsert_lease *)
RecordLease(kind) ==
  PersistWith([db EXCEPT !.lease = <<NewLease>>],
              [kept EXCEPT !.lease = <<NewLease>>], kind, <<NewLease.id>>)

(* acquire_root_lease *)
RecordAcquisition ==
  /\ \A i \in DOMAIN LoadLease : Now >= LoadLease[i].expires
  /\ RecordLease("LeaseAcquired")

(* takeover_root_lease, the owner being gone *)
RecordTakeover ==
  /\ LoadLease # <<>> => \A e \in DOMAIN LoadEffects :
                           /\ LoadEffects[e].phase \notin {"Claimed", "Dispatched"}
                           /\ LoadEffects[e].certainty # "UnknownOrPartial"
  /\ RecordLease("LeaseTakeover")

(* release_root_lease: DELETE ... WHERE id = ? *)
RecordRelease ==
  \E i \in DOMAIN LoadLease :
    PersistWith([db EXCEPT !.lease = <<>>], [kept EXCEPT !.lease = <<>>],
                "LeaseReleased", <<LoadLease[i].id>>)

(* pause_run and cancel_run: append_event *)
RecordBoundary(kind) ==
  /\ ~ IsTerminal(ReadLifecycle) /\ ReadLifecycle # "Blocked"
  /\ IsQuiescent(LoadEffects)
  /\ PersistWith(db, kept, kind, <<>>)

---------------------------------------------------------------------------
(* The pair and what is recorded of it *)
PairNext ==
  \/ \E instructions, model \in Wording, page \in {"a", "b"} :
       RecordPair(instructions, model, page)
  \/ \E p \in DOMAIN LoadPlans :
       \/ RecordApproval(p) \/ RecordCheckpoint(p) \/ RecordResult(p)
       \/ \E seen \in {LoadPlans[p].replacement.pre,
                       LoadPlans[p].replacement.post} : RecordValidation(p, seen)
  \/ \E a \in DOMAIN LoadApprovals : PairGrant(a)
  \/ AnyDenial

(* A grant and the effects under it *)
PrepareNext ==
  \/ BootstrapGrant
  \/ \E g \in DOMAIN LoadGrants : RecordEffect(g)
  \/ \E e \in DOMAIN LoadEffects : RecordClaim(e)

EffectNext ==
  \E e \in DOMAIN LoadEffects :
    \/ RecordDispatch(e) \/ LoseDispatch(e)
    \/ \E result \in OperationResult \ {"None"},
          cert \in EffectCertainty \ {"None"} : RecordSettlement(e, result, cert)
    \/ \E probe \in Probe : RecordReconciliation(e, probe)

(* The lease, revocation and the boundaries of the lifecycle *)
LeaseNext ==
  \/ RecordAcquisition \/ RecordTakeover \/ RecordRelease
  \/ \E g \in DOMAIN LoadGrants : RecordRevocation(g)
  \/ RecordBoundary("Paused") \/ RecordBoundary("Cancelled")

EvidenceNext == PairNext \/ PrepareNext \/ EffectNext \/ LeaseNext

EvidenceSpec == EvidenceInit /\ [][EvidenceNext]_evidenceVars

---------------------------------------------------------------------------
(* compute_resume_decision and resume_run for a Run that is reopened       *)
(* without its root: the target then counts as matching.  The log is in    *)
(* the order of its numbers, so the events up to a number are its prefix   *)
ResumeDecision(checkpoint) ==
  LET events == LoadEvents
      prefix == SubSeq(events, 1, Cardinality({i \in DOMAIN events :
                                                 events[i].seq <= checkpoint.last}))
      latest == CHOOSE p \in DOMAIN LoadPlans :
                  \A q \in DOMAIN LoadPlans : LoadPlans[q].at <= LoadPlans[p].at
  IN  EvaluateResume(
        /\ HashEventChain(prefix) = checkpoint.chain
        /\ LoadPlans[latest].revision = checkpoint.revision,
        \E g \in DOMAIN LoadGrants :
          LoadGrants[g].revoked # 0 \/ Now >= LoadGrants[g].expires,
        \E e \in DOMAIN LoadEffects :
          /\ LoadEffects[e].operation = RegisteredOperation("CreateOrReplace").id
          /\ LoadEffects[e].certainty = "ConfirmedCommitted")

(* sqlite/runs.rs:482 reconstruct_run: whatever sequence of use cases      *)
(* wrote the tables, the Run reads back as the records those use cases     *)
(* returned, and no checkpoint in it ever asks for the Run to be abandoned *)
(* because of its own log or policy.                                       *)
EvidenceReloads ==
  /\ Reconstructed = kept
  /\ \A c \in DOMAIN LoadCheckpoints :
       ResumeDecision(LoadCheckpoints[c]) # "RequireReapprovalOrAbandon"

(* What a plan binds its owner to *)
Meaning(plan) ==
  <<plan.instructions, plan.model, plan.replacement.pre, plan.replacement.post>>

(* run.rs:2548 hash_execution_plan_approval: the hash an approval holds is *)
(* the hash of the one plan it names, and no plan frozen with other words  *)
(* or another file would have had it.                                      *)
ApprovalNamesPlan ==
  \A a \in DOMAIN LoadApprovals, p \in DOMAIN LoadPlans :
    LET approval == LoadApprovals[a]
        approved == LoadPlans[approval.plan]
        plan == LoadPlans[p]
    IN  /\ approval.hash = plan.hash => approval.plan = p /\ approval.graph = plan.graph
        /\ HashExecutionPlanApproval(approval.plan, LoadGraphs[approval.graph], plan)
              = approval.hash => Meaning(plan) = Meaning(approved)
=============================================================================
