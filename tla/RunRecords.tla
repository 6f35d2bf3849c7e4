----------------------------- MODULE RunRecords -----------------------------
(***************************************************************************)
(* The records of a Run as values: how they are made and hashed            *)
(* (crates/tule-core/src/run.rs, capability.rs), and how they become       *)
(* columns and are read back (apps/desktop/src-tauri/src/sqlite/runs.rs).  *)
(*                                                                         *)
(* A text is a sequence of symbols, where a field name, an identifier, a   *)
(* length and a digest are one symbol each.  A digest determines the bytes *)
(* it was computed from.  A JSON object is a function on its keys.         *)
(***************************************************************************)
EXTENDS RunPolicy, Sequences, SequencesExt, FiniteSets, TLC

NULL      == <<"NULL">>        \* a NULL column, Option::None
Malformed == <<"malformed">>   \* what a reader refuses

---------------------------------------------------------------------------
(* Canonical encoding.                                                     *)

(* append_canonical_field: both lengths are written, a name is one symbol *)
Field(name, value) == <<"1", name, ToString(Len(value))>> \o value

Encode(fields) ==
  FlattenSeq([i \in DOMAIN fields |-> Field(fields[i][1], fields[i][2])])

(* hash_source_bytes *)
Digest(bytes) == <<ToString(bytes)>>

(* hash_canonical_fields *)
HashCanonicalFields(fields) ==
  Digest(Encode(<<<<"encoding", <<"tule-canonical-v1">>>>>> \o fields))

HashExpectedDiff(pre, post) ==
  HashCanonicalFields(<<<<"preimage", pre>>, <<"postimage", post>>>>)

Flag(b) == IF b THEN <<"1">> ELSE <<"0">>

---------------------------------------------------------------------------
(* The allowlisted words of the columns.                                   *)

CapabilityText ==
  [LocalRead |-> "local_read", CreateOrReplace |-> "create_or_replace",
   NativeInspection |-> "native_inspection",
   ProviderDisclose |-> "provider_disclose"]

ParseCapability(t) ==
  LET known == [local_read |-> "LocalRead",
                create_or_replace |-> "CreateOrReplace",
                native_inspection |-> "NativeInspection",
                provider_disclose |-> "ProviderDisclose"]
  IN  IF t \in DOMAIN known THEN known[t] ELSE "malformed"

(* RegisteredOperationIdentity::for_capability *)
RegisteredOperation(cap) ==
  [id |-> CASE cap = "LocalRead" -> "local-read-v1"
            [] cap = "ProviderDisclose" -> "provider-disclose-v1"
            [] cap = "CreateOrReplace" -> "create-or-replace-v1"
            [] cap = "NativeInspection" -> "native-inspect-v1",
   repeatable |-> cap \in {"LocalRead", "NativeInspection"}]

PhaseText == [Prepared |-> "prepared", Claimed |-> "claimed",
              Dispatched |-> "dispatched", Settled |-> "settled"]
ParsePhase(t) ==
  LET known == [prepared |-> "Prepared", claimed |-> "Claimed",
                dispatched |-> "Dispatched", settled |-> "Settled"]
  IN  IF t \in DOMAIN known THEN known[t] ELSE "malformed"

ResultText == [None |-> "NULL", Success |-> "success", Error |-> "error",
               Cancelled |-> "cancelled"]
ParseResult(t) ==
  LET known == [NULL |-> "None", success |-> "Success", error |-> "Error",
                cancelled |-> "Cancelled"]
  IN  IF t \in DOMAIN known THEN known[t] ELSE "malformed"

CertaintyText ==
  [None |-> "NULL", ConfirmedCommitted |-> "confirmed_committed",
   ConfirmedNoEffect |-> "confirmed_no_effect",
   UnknownOrPartial |-> "unknown_or_partial"]
ParseCertainty(t) ==
  LET known == [NULL |-> "None", confirmed_committed |-> "ConfirmedCommitted",
                confirmed_no_effect |-> "ConfirmedNoEffect",
                unknown_or_partial |-> "UnknownOrPartial"]
  IN  IF t \in DOMAIN known THEN known[t] ELSE "malformed"

---------------------------------------------------------------------------
(* The frozen pair.                                                        *)

(* ContextManifest::new *)
NewManifest(id, content, semantics, summary) ==
  [id |-> id, content |-> Digest(content), summary |-> summary,
   request |-> HashCanonicalFields(<<<<"content_hash", Digest(content)>>,
                                     <<"request_semantics", semantics>>>>),
   bytes |-> Len(content)]

(* ReplacementContentInput::new, after validate_bootstrap_proposal *)
NewReplacement(id, target, pre, post, request, response, now) ==
  [id |-> id, target |-> target, pre |-> Digest(pre), post |-> Digest(post),
   diff |-> HashExpectedDiff(pre, post), text |-> post, request |-> request,
   response |-> response, at |-> now]

(* GraphNode::new and GraphEdge::new *)
Node(kind, responsibility, protected) ==
  [kind |-> kind, responsibility |-> responsibility, model |-> NULL,
   protected |-> protected]
Edge(from, to) == [from |-> from, to |-> to]

NodeBytes(n) ==
  Encode(<<<<"kind", n.kind>>, <<"responsibility", n.responsibility>>>>
         \o (IF n.model = NULL THEN <<>> ELSE <<<<"model", n.model>>>>)
         \o <<<<"protected_validation", Flag(n.protected)>>>>)

HashGraphContent(nodes, edges, retry, validation) ==
  HashCanonicalFields(
    [i \in DOMAIN nodes |-> <<"node:" \o ToString(i - 1), NodeBytes(nodes[i])>>]
    \o [i \in DOMAIN edges |->
          <<"edge:" \o ToString(i - 1),
            Encode(<<<<"from", edges[i].from>>, <<"to", edges[i].to>>>>)>>]
    \o <<<<"retry_rule", retry>>, <<"validation_rule", validation>>>>)

(* RunGraphVersion::compile_fixed_first_graph *)
FixedFirstGraph(id) ==
  LET replace == <<"replace-existing-file-v1">>
      verify  == <<"verify-approved-postimage-v1">>
      nodes == <<Node(replace, <<"builder">>, FALSE),
                 Node(verify, <<"reviewer">>, TRUE)>>
      edges == <<Edge(replace, verify)>>
      retry == <<"no-automatic-retry-v1">>
      validation == <<"native-approved-postimage-v1">>
  IN  [id |-> id, nodes |-> nodes, edges |-> edges,
       retry |-> retry, validation |-> validation,
       hash |-> HashGraphContent(nodes, edges, retry, validation)]

(* CapabilityEnvelope::canonical_bytes *)
EnvelopeBytes(envelope) ==
  Encode(<<<<"summary", envelope.summary>>>>
         \o [i \in DOMAIN envelope.requested |->
               <<"capability", <<CapabilityText[envelope.requested[i]]>>>>])

(* What the owner approves, in the fixed order of the schema *)
ApprovalFields(id, graph, p) ==
  <<<<"plan_id", id>>, <<"graph_id", graph.id>>, <<"graph_hash", graph.hash>>,
    <<"instructions", p.instructions>>, <<"provider_profile_id", p.profile>>,
    <<"model_id", p.model>>, <<"disclosure_policy_id", p.policy>>,
    <<"allowed_disclosure", p.allowed>>,
    <<"capability_envelope", EnvelopeBytes(p.envelope)>>,
    <<"context_manifest_hash", p.manifest.content>>,
    <<"request_semantic_hash", p.manifest.request>>,
    <<"relative_target", p.replacement.target>>,
    <<"preimage_hash", p.replacement.pre>>,
    <<"postimage_hash", p.replacement.post>>,
    <<"expected_diff_hash", p.replacement.diff>>,
    <<"preimage_filesystem_identity", p.identity>>,
    <<"retry_rule", graph.retry>>, <<"validation_rule", graph.validation>>,
    <<"op_replace", <<"replace-existing-file-v1">>>>,
    <<"op_verify", <<"verify-approved-postimage-v1">>>>,
    <<"registered_operation_schema", <<"tule-registered-op-schema-v1">>>>,
    <<"execution_policy_revision", p.revision>>>>

(* Mutant: the model is left out of what is approved *)
X_HashExecutionPlanApproval(id, graph, p) ==
  HashCanonicalFields(SelectSeq(ApprovalFields(id, graph, p),
                                LAMBDA f : f[1] # "model_id"))

(* hash_execution_plan_approval *)
HashExecutionPlanApproval(id, graph, p) ==
  HashCanonicalFields(ApprovalFields(id, graph, p))

(* ExecutionPlanVersion::freeze: `meaning' has the parts of the plan *)
FreezePlan(id, graph, meaning, now) ==
  [c \in {"id", "graph", "at", "hash"} \cup DOMAIN meaning |->
     CASE c = "id" -> id
       [] c = "graph" -> graph.id
       [] c = "at" -> now
       [] c = "hash" -> HashExecutionPlanApproval(id, graph, meaning)
       [] OTHER -> meaning[c]]

(* GraphShapeFingerprint::derive *)
Fingerprint(graph, revision) ==
  Digest(Encode(
    <<<<"algorithm", <<"tule-graph-shape-v1">>>>, <<"graph_hash", graph.hash>>,
      <<"retry_rule", graph.retry>>, <<"validation_rule", graph.validation>>,
      <<"execution_policy_revision", revision>>>>
    \o FlattenSeq([i \in DOMAIN graph.nodes |->
         <<<<"node_kind", graph.nodes[i].kind>>,
           <<"responsibility", graph.nodes[i].responsibility>>,
           <<"protected_validation", Flag(graph.nodes[i].protected)>>>>])
    \o FlattenSeq([i \in DOMAIN graph.edges |->
         <<<<"edge_from", graph.edges[i].from>>,
           <<"edge_to", graph.edges[i].to>>>>])))

---------------------------------------------------------------------------
(* Enumerations with fields.  In memory a value is its kind and its fields *)
(* in order; stored it is a tag and an object on named keys.  A table      *)
(* gives the other name and the keys: the writers and the readers of the   *)
(* code have a table each.                                                 *)

ToParts(table, v) ==
  LET keys == table[v.kind][2]
  IN  [tag |-> table[v.kind][1],
       payload |-> [k \in Range(keys) |->
                      v.fields[CHOOSE i \in DOMAIN keys : keys[i] = k]]]

(* value.get(key).and_then(Value::as_str).ok_or(...) *)
Get(object, key) == IF key \in DOMAIN object THEN object[key] ELSE Malformed

FromParts(table, parts) ==
  IF parts.tag \in DOMAIN table
  THEN LET keys == table[parts.tag][2]
       IN  [kind |-> table[parts.tag][1],
            fields |-> [i \in DOMAIN keys |-> Get(parts.payload, keys[i])]]
  ELSE [kind |-> "malformed", fields |-> <<>>]

(* The certainty of a settlement event is stored as its word *)
Certain(kind, words) ==
  IF kind.kind = "EffectSettled"
  THEN [kind EXCEPT !.fields[2] = <<words[@[1]]>>] ELSE kind

(* event_kind_to_parts *)
EventKindToParts(kind) ==
  LET effect == <<"effect_id">> grant == <<"grant_id">> lease == <<"lease_id">>
  IN  ToParts(
    [RunCreated |-> <<"run_created", <<>>>>,
     PairFrozen |-> <<"pair_frozen", <<"plan_version_id", "graph_version_id",
                                       "approval_hash">>>>,
     Approved |-> <<"approved", <<"approval_id">>>>,
     GrantIssued |-> <<"grant_issued", grant>>,
     GrantRevoked |-> <<"grant_revoked", grant>>,
     Denied |-> <<"denied", <<"denial_id">>>>,
     EffectPrepared |-> <<"effect_prepared", effect>>,
     EffectClaimed |-> <<"effect_claimed", <<"effect_id", "claimant">>>>,
     EffectDispatched |-> <<"effect_dispatched", effect>>,
     EffectSettled |-> <<"effect_settled", <<"effect_id", "certainty">>>>,
     Checkpointed |-> <<"checkpointed", <<"checkpoint_id">>>>,
     Validated |-> <<"validated", <<"validation_id">>>>,
     Completed |-> <<"completed", <<>>>>, Paused |-> <<"paused", <<>>>>,
     Cancelled |-> <<"cancelled", <<>>>>, Abandoned |-> <<"abandoned", <<>>>>,
     LeaseAcquired |-> <<"lease_acquired", lease>>,
     LeaseReleased |-> <<"lease_released", lease>>,
     LeaseTakeover |-> <<"lease_takeover", lease>>,
     Resumed |-> <<"resumed", <<>>>>],
    Certain(kind, CertaintyText))

(* event_kind_from_parts *)
EventKindFromParts(parts) ==
  LET effect == <<"effect_id">> grant == <<"grant_id">> lease == <<"lease_id">>
      kind == FromParts(
    [run_created |-> <<"RunCreated", <<>>>>,
     pair_frozen |-> <<"PairFrozen", <<"plan_version_id", "graph_version_id",
                                       "approval_hash">>>>,
     approved |-> <<"Approved", <<"approval_id">>>>,
     grant_issued |-> <<"GrantIssued", grant>>,
     grant_revoked |-> <<"GrantRevoked", grant>>,
     denied |-> <<"Denied", <<"denial_id">>>>,
     effect_prepared |-> <<"EffectPrepared", effect>>,
     effect_claimed |-> <<"EffectClaimed", <<"effect_id", "claimant">>>>,
     effect_dispatched |-> <<"EffectDispatched", effect>>,
     effect_settled |-> <<"EffectSettled", <<"effect_id", "certainty">>>>,
     checkpointed |-> <<"Checkpointed", <<"checkpoint_id">>>>,
     validated |-> <<"Validated", <<"validation_id">>>>,
     completed |-> <<"Completed", <<>>>>, paused |-> <<"Paused", <<>>>>,
     cancelled |-> <<"Cancelled", <<>>>>, abandoned |-> <<"Abandoned", <<>>>>,
     lease_acquired |-> <<"LeaseAcquired", lease>>,
     lease_released |-> <<"LeaseReleased", lease>>,
     lease_takeover |-> <<"LeaseTakeover", lease>>,
     resumed |-> <<"Resumed", <<>>>>], parts)
  IN  IF kind.kind = "EffectSettled"
      THEN [kind EXCEPT !.fields[2] = <<ParseCertainty(@[1])>>] ELSE kind

(* RunEventKind::canonical_tag *)
CanonicalTag(kind) ==
  [RunCreated |-> "run_created", PairFrozen |-> "pair_frozen",
   Approved |-> "approved", GrantIssued |-> "grant_issued",
   GrantRevoked |-> "grant_revoked", Denied |-> "denied",
   EffectPrepared |-> "effect_prepared", EffectClaimed |-> "effect_claimed",
   EffectDispatched |-> "effect_dispatched", EffectSettled |-> "effect_settled",
   Checkpointed |-> "checkpointed", Validated |-> "validated",
   Completed |-> "completed", Paused |-> "paused", Cancelled |-> "cancelled",
   Abandoned |-> "abandoned", LeaseAcquired |-> "lease_acquired",
   LeaseReleased |-> "lease_released", LeaseTakeover |-> "lease_takeover",
   Resumed |-> "resumed"][kind.kind]

(* hash_event_chain *)
HashEventChain(events) ==
  HashCanonicalFields(
    FlattenSeq([i \in DOMAIN events |->
      <<<<"sequence", <<ToString(events[i].seq)>>>>, <<"id", events[i].id>>,
        <<"kind", <<CanonicalTag(events[i].kind)>>>>>>]))

---------------------------------------------------------------------------
(* What a grant is bound to.                                               *)

(* resource_to_json *)
ResourceToJson(r) ==
  ToParts([RunRoot |-> <<"run_root", <<>>>>,
           RelativeTarget |-> <<"relative_target", <<"path">>>>,
           ContextManifestHash |-> <<"context_manifest", <<"hash">>>>,
           ReplacementTarget |->
             <<"replacement", <<"relative_target", "expected_preimage_hash",
                                "expected_postimage_hash">>>>], r)

(* Mutant: the two hashes are read the wrong way round *)
X_ResourceFromJson(json) ==
  FromParts([run_root |-> <<"RunRoot", <<>>>>,
             relative_target |-> <<"RelativeTarget", <<"path">>>>,
             context_manifest |-> <<"ContextManifestHash", <<"hash">>>>,
             replacement |->
               <<"ReplacementTarget", <<"relative_target",
                   "expected_postimage_hash", "expected_preimage_hash">>>>],
            json)

(* resource_from_json *)
ResourceFromJson(json) ==
  FromParts([run_root |-> <<"RunRoot", <<>>>>,
             relative_target |-> <<"RelativeTarget", <<"path">>>>,
             context_manifest |-> <<"ContextManifestHash", <<"hash">>>>,
             replacement |->
               <<"ReplacementTarget", <<"relative_target",
                   "expected_preimage_hash", "expected_postimage_hash">>>>],
            json)

(* action_scope_to_json *)
ActionScopeToJson(s) ==
  ToParts([Run |-> <<"run", <<>>>>, Node |-> <<"node", <<"node">>>>,
           Effect |-> <<"effect", <<"id">>>>,
           Attempt |-> <<"attempt", <<"id">>>>], s)

(* action_scope_from_json *)
ActionScopeFromJson(json) ==
  FromParts([run |-> <<"Run", <<>>>>, node |-> <<"Node", <<"node">>>>,
             effect |-> <<"Effect", <<"id">>>>,
             attempt |-> <<"Attempt", <<"id">>>>], json)

---------------------------------------------------------------------------
(* The other JSON columns, and the flags.                                  *)

(* nodes_to_json and nodes_from_json; a missing or null model is None *)
NodesToJson(nodes) ==
  [i \in DOMAIN nodes |->
     [kind |-> nodes[i].kind, responsibility |-> nodes[i].responsibility,
      model_assignment |-> nodes[i].model,
      protected_validation |-> nodes[i].protected]]
NodesFromJson(json) ==
  [i \in DOMAIN json |->
     [kind |-> Get(json[i], "kind"),
      responsibility |-> Get(json[i], "responsibility"),
      model |-> IF "model_assignment" \in DOMAIN json[i]
                THEN json[i].model_assignment ELSE NULL,
      protected |-> json[i].protected_validation]]

(* edges_to_json and edges_from_json *)
EdgesToJson(edges) == [i \in DOMAIN edges |-> [from |-> edges[i].from, to |-> edges[i].to]]
EdgesFromJson(json) ==
  [i \in DOMAIN json |-> Edge(Get(json[i], "from"), Get(json[i], "to"))]

(* envelope_to_json and envelope_from_json *)
EnvelopeToJson(e) ==
  [summary |-> e.summary,
   requested |-> [i \in DOMAIN e.requested |-> CapabilityText[e.requested[i]]]]
EnvelopeFromJson(json) ==
  [summary |-> Get(json, "summary"),
   requested |-> [i \in DOMAIN json.requested |-> ParseCapability(json.requested[i])]]

(* cohort_to_json and cohort_from_json: an optional cohort is a sequence   *)
(* of at most one                                                          *)
CohortToJson(cohort) ==
  [i \in DOMAIN cohort |->
     [taxonomy_version |-> cohort[i].taxonomy, cohort_id |-> cohort[i].cohort,
      assigning_authority |-> cohort[i].authority,
      rationale |-> cohort[i].rationale, assigned_at_unix_ms |-> cohort[i].at]]
CohortFromJson(json) ==
  [i \in DOMAIN json |->
     [taxonomy |-> Get(json[i], "taxonomy_version"),
      cohort |-> Get(json[i], "cohort_id"),
      authority |-> Get(json[i], "assigning_authority"),
      rationale |-> Get(json[i], "rationale"),
      at |-> json[i].assigned_at_unix_ms]]

(* instrumentation_to_json: NULL for what was not measured *)
InstrumentationToJson(m) ==
  [k \in {"time_to_first_provider_output_ms",
          "total_time_to_structural_result_ms", "provider_input_tokens",
          "provider_output_tokens", "provider_cached_tokens",
          "context_bytes_resent", "model_turns", "registered_operation_calls",
          "validation_time_ms", "retries", "task_success"} |-> m[k]]

(* instrumentation_from_json: a missing measure reads as not measured *)
InstrumentationFromJson(json) ==
  [k \in {"time_to_first_provider_output_ms",
          "total_time_to_structural_result_ms", "provider_input_tokens",
          "provider_output_tokens", "provider_cached_tokens",
          "context_bytes_resent", "model_turns", "registered_operation_calls",
          "validation_time_ms", "retries", "task_success"} |->
     IF k \in DOMAIN json THEN json[k] ELSE NULL]

(* i64::from(bool), and != 0 *)
Bit(b) == IF b THEN 1 ELSE 0
=============================================================================
