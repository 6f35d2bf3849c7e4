------------------------- MODULE RunEvidenceProofs -------------------------
(***************************************************************************)
(* Proofs about RunEvidence: whatever the use cases wrote reads back as    *)
(* what they returned, and an approval names the one plan it is for.       *)
(***************************************************************************)
EXTENDS RunEvidence, DataLemmas

---------------------------------------------------------------------------
(* Enumerations with fields.                                               *)

IsTuple(t, n) == t = [i \in 1 .. n |-> t[i]]
IsValue(v, n) == v = [kind |-> v.kind, fields |-> v.fields] /\ IsTuple(v.fields, n)
Agree(w, r, kind, tag, keys, n) ==
  /\ w[kind] = <<tag, keys>> /\ tag \in DOMAIN r /\ r[tag] = <<kind, keys>>
  /\ IsTuple(keys, n) /\ \A i, j \in 1 .. n : keys[i] = keys[j] => i = j

LEMMA TablesAreInverse ==
  ASSUME NEW w, NEW r, NEW v, NEW tag, NEW n, NEW keys,
         IsValue(v, n), Agree(w, r, v.kind, tag, keys, n)
  PROVE  FromParts(r, ToParts(w, v)) = v
<1> DEFINE at(k) == CHOOSE i \in DOMAIN keys : keys[i] = k
           object == [k \in Range(keys) |-> v.fields[at(k)]]
           parts == [tag |-> tag, payload |-> object]
<1>1. DOMAIN keys = 1 .. n
  BY DEF Agree, IsTuple
<1>2. ToParts(w, v) = parts
  BY DEF ToParts, Agree
<1>3. \A i \in 1 .. n : at(keys[i]) = i /\ keys[i] \in Range(keys)
  BY <1>1 DEF Range, Agree
<1>4. \A i \in 1 .. n : Get(object, keys[i]) = v.fields[i]
  BY <1>3 DEF Get
<1>5. FromParts(r, parts) =
        [kind |-> v.kind, fields |-> [i \in 1 .. n |-> Get(object, keys[i])]]
  <2>1. parts.tag = tag /\ parts.payload = object
    OBVIOUS
  <2>2. r[tag][1] = v.kind /\ r[tag][2] = keys /\ tag \in DOMAIN r
    BY DEF Agree
  <2> HIDE DEF object, parts
  <2> QED BY <1>1, <2>1, <2>2 DEF FromParts
<1>6. [i \in 1 .. n |-> Get(object, keys[i])] = v.fields
  <2> HIDE DEF object
  <2> QED BY <1>4 DEF IsValue, IsTuple
<1>7. v = [kind |-> v.kind, fields |-> v.fields]
  BY DEF IsValue
<1> HIDE DEF object, parts
<1> QED BY <1>2, <1>5, <1>6, <1>7

ResourceIsWhole(r) ==
     \/ r.kind \in {"RelativeTarget", "ContextManifestHash"} /\ IsValue(r, 1)
     \/ r.kind = "ReplacementTarget" /\ IsValue(r, 3)
     \/ r.kind = "RunRoot" /\ IsValue(r, 0)

LEMMA ResourceReloads ==
  ASSUME NEW v, ResourceIsWhole(v)
  PROVE  ResourceFromJson(ResourceToJson(v)) = v
<1> DEFINE w == [RunRoot |-> <<"run_root", <<>>>>,
           RelativeTarget |-> <<"relative_target", <<"path">>>>,
           ContextManifestHash |-> <<"context_manifest", <<"hash">>>>,
           ReplacementTarget |->
             <<"replacement", <<"relative_target", "expected_preimage_hash",
                                "expected_postimage_hash">>>>]
    r == [run_root |-> <<"RunRoot", <<>>>>,
             relative_target |-> <<"RelativeTarget", <<"path">>>>,
             context_manifest |-> <<"ContextManifestHash", <<"hash">>>>,
             replacement |->
               <<"ReplacementTarget", <<"relative_target",
                   "expected_preimage_hash", "expected_postimage_hash">>>>]
<1>0. ResourceFromJson(ResourceToJson(v)) = FromParts(r, ToParts(w, v))
  BY DEF ResourceFromJson, ResourceToJson
<1>1. Agree(w, r, "RunRoot", "run_root", <<>>, 0)
  BY DEF Agree, IsTuple
<1>2. Agree(w, r, "RelativeTarget", "relative_target", <<"path">>, 1)
  BY DEF Agree, IsTuple
<1>3. Agree(w, r, "ContextManifestHash", "context_manifest", <<"hash">>, 1)
  BY DEF Agree, IsTuple
<1>4. Agree(w, r, "ReplacementTarget", "replacement", <<"relative_target",
                   "expected_preimage_hash", "expected_postimage_hash">>, 3)
  BY DEF Agree, IsTuple
<1> HIDE DEF w, r
<1> QED BY <1>0, <1>1, <1>2, <1>3, <1>4, TablesAreInverse DEF ResourceIsWhole

ScopeIsWhole(s) ==
  \/ s.kind = "Run" /\ IsValue(s, 0)
  \/ s.kind \in {"Node", "Effect", "Attempt"} /\ IsValue(s, 1)

(* action_scope_to_json and action_scope_from_json *)
LEMMA ScopeReloads ==
  ASSUME NEW v, ScopeIsWhole(v)
  PROVE  ActionScopeFromJson(ActionScopeToJson(v)) = v
<1> DEFINE w == [Run |-> <<"run", <<>>>>, Node |-> <<"node", <<"node">>>>,
                 Effect |-> <<"effect", <<"id">>>>,
                 Attempt |-> <<"attempt", <<"id">>>>]
           r == [run |-> <<"Run", <<>>>>, node |-> <<"Node", <<"node">>>>,
                 effect |-> <<"Effect", <<"id">>>>,
                 attempt |-> <<"Attempt", <<"id">>>>]
<1>0. ActionScopeFromJson(ActionScopeToJson(v)) = FromParts(r, ToParts(w, v))
  BY DEF ActionScopeFromJson, ActionScopeToJson
<1>1. Agree(w, r, "Run", "run", <<>>, 0)
  BY DEF Agree, IsTuple
<1>2. Agree(w, r, "Node", "node", <<"node">>, 1)
  BY DEF Agree, IsTuple
<1>3. Agree(w, r, "Effect", "effect", <<"id">>, 1)
  BY DEF Agree, IsTuple
<1>4. Agree(w, r, "Attempt", "attempt", <<"id">>, 1)
  BY DEF Agree, IsTuple
<1> HIDE DEF w, r
<1> QED BY <1>0, <1>1, <1>2, <1>3, <1>4, TablesAreInverse DEF ScopeIsWhole

(* The payload of an event is what its kind carries; a settlement says     *)
(* which certainty.                                                        *)
KindIsWhole(k) ==
  \/ /\ k.kind \in {"RunCreated", "Completed", "Paused", "Cancelled",
                    "Abandoned", "Resumed"}
     /\ IsValue(k, 0)
  \/ /\ k.kind \in {"Approved", "GrantIssued", "GrantRevoked", "Denied",
                    "EffectPrepared", "EffectDispatched", "Checkpointed",
                    "Validated", "LeaseAcquired", "LeaseReleased",
                    "LeaseTakeover"}
     /\ IsValue(k, 1)
  \/ k.kind = "EffectClaimed" /\ IsValue(k, 2)
  \/ k.kind = "PairFrozen" /\ IsValue(k, 3)
  \/ /\ k.kind = "EffectSettled"
     /\ \E e : \E c \in EffectCertainty \ {"None"} :
          k = [kind |-> "EffectSettled", fields |-> <<e, <<c>>>>]

(* event_kind_to_parts and event_kind_from_parts *)
LEMMA KindReloads ==
  ASSUME NEW v, KindIsWhole(v)
  PROVE  EventKindFromParts(EventKindToParts(v)) = v
<1> DEFINE
    w ==
      [RunCreated |-> <<"run_created", <<>>>>,
      PairFrozen |-> <<"pair_frozen", <<"plan_version_id", "graph_version_id",
      "approval_hash">>>>,
      Approved |-> <<"approved", <<"approval_id">>>>,
      GrantIssued |-> <<"grant_issued", <<"grant_id">>>>,
      GrantRevoked |-> <<"grant_revoked", <<"grant_id">>>>,
      Denied |-> <<"denied", <<"denial_id">>>>,
      EffectPrepared |-> <<"effect_prepared", <<"effect_id">>>>,
      EffectClaimed |-> <<"effect_claimed", <<"effect_id", "claimant">>>>,
      EffectDispatched |-> <<"effect_dispatched", <<"effect_id">>>>,
      EffectSettled |-> <<"effect_settled", <<"effect_id", "certainty">>>>,
      Checkpointed |-> <<"checkpointed", <<"checkpoint_id">>>>,
      Validated |-> <<"validated", <<"validation_id">>>>,
      Completed |-> <<"completed", <<>>>>, Paused |-> <<"paused", <<>>>>,
      Cancelled |-> <<"cancelled", <<>>>>, Abandoned |-> <<"abandoned", <<>>>>,
      LeaseAcquired |-> <<"lease_acquired", <<"lease_id">>>>,
      LeaseReleased |-> <<"lease_released", <<"lease_id">>>>,
      LeaseTakeover |-> <<"lease_takeover", <<"lease_id">>>>,
      Resumed |-> <<"resumed", <<>>>>]
    r ==
      [run_created |-> <<"RunCreated", <<>>>>,
      pair_frozen |-> <<"PairFrozen", <<"plan_version_id", "graph_version_id",
      "approval_hash">>>>,
      approved |-> <<"Approved", <<"approval_id">>>>,
      grant_issued |-> <<"GrantIssued", <<"grant_id">>>>,
      grant_revoked |-> <<"GrantRevoked", <<"grant_id">>>>,
      denied |-> <<"Denied", <<"denial_id">>>>,
      effect_prepared |-> <<"EffectPrepared", <<"effect_id">>>>,
      effect_claimed |-> <<"EffectClaimed", <<"effect_id", "claimant">>>>,
      effect_dispatched |-> <<"EffectDispatched", <<"effect_id">>>>,
      effect_settled |-> <<"EffectSettled", <<"effect_id", "certainty">>>>,
      checkpointed |-> <<"Checkpointed", <<"checkpoint_id">>>>,
      validated |-> <<"Validated", <<"validation_id">>>>,
      completed |-> <<"Completed", <<>>>>, paused |-> <<"Paused", <<>>>>,
      cancelled |-> <<"Cancelled", <<>>>>, abandoned |-> <<"Abandoned", <<>>>>,
      lease_acquired |-> <<"LeaseAcquired", <<"lease_id">>>>,
      lease_released |-> <<"LeaseReleased", <<"lease_id">>>>,
      lease_takeover |-> <<"LeaseTakeover", <<"lease_id">>>>,
      resumed |-> <<"Resumed", <<>>>>]
    Read(kind) == IF kind.kind = "EffectSettled"
                  THEN [kind EXCEPT !.fields[2] = <<ParseCertainty(@[1])>>] ELSE kind
<1>1. /\ EventKindToParts(v) = ToParts(w, Certain(v, CertaintyText))
      /\ \A parts : EventKindFromParts(parts) = Read(FromParts(r, parts))
  BY DEF EventKindToParts, EventKindFromParts
<1>2. Agree(w, r, "RunCreated", "run_created", <<>>, 0)
  BY DEF Agree, IsTuple
<1>3. Agree(w, r, "PairFrozen", "pair_frozen", <<"plan_version_id", "graph_version_id", "approval_hash">>, 3)
  BY DEF Agree, IsTuple
<1>4. Agree(w, r, "Approved", "approved", <<"approval_id">>, 1)
  BY DEF Agree, IsTuple
<1>5. Agree(w, r, "GrantIssued", "grant_issued", <<"grant_id">>, 1)
  BY DEF Agree, IsTuple
<1>6. Agree(w, r, "GrantRevoked", "grant_revoked", <<"grant_id">>, 1)
  BY DEF Agree, IsTuple
<1>7. Agree(w, r, "Denied", "denied", <<"denial_id">>, 1)
  BY DEF Agree, IsTuple
<1>8. Agree(w, r, "EffectPrepared", "effect_prepared", <<"effect_id">>, 1)
  BY DEF Agree, IsTuple
<1>9. Agree(w, r, "EffectClaimed", "effect_claimed", <<"effect_id", "claimant">>, 2)
  BY DEF Agree, IsTuple
<1>10. Agree(w, r, "EffectDispatched", "effect_dispatched", <<"effect_id">>, 1)
  BY DEF Agree, IsTuple
<1>11. Agree(w, r, "EffectSettled", "effect_settled", <<"effect_id", "certainty">>, 2)
  BY DEF Agree, IsTuple
<1>12. Agree(w, r, "Checkpointed", "checkpointed", <<"checkpoint_id">>, 1)
  BY DEF Agree, IsTuple
<1>13. Agree(w, r, "Validated", "validated", <<"validation_id">>, 1)
  BY DEF Agree, IsTuple
<1>14. Agree(w, r, "Completed", "completed", <<>>, 0)
  BY DEF Agree, IsTuple
<1>15. Agree(w, r, "Paused", "paused", <<>>, 0)
  BY DEF Agree, IsTuple
<1>16. Agree(w, r, "Cancelled", "cancelled", <<>>, 0)
  BY DEF Agree, IsTuple
<1>17. Agree(w, r, "Abandoned", "abandoned", <<>>, 0)
  BY DEF Agree, IsTuple
<1>18. Agree(w, r, "LeaseAcquired", "lease_acquired", <<"lease_id">>, 1)
  BY DEF Agree, IsTuple
<1>19. Agree(w, r, "LeaseReleased", "lease_released", <<"lease_id">>, 1)
  BY DEF Agree, IsTuple
<1>20. Agree(w, r, "LeaseTakeover", "lease_takeover", <<"lease_id">>, 1)
  BY DEF Agree, IsTuple
<1>21. Agree(w, r, "Resumed", "resumed", <<>>, 0)
  BY DEF Agree, IsTuple
<1> HIDE DEF w, r
<1>22. CASE v.kind # "EffectSettled"
  <2>1. Certain(v, CertaintyText) = v
    BY <1>22 DEF Certain
  <2>2. ASSUME NEW tag, NEW keys, NEW arity, IsValue(v, arity), Agree(w, r, v.kind, tag, keys, arity)
        PROVE  FromParts(r, ToParts(w, v)) = v
    BY <2>2, TablesAreInverse
  <2>3. FromParts(r, ToParts(w, v)) = v
    <3>1. CASE /\ v.kind \in {"RunCreated", "Completed", "Paused", "Cancelled",
                             "Abandoned", "Resumed"}
               /\ IsValue(v, 0)
      <4>1. \E tag, keys : Agree(w, r, v.kind, tag, keys, 0)
        <5>1. CASE v.kind = "RunCreated"
          BY <1>2, <5>1
        <5>2. CASE v.kind = "Completed"
          BY <1>14, <5>2
        <5>3. CASE v.kind = "Paused"
          BY <1>15, <5>3
        <5>4. CASE v.kind = "Cancelled"
          BY <1>16, <5>4
        <5>5. CASE v.kind = "Abandoned"
          BY <1>17, <5>5
        <5>6. CASE v.kind = "Resumed"
          BY <1>21, <5>6
        <5> QED BY <3>1, <5>1, <5>2, <5>3, <5>4, <5>5, <5>6
      <4> QED BY <2>2, <3>1, <4>1
    <3>2. CASE /\ v.kind \in {"Approved", "GrantIssued", "GrantRevoked", "Denied",
                             "EffectPrepared", "EffectDispatched", "Checkpointed",
                             "Validated", "LeaseAcquired", "LeaseReleased",
                             "LeaseTakeover"}
               /\ IsValue(v, 1)
      <4>1. \E tag, keys : Agree(w, r, v.kind, tag, keys, 1)
        <5>1. CASE v.kind = "Approved"
          BY <1>4, <5>1
        <5>2. CASE v.kind = "GrantIssued"
          BY <1>5, <5>2
        <5>3. CASE v.kind = "GrantRevoked"
          BY <1>6, <5>3
        <5>4. CASE v.kind = "Denied"
          BY <1>7, <5>4
        <5>5. CASE v.kind = "EffectPrepared"
          BY <1>8, <5>5
        <5>6. CASE v.kind = "EffectDispatched"
          BY <1>10, <5>6
        <5>7. CASE v.kind = "Checkpointed"
          BY <1>12, <5>7
        <5>8. CASE v.kind = "Validated"
          BY <1>13, <5>8
        <5>9. CASE v.kind = "LeaseAcquired"
          BY <1>18, <5>9
        <5>10. CASE v.kind = "LeaseReleased"
          BY <1>19, <5>10
        <5>11. CASE v.kind = "LeaseTakeover"
          BY <1>20, <5>11
        <5> QED BY <3>2, <5>1, <5>2, <5>3, <5>4, <5>5, <5>6, <5>7, <5>8, <5>9, <5>10, <5>11
      <4> QED BY <2>2, <3>2, <4>1
    <3>3. CASE v.kind = "EffectClaimed" /\ IsValue(v, 2)
      BY <1>9, <2>2, <3>3
    <3>4. CASE v.kind = "PairFrozen" /\ IsValue(v, 3)
      BY <1>3, <2>2, <3>4
    <3> QED BY <1>22, <3>1, <3>2, <3>3, <3>4 DEF KindIsWhole
  <2> QED BY <1>1, <1>22, <2>1, <2>3
<1>23. CASE v.kind = "EffectSettled"
  <2>1. PICK e : \E c \in EffectCertainty \ {"None"} :
          v = [kind |-> "EffectSettled", fields |-> <<e, <<c>>>>]
    BY <1>23 DEF KindIsWhole
  <2>0. PICK c \in EffectCertainty \ {"None"} :
          v = [kind |-> "EffectSettled", fields |-> <<e, <<c>>>>]
    BY <2>1
  <2> DEFINE u == [kind |-> "EffectSettled", fields |-> <<e, <<CertaintyText[c]>>>>]
  <2>2. Certain(v, CertaintyText) = u
    BY <2>0 DEF Certain
  <2>3. IsValue(u, 2) /\ u.kind = "EffectSettled"
    BY DEF IsValue, IsTuple
  <2>4. FromParts(r, ToParts(w, u)) = u
    <3> HIDE DEF u
    <3> QED BY <2>3, <1>11, TablesAreInverse
  <2>5. ParseCertainty(CertaintyText[c]) = c
    BY <2>0 DEF ParseCertainty, CertaintyText, EffectCertainty
  <2>6. Read(u) = v
    BY <2>0, <2>5
  <2> QED BY <1>1, <2>2, <2>4, <2>6
<1> QED BY <1>22, <1>23

---------------------------------------------------------------------------
(* The other columns.                                                      *)

IsList(list) == list = [i \in DOMAIN list |-> list[i]]

CohortIsWhole(c) ==
  /\ IsList(c)
  /\ \A i \in DOMAIN c :
       c[i] = [taxonomy |-> c[i].taxonomy, cohort |-> c[i].cohort,
               at |-> c[i].at, authority |-> c[i].authority,
               rationale |-> c[i].rationale]

(* cohort_to_json and cohort_from_json *)
LEMMA CohortReloads ==
  ASSUME NEW c, CohortIsWhole(c)
  PROVE  CohortFromJson(CohortToJson(c)) = c
<1> DEFINE j == CohortToJson(c)
           x == CohortFromJson(j)
<1>1. DOMAIN j = DOMAIN c /\ DOMAIN x = DOMAIN c
  BY DEF CohortToJson, CohortFromJson
<1>2. ASSUME NEW i \in DOMAIN c
      PROVE  x[i] = [taxonomy |-> c[i].taxonomy, cohort |-> c[i].cohort,
                     at |-> c[i].at, authority |-> c[i].authority,
                     rationale |-> c[i].rationale]
  <2>1. j[i] = [taxonomy_version |-> c[i].taxonomy, cohort_id |-> c[i].cohort,
                assigning_authority |-> c[i].authority,
                rationale |-> c[i].rationale, assigned_at_unix_ms |-> c[i].at]
    BY DEF CohortToJson
  <2>2. x[i] = [taxonomy |-> Get(j[i], "taxonomy_version"),
                cohort |-> Get(j[i], "cohort_id"),
                authority |-> Get(j[i], "assigning_authority"),
                rationale |-> Get(j[i], "rationale"),
                at |-> j[i].assigned_at_unix_ms]
    <3> HIDE DEF j
    <3> QED BY <1>1 DEF CohortFromJson
  <2> HIDE DEF j, x
  <2> QED BY <2>1, <2>2 DEF Get
<1>3. x = [i \in DOMAIN c |-> x[i]]
  BY <1>1 DEF CohortFromJson
<1>4. \A i \in DOMAIN c : x[i] = c[i]
  <2> HIDE DEF x
  <2> QED BY <1>2 DEF CohortIsWhole
<1>5. x = c
  <2> HIDE DEF x
  <2> QED BY <1>3, <1>4 DEF CohortIsWhole, IsList
<1> QED BY <1>5

NodesAreWhole(nodes) ==
  /\ IsList(nodes)
  /\ \A i \in DOMAIN nodes :
       nodes[i] = [kind |-> nodes[i].kind, responsibility |-> nodes[i].responsibility,
                   model |-> nodes[i].model, protected |-> nodes[i].protected]

(* nodes_to_json and nodes_from_json *)
LEMMA NodesReload ==
  ASSUME NEW nodes, NodesAreWhole(nodes)
  PROVE  NodesFromJson(NodesToJson(nodes)) = nodes
<1> DEFINE j == NodesToJson(nodes)
           x == NodesFromJson(j)
<1>1. DOMAIN j = DOMAIN nodes /\ DOMAIN x = DOMAIN nodes
  BY DEF NodesToJson, NodesFromJson
<1>2. ASSUME NEW i \in DOMAIN nodes
      PROVE  x[i] = [kind |-> nodes[i].kind,
                     responsibility |-> nodes[i].responsibility,
                     model |-> nodes[i].model, protected |-> nodes[i].protected]
  <2>1. j[i] = [kind |-> nodes[i].kind, responsibility |-> nodes[i].responsibility,
                model_assignment |-> nodes[i].model,
                protected_validation |-> nodes[i].protected]
    BY DEF NodesToJson
  <2>2. x[i] = [kind |-> Get(j[i], "kind"),
                responsibility |-> Get(j[i], "responsibility"),
                model |-> IF "model_assignment" \in DOMAIN j[i]
                          THEN j[i].model_assignment ELSE NULL,
                protected |-> j[i].protected_validation]
    <3> HIDE DEF j
    <3> QED BY <1>1 DEF NodesFromJson
  <2> HIDE DEF j, x
  <2> QED BY <2>1, <2>2 DEF Get
<1>3. x = [i \in DOMAIN nodes |-> x[i]]
  BY <1>1 DEF NodesFromJson
<1>4. \A i \in DOMAIN nodes : x[i] = nodes[i]
  <2> HIDE DEF x
  <2> QED BY <1>2 DEF NodesAreWhole
<1>5. x = nodes
  <2> HIDE DEF x
  <2> QED BY <1>3, <1>4 DEF NodesAreWhole, IsList
<1> QED BY <1>5

EdgesAreWhole(edges) ==
  /\ IsList(edges)
  /\ \A i \in DOMAIN edges : edges[i] = [from |-> edges[i].from, to |-> edges[i].to]

(* edges_to_json and edges_from_json *)
LEMMA EdgesReload ==
  ASSUME NEW edges, EdgesAreWhole(edges)
  PROVE  EdgesFromJson(EdgesToJson(edges)) = edges
<1> DEFINE j == EdgesToJson(edges)
           x == EdgesFromJson(j)
<1>1. DOMAIN j = DOMAIN edges /\ DOMAIN x = DOMAIN edges
  BY DEF EdgesToJson, EdgesFromJson
<1>2. ASSUME NEW i \in DOMAIN edges
      PROVE  x[i] = [from |-> edges[i].from, to |-> edges[i].to]
  <2>1. j[i] = [from |-> edges[i].from, to |-> edges[i].to]
    BY DEF EdgesToJson
  <2>2. x[i] = [from |-> Get(j[i], "from"), to |-> Get(j[i], "to")]
    <3> HIDE DEF j
    <3> QED BY <1>1 DEF EdgesFromJson, Edge
  <2> HIDE DEF j, x
  <2> QED BY <2>1, <2>2 DEF Get
<1>3. x = [i \in DOMAIN edges |-> x[i]]
  BY <1>1 DEF EdgesFromJson
<1>4. \A i \in DOMAIN edges : x[i] = edges[i]
  <2> HIDE DEF x
  <2> QED BY <1>2 DEF EdgesAreWhole
<1>5. x = edges
  <2> HIDE DEF x
  <2> QED BY <1>3, <1>4 DEF EdgesAreWhole, IsList
<1> QED BY <1>5

EnvelopeIsWhole(e) ==
  /\ e = [summary |-> e.summary, requested |-> e.requested]
  /\ IsList(e.requested)
  /\ \A i \in DOMAIN e.requested : e.requested[i] \in Capability

(* CAPABILITY_TEXT and its reader *)
LEMMA CapabilityReloads ==
  \A cap \in Capability : ParseCapability(CapabilityText[cap]) = cap
BY DEF Capability, CapabilityText, ParseCapability

(* envelope_to_json and envelope_from_json *)
LEMMA EnvelopeReloads ==
  ASSUME NEW e, EnvelopeIsWhole(e)
  PROVE  EnvelopeFromJson(EnvelopeToJson(e)) = e
<1> DEFINE words == [i \in DOMAIN e.requested |-> CapabilityText[e.requested[i]]]
           j == [summary |-> e.summary, requested |-> words]
<1>1. EnvelopeToJson(e) = j
  BY DEF EnvelopeToJson
<1>2. /\ Get(j, "summary") = e.summary
      /\ j.requested = words
  BY DEF Get
<1>3. [i \in DOMAIN words |-> ParseCapability(words[i])] = e.requested
  BY CapabilityReloads DEF EnvelopeIsWhole, IsList
<1>4. EnvelopeFromJson(j) =
        [summary |-> Get(j, "summary"),
         requested |-> [i \in DOMAIN j.requested |-> ParseCapability(j.requested[i])]]
  BY DEF EnvelopeFromJson
<1> HIDE DEF words, j
<1> QED BY <1>1, <1>2, <1>3, <1>4 DEF EnvelopeIsWhole

(* instrumentation_to_json and instrumentation_from_json *)
LEMMA MeasuresReload ==
  InstrumentationFromJson(InstrumentationToJson(Measured)) = Measured
<1> DEFINE j == InstrumentationToJson(Measured)
<1>1. j = Measured
  BY DEF InstrumentationToJson, Measured
<1> QED BY <1>1 DEF InstrumentationFromJson, InstrumentationToJson, Measured

---------------------------------------------------------------------------
(* Records.                                                                *)

IsRecord(r, fields) == r = [f \in fields |-> r[f]]

RunFields == {"id", "name", "at", "cohort"}
RunIsWhole(run) == IsRecord(run, RunFields) /\ CohortIsWhole(run.cohort)
RunRow(run) == [run EXCEPT !.cohort = CohortToJson(@)]

(* load_run *)
LEMMA RunReloads ==
  ASSUME NEW run, RunIsWhole(run)
  PROVE  [RunRow(run) EXCEPT !.cohort = CohortFromJson(@)] = run
<1>1. CohortFromJson(CohortToJson(run.cohort)) = run.cohort
  BY CohortReloads DEF RunIsWhole
<1> QED BY <1>1 DEF RunIsWhole, RunRow, IsRecord, RunFields

EventFields == {"id", "seq", "at", "kind"}
EventIsWhole(event) == IsRecord(event, EventFields) /\ KindIsWhole(event.kind)

(* RunEvent::from_stored_parts *)
LEMMA EventReloads ==
  ASSUME NEW event, EventIsWhole(event)
  PROVE  /\ [EventRow(event) EXCEPT !.kind = EventKindFromParts(@)] = event
         /\ EventRow(event).seq = event.seq
<1>1. EventKindFromParts(EventKindToParts(event.kind)) = event.kind
  BY KindReloads DEF EventIsWhole
<1> QED BY <1>1 DEF EventIsWhole, EventRow, IsRecord, EventFields

GraphFields == {"id", "nodes", "edges", "retry", "validation", "hash"}
GraphIsWhole(graph) ==
  /\ IsRecord(graph, GraphFields)
  /\ NodesAreWhole(graph.nodes) /\ EdgesAreWhole(graph.edges)

(* load_graphs *)
LEMMA GraphReloads ==
  ASSUME NEW graph, GraphIsWhole(graph)
  PROVE  /\ [GraphRow(graph) EXCEPT !.nodes = NodesFromJson(@),
                                    !.edges = EdgesFromJson(@)] = graph
         /\ GraphRow(graph).id = graph.id
<1>1. /\ NodesFromJson(NodesToJson(graph.nodes)) = graph.nodes
      /\ EdgesFromJson(EdgesToJson(graph.edges)) = graph.edges
  BY NodesReload, EdgesReload DEF GraphIsWhole
<1> QED BY <1>1 DEF GraphIsWhole, GraphRow, IsRecord, GraphFields

PlanFields ==
  {"id", "graph", "at", "hash", "instructions", "profile", "model", "revision",
   "policy", "allowed", "envelope", "manifest", "replacement", "identity"}
PlanIsWhole(plan) ==
  /\ IsRecord(plan, PlanFields) /\ EnvelopeIsWhole(plan.envelope)
  /\ plan.id # NULL /\ plan.graph # NULL

(* A plan, from its row and the row of its replacement *)
JoinedPlan(row, replacement) ==
  [c \in (DOMAIN row \ {"replacement_id"}) \cup {"replacement"} |->
     CASE c = "replacement" -> replacement
       [] c = "envelope" -> EnvelopeFromJson(row.envelope)
       [] OTHER -> row[c]]

(* load_plans *)
LEMMA PlanReloads ==
  ASSUME NEW plan, PlanIsWhole(plan)
  PROVE  LET row == PlanRow(plan)
         IN  /\ row.replacement_id = plan.replacement.id /\ row.id = plan.id
             /\ JoinedPlan(row, plan.replacement) = plan
<1> DEFINE row == PlanRow(plan)
           read == JoinedPlan(row, plan.replacement)
<1>1. DOMAIN plan = PlanFields /\ plan = [f \in PlanFields |-> plan[f]]
  BY DEF PlanIsWhole, IsRecord
<1>2. DOMAIN row = (PlanFields \ {"replacement"}) \cup {"replacement_id"}
  BY <1>1 DEF PlanRow
<1>3. /\ row.replacement_id = plan.replacement.id
      /\ row.envelope = EnvelopeToJson(plan.envelope)
      /\ \A f \in PlanFields \ {"replacement", "envelope"} : row[f] = plan[f]
  BY <1>1 DEF PlanRow, PlanFields
<1>4. EnvelopeFromJson(row.envelope) = plan.envelope
  BY <1>3, EnvelopeReloads DEF PlanIsWhole
<1> HIDE DEF row
<1>5. DOMAIN read = PlanFields
  BY <1>2 DEF PlanFields, JoinedPlan
<1>6. \A f \in PlanFields : read[f] = plan[f]
  BY <1>2, <1>3, <1>4 DEF PlanFields, JoinedPlan
<1>7. read = [f \in PlanFields |-> read[f]]
  BY <1>5 DEF JoinedPlan
<1>8. read = plan
  <2> HIDE DEF read
  <2> QED BY <1>1, <1>6, <1>7
<1>9. row.id = plan.id
  BY <1>3 DEF PlanFields
<1> QED BY <1>3, <1>8, <1>9 DEF row

GrantFields ==
  {"id", "cap", "resource", "scope", "plan", "graph", "approval", "issuer",
   "issued", "expires", "revoked", "budget", "left", "operation", "repeatable"}
GrantIsWhole(grant) ==
  /\ IsRecord(grant, GrantFields)
  /\ grant.cap \in Capability /\ grant.repeatable \in BOOLEAN
  /\ ResourceIsWhole(grant.resource) /\ ScopeIsWhole(grant.scope)
  /\ (grant.plan = NULL) = (grant.graph = NULL)
  /\ grant.left \in Nat /\ grant.budget \in Nat /\ grant.left <= grant.budget

(* insert_grant *)
LEMMA GrantColumns ==
  ASSUME NEW grant, GrantIsWhole(grant)
  PROVE  LET row == GrantRow(grant)
         IN  /\ IsRecord(row, GrantFields)
             /\ row.cap = CapabilityText[grant.cap]
             /\ row.resource = ResourceToJson(grant.resource)
             /\ row.scope = ActionScopeToJson(grant.scope)
             /\ row.repeatable = Bit(grant.repeatable)
             /\ \A f \in GrantFields \ {"cap", "resource", "scope", "repeatable"} :
                  row[f] = grant[f]
BY DEF GrantIsWhole, GrantRow, IsRecord, GrantFields

(* load_grant *)
LEMMA GrantReloads ==
  ASSUME NEW grant, GrantIsWhole(grant), NEW id, db.grants[id] = GrantRow(grant)
  PROVE  LoadGrant(id) = grant
<1> DEFINE row == GrantRow(grant)
           read == LoadGrant(id)
<1>1. /\ IsRecord(row, GrantFields)
      /\ row.cap = CapabilityText[grant.cap]
      /\ row.resource = ResourceToJson(grant.resource)
      /\ row.scope = ActionScopeToJson(grant.scope)
      /\ row.repeatable = Bit(grant.repeatable)
      /\ \A f \in GrantFields \ {"cap", "resource", "scope", "repeatable"} :
           row[f] = grant[f]
  BY GrantColumns
<1>2. (row.plan = NULL) = (row.graph = NULL) /\ row.left <= row.budget
  BY <1>1 DEF GrantIsWhole, GrantFields
<1>3. read = [row EXCEPT !.cap = ParseCapability(@),
                         !.resource = ResourceFromJson(@),
                         !.scope = ActionScopeFromJson(@), !.repeatable = (@ # 0)]
  <2> HIDE DEF row
  <2>1. db.grants[id] = row
    BY DEF row
  <2> QED BY <1>2, <2>1 DEF LoadGrant
<1>4. /\ ParseCapability(row.cap) = grant.cap
      /\ ResourceFromJson(row.resource) = grant.resource
      /\ ActionScopeFromJson(row.scope) = grant.scope
  BY <1>1, CapabilityReloads, ResourceReloads, ScopeReloads DEF GrantIsWhole
<1>5. (row.repeatable # 0) = grant.repeatable
  BY <1>1 DEF Bit, GrantIsWhole
<1> HIDE DEF row, read
<1>6. /\ IsRecord(read, GrantFields)
      /\ \A f \in GrantFields : read[f] = grant[f]
  BY <1>1, <1>3, <1>4, <1>5 DEF IsRecord, GrantFields
<1>7. read = grant
  BY <1>6 DEF IsRecord, GrantIsWhole
<1> QED BY <1>7 DEF read

EffectFields ==
  {"id", "attempt", "plan", "graph", "operation", "target", "grant", "phase",
   "claimant", "result", "certainty", "prepared", "claimed", "dispatched",
   "settled", "pre", "post"}
EffectIsWhole(effect) ==
  /\ IsRecord(effect, EffectFields) /\ effect.phase \in DOMAIN PhaseText
  /\ effect.result \in OperationResult /\ effect.certainty \in EffectCertainty

LEMMA WordsReload ==
  /\ \A phase \in DOMAIN PhaseText : ParsePhase(PhaseText[phase]) = phase
  /\ \A result \in OperationResult : ParseResult(ResultText[result]) = result
  /\ \A cert \in EffectCertainty : ParseCertainty(CertaintyText[cert]) = cert
<1>1. \A phase \in DOMAIN PhaseText : ParsePhase(PhaseText[phase]) = phase
  BY DEF PhaseText, ParsePhase
<1>2. \A result \in OperationResult : ParseResult(ResultText[result]) = result
  BY DEF OperationResult, ResultText, ParseResult
<1>3. \A cert \in EffectCertainty : ParseCertainty(CertaintyText[cert]) = cert
  BY DEF EffectCertainty, CertaintyText, ParseCertainty
<1> QED BY <1>1, <1>2, <1>3

(* insert_effect *)
LEMMA EffectColumns ==
  ASSUME NEW effect, EffectIsWhole(effect)
  PROVE  LET row == EffectRow(effect)
         IN  /\ IsRecord(row, EffectFields)
             /\ row.phase = PhaseText[effect.phase]
             /\ row.result = ResultText[effect.result]
             /\ row.certainty = CertaintyText[effect.certainty]
             /\ \A f \in EffectFields \ {"phase", "result", "certainty"} :
                  row[f] = effect[f]
BY DEF EffectIsWhole, EffectRow, IsRecord, EffectFields

(* load_effect *)
LEMMA EffectReloads ==
  ASSUME NEW effect, EffectIsWhole(effect), NEW id,
         db.effects[id] = EffectRow(effect)
  PROVE  LoadEffect(id) = effect
<1> DEFINE row == EffectRow(effect)
           read == LoadEffect(id)
<1>1. /\ IsRecord(row, EffectFields)
      /\ row.phase = PhaseText[effect.phase]
      /\ row.result = ResultText[effect.result]
      /\ row.certainty = CertaintyText[effect.certainty]
      /\ \A f \in EffectFields \ {"phase", "result", "certainty"} : row[f] = effect[f]
  BY EffectColumns
<1>2. read = [row EXCEPT !.phase = ParsePhase(@), !.result = ParseResult(@),
                         !.certainty = ParseCertainty(@)]
  BY DEF LoadEffect
<1>3. /\ ParsePhase(row.phase) = effect.phase
      /\ ParseResult(row.result) = effect.result
      /\ ParseCertainty(row.certainty) = effect.certainty
  BY <1>1, WordsReload DEF EffectIsWhole
<1> HIDE DEF row, read
<1>4. /\ IsRecord(read, EffectFields)
      /\ \A f \in EffectFields : read[f] = effect[f]
  BY <1>1, <1>2, <1>3 DEF IsRecord, EffectFields
<1>5. read = effect
  BY <1>4 DEF IsRecord, EffectIsWhole
<1> QED BY <1>5 DEF read

(* update_effect: the columns it leaves alone are those a step of the      *)
(* journal leaves alone.                                                   *)
LEMMA UpdateIsWhole ==
  ASSUME NEW old, EffectIsWhole(old), NEW new, EffectIsWhole(new),
         \A f \in EffectFields \ {"phase", "claimant", "result", "certainty",
                                  "claimed", "dispatched", "settled"} :
           new[f] = old[f]
  PROVE  UpdatedEffect(EffectRow(old), new) = EffectRow(new)
<1> DEFINE row == EffectRow(old)
           next == EffectRow(new)
           updated == UpdatedEffect(row, new)
<1>1. /\ IsRecord(row, EffectFields) /\ IsRecord(next, EffectFields)
      /\ \A f \in EffectFields \ {"phase", "result", "certainty"} :
           row[f] = old[f] /\ next[f] = new[f]
  BY EffectColumns
<1>2. updated =
        [row EXCEPT !.phase = next.phase, !.claimant = next.claimant,
                    !.result = next.result, !.certainty = next.certainty,
                    !.claimed = next.claimed, !.dispatched = next.dispatched,
                    !.settled = next.settled]
  BY DEF UpdatedEffect
<1> HIDE DEF row, next, updated
<1>3. /\ IsRecord(updated, EffectFields)
      /\ \A f \in EffectFields : updated[f] = next[f]
  BY <1>1, <1>2 DEF IsRecord, EffectFields
<1>4. updated = next
  BY <1>1, <1>3 DEF IsRecord
<1> QED BY <1>4 DEF updated, row, next

ValidationFields ==
  {"id", "plan", "graph", "label", "approved", "observed", "diff", "passed", "at"}
ValidationIsWhole(validation) ==
  IsRecord(validation, ValidationFields) /\ validation.passed \in BOOLEAN

(* load_validations *)
LEMMA ValidationReloads ==
  ASSUME NEW validation, ValidationIsWhole(validation)
  PROVE  /\ [ValidationRow(validation) EXCEPT !.passed = (@ # 0)] = validation
         /\ ValidationRow(validation).id = validation.id
<1>1. (Bit(validation.passed) # 0) = validation.passed
  BY DEF Bit, ValidationIsWhole
<1> QED BY <1>1 DEF ValidationIsWhole, ValidationRow, IsRecord, ValidationFields

DenialFields == {"id", "reason", "grant", "resource", "at"}
DenialIsWhole(denial) ==
  /\ IsRecord(denial, DenialFields) /\ IsList(denial.resource)
  /\ \A i \in DOMAIN denial.resource : ResourceIsWhole(denial.resource[i])

(* load_denials *)
LEMMA DenialReloads ==
  ASSUME NEW denial, DenialIsWhole(denial)
  PROVE  /\ [DenialRow(denial) EXCEPT
               !.resource = [i \in DOMAIN @ |-> ResourceFromJson(@[i])]] = denial
         /\ DenialRow(denial).id = denial.id
<1> DEFINE list == denial.resource
           json == [i \in DOMAIN list |-> ResourceToJson(list[i])]
<1>1. [i \in DOMAIN json |-> ResourceFromJson(json[i])] = list
  <2>1. \A i \in DOMAIN list : ResourceFromJson(json[i]) = list[i]
    BY ResourceReloads DEF DenialIsWhole
  <2> QED BY <2>1 DEF DenialIsWhole, IsList
<1>2. DenialRow(denial) = [denial EXCEPT !.resource = json]
  BY DEF DenialRow
<1> HIDE DEF json
<1>3. DenialRow(denial).resource = json
  BY <1>2 DEF DenialIsWhole, IsRecord, DenialFields
<1> QED BY <1>1, <1>2, <1>3 DEF DenialIsWhole, IsRecord, DenialFields

FinalFields ==
  {"plan", "graph", "label", "stopped", "instrumentation", "algorithm",
   "fingerprint", "cohort", "at"}
FinalIsWhole(final) ==
  /\ IsRecord(final, FinalFields) /\ final.stopped \in BOOLEAN
  /\ CohortIsWhole(final.cohort) /\ final.instrumentation = Measured

(* load_final_result *)
LEMMA FinalReloads ==
  ASSUME NEW final, FinalIsWhole(final)
  PROVE  [FinalRow(final) EXCEPT !.stopped = (@ # 0), !.cohort = CohortFromJson(@),
            !.instrumentation = InstrumentationFromJson(@)] = final
<1>1. /\ (Bit(final.stopped) # 0) = final.stopped
      /\ CohortFromJson(CohortToJson(final.cohort)) = final.cohort
      /\ InstrumentationFromJson(InstrumentationToJson(final.instrumentation))
           = final.instrumentation
  BY CohortReloads, MeasuresReload DEF Bit, FinalIsWhole
<1>2. /\ IsRecord(FinalRow(final), FinalFields)
      /\ FinalRow(final).stopped = Bit(final.stopped)
      /\ FinalRow(final).cohort = CohortToJson(final.cohort)
      /\ FinalRow(final).instrumentation = InstrumentationToJson(final.instrumentation)
      /\ \A f \in FinalFields \ {"stopped", "cohort", "instrumentation"} :
           FinalRow(final)[f] = final[f]
  BY DEF FinalIsWhole, FinalRow, IsRecord, FinalFields
<1> DEFINE read == [FinalRow(final) EXCEPT !.stopped = (@ # 0),
                      !.cohort = CohortFromJson(@),
                      !.instrumentation = InstrumentationFromJson(@)]
<1>3. /\ IsRecord(read, FinalFields)
      /\ \A f \in FinalFields : read[f] = final[f]
  BY <1>1, <1>2 DEF IsRecord, FinalFields
<1>4. read = final
  <2> HIDE DEF read
  <2> QED BY <1>3 DEF IsRecord, FinalIsWhole
<1> QED BY <1>4

---------------------------------------------------------------------------
(* Tables: what is in the database is what the writers made of the records *)
(* that the use cases returned.                                            *)

Columns ==
  {"run", "events", "plans", "graphs", "replacements", "approvals", "grants",
   "effects", "checkpoints", "validations", "denials", "lease", "final"}

IsSequence(s) == \E S : s \in Seq(S)

RunMatches(row, run) == RunIsWhole(run) /\ row = RunRow(run)

EventsMatch(rows, events) ==
  /\ IsSequence(rows) /\ IsSequence(events)
  /\ Len(rows) = Len(events) /\ Len(events) # 0
  /\ \A i \in 1 .. Len(events) :
       EventIsWhole(events[i]) /\ events[i].seq = i /\ rows[i] = EventRow(events[i])

GraphsMatch(rows, graphs) ==
  /\ IsList(graphs) /\ DOMAIN rows = DOMAIN graphs
  /\ \A id \in DOMAIN graphs :
       GraphIsWhole(graphs[id]) /\ rows[id] = GraphRow(graphs[id])

(* A plan's replacement has a row of its own, and is not overwritten *)
PlansMatch(rows, plans, replacements) ==
  /\ IsList(plans) /\ DOMAIN rows = DOMAIN plans
  /\ \A p \in DOMAIN plans :
       /\ PlanIsWhole(plans[p]) /\ rows[p] = PlanRow(plans[p])
       /\ plans[p].id = p /\ plans[p].revision = Revision
       /\ plans[p].at \in 0 .. MaxEvents
       /\ plans[p].replacement.id \in DOMAIN replacements
       /\ replacements[plans[p].replacement.id] = plans[p].replacement

(* A pair in an approval, and so in a grant, is never half a pair *)
ApprovalsMatch(rows, approvals) ==
  /\ rows = approvals
  /\ \A a \in DOMAIN approvals :
       approvals[a].plan # NULL /\ approvals[a].graph # NULL

GrantsMatch(rows, grants) ==
  /\ IsList(grants) /\ DOMAIN rows = DOMAIN grants
  /\ \A id \in DOMAIN grants :
       GrantIsWhole(grants[id]) /\ rows[id] = GrantRow(grants[id])

EffectsMatch(rows, effects, grants) ==
  /\ IsList(effects) /\ DOMAIN rows = DOMAIN effects
  /\ \A id \in DOMAIN effects :
       /\ EffectIsWhole(effects[id]) /\ rows[id] = EffectRow(effects[id])
       /\ effects[id].grant \in DOMAIN grants

ValidationsMatch(rows, validations) ==
  /\ IsList(validations) /\ DOMAIN rows = DOMAIN validations
  /\ \A id \in DOMAIN validations :
       /\ ValidationIsWhole(validations[id])
       /\ rows[id] = ValidationRow(validations[id])

DenialsMatch(rows, denials) ==
  /\ IsList(denials) /\ DOMAIN rows = DOMAIN denials
  /\ \A id \in DOMAIN denials :
       DenialIsWhole(denials[id]) /\ rows[id] = DenialRow(denials[id])

FinalMatches(rows, final) ==
  /\ IsList(final) /\ DOMAIN rows = DOMAIN final
  /\ \A i \in DOMAIN final : FinalIsWhole(final[i]) /\ rows[i] = FinalRow(final[i])

(* A checkpoint is of a beginning of the log, under the policy of every    *)
(* plan, and there is a plan                                               *)
CheckpointsHold(rows, checkpoints, plans, events) ==
  /\ rows = checkpoints
  /\ \A c \in DOMAIN checkpoints :
       /\ checkpoints[c].last \in 0 .. Len(events)
       /\ checkpoints[c].chain = HashEventChain(SubSeq(events, 1, checkpoints[c].last))
       /\ checkpoints[c].revision = Revision
       /\ DOMAIN plans # {}

RecordsMatch(tables, memory) ==
  /\ IsRecord(tables, Columns) /\ IsRecord(memory, Columns)
  /\ RunMatches(tables.run, memory.run)
  /\ GraphsMatch(tables.graphs, memory.graphs)
  /\ tables.replacements = memory.replacements
  /\ PlansMatch(tables.plans, memory.plans, memory.replacements)
  /\ ApprovalsMatch(tables.approvals, memory.approvals)
  /\ GrantsMatch(tables.grants, memory.grants)
  /\ EffectsMatch(tables.effects, memory.effects, memory.grants)
  /\ ValidationsMatch(tables.validations, memory.validations)
  /\ DenialsMatch(tables.denials, memory.denials)
  /\ FinalMatches(tables.final, memory.final)
  /\ CheckpointsHold(tables.checkpoints, memory.checkpoints, memory.plans,
                     memory.events)
  /\ tables.lease = memory.lease

EvidenceInv == RecordsMatch(db, kept) /\ EventsMatch(db.events, kept.events)

---------------------------------------------------------------------------
(* Reading.                                                                *)

LEMMA CountBelow ==
  ASSUME NEW n \in Nat
  PROVE  Cardinality(1 .. n) = n
<1>1. Cardinality(1 .. n) = IF 1 > n THEN 0 ELSE n - 1 + 1
  BY FS_Interval
<1> QED BY <1>1

LEMMA SequenceFacts ==
  ASSUME NEW s, IsSequence(s)
  PROVE  Len(s) \in Nat /\ DOMAIN s = 1 .. Len(s) /\ s = [i \in 1 .. Len(s) |-> s[i]]
<1>1. PICK S : s \in Seq(S)
  BY DEF IsSequence
<1>2. Len(s) \in Nat /\ s \in [1 .. Len(s) -> S]
  BY <1>1, LenProperties
<1> QED BY <1>2

(* ORDER BY sequence leaves a log that is in order as it is *)
LEMMA LogInOrder ==
  ASSUME NEW rows, IsSequence(rows), \A i \in 1 .. Len(rows) : rows[i].seq = i
  PROVE  BySequence(rows) = rows
<1> DEFINE n == Len(rows)
           before(i) == {j \in DOMAIN rows : rows[j].seq < rows[i].seq}
           place(k) == CHOOSE i \in DOMAIN rows : Cardinality(before(i)) = k - 1
<1>1. n \in Nat /\ DOMAIN rows = 1 .. n /\ rows = [i \in 1 .. n |-> rows[i]]
  BY SequenceFacts
<1>2. ASSUME NEW i \in 1 .. n PROVE Cardinality(before(i)) = i - 1
  <2>1. before(i) = 1 .. (i - 1)
    BY <1>1
  <2>2. i - 1 \in Nat
    BY <1>1
  <2> QED BY <2>1, <2>2, CountBelow
<1>3. ASSUME NEW k \in 1 .. n PROVE place(k) = k
  <2>1. \A i \in 1 .. n : Cardinality(before(i)) = k - 1 => i = k
    <3> HIDE DEF before
    <3> QED BY <1>1, <1>2
  <2>2. k \in DOMAIN rows /\ Cardinality(before(k)) = k - 1
    BY <1>1, <1>2
  <2> HIDE DEF before
  <2> QED BY <1>1, <2>1, <2>2
<1>4. BySequence(rows) = [k \in 1 .. n |-> rows[place(k)]]
  BY <1>1 DEF BySequence
<1> HIDE DEF place, n
<1> QED BY <1>1, <1>3, <1>4

LEMMA EventsReload ==
  ASSUME EventsMatch(db.events, kept.events)
  PROVE  LoadEvents = kept.events
<1> DEFINE n == Len(kept.events)
<1>1. /\ n \in Nat /\ kept.events = [i \in 1 .. n |-> kept.events[i]]
      /\ IsSequence(db.events) /\ Len(db.events) = n /\ DOMAIN db.events = 1 .. n
  BY SequenceFacts DEF EventsMatch
<1>2. ASSUME NEW i \in 1 .. n
      PROVE  /\ [db.events[i] EXCEPT !.kind = EventKindFromParts(@)] = kept.events[i]
             /\ db.events[i].seq = i
  <2>1. /\ EventIsWhole(kept.events[i]) /\ kept.events[i].seq = i
        /\ db.events[i] = EventRow(kept.events[i])
    BY DEF EventsMatch
  <2> QED BY <2>1, EventReloads
<1>3. BySequence(db.events) = db.events
  BY <1>1, <1>2, LogInOrder
<1>4. LoadEvents = [i \in 1 .. n |->
                      [db.events[i] EXCEPT !.kind = EventKindFromParts(@)]]
  BY <1>1, <1>3 DEF LoadEvents
<1> HIDE DEF n
<1> QED BY <1>1, <1>2, <1>4

LEMMA PlansReload ==
  ASSUME db.replacements = kept.replacements,
         PlansMatch(db.plans, kept.plans, kept.replacements)
  PROVE  LoadPlans = kept.plans
<1> DEFINE read(row) == JoinedPlan(row, db.replacements[row.replacement_id])
<1>1. LoadPlans = [id \in {p \in DOMAIN db.plans :
                             db.plans[p].replacement_id \in DOMAIN db.replacements} |->
                     read(db.plans[id])]
  BY DEF LoadPlans, JoinedPlan
<1>2. ASSUME NEW p \in DOMAIN kept.plans
      PROVE  /\ db.plans[p].replacement_id \in DOMAIN db.replacements
             /\ read(db.plans[p]) = kept.plans[p]
  <2> DEFINE plan == kept.plans[p]
             row == PlanRow(plan)
  <2>1. /\ PlanIsWhole(plan) /\ db.plans[p] = row
        /\ plan.replacement.id \in DOMAIN db.replacements
        /\ db.replacements[plan.replacement.id] = plan.replacement
    BY DEF PlansMatch
  <2>2. row.replacement_id = plan.replacement.id /\ JoinedPlan(row, plan.replacement) = plan
    <3> HIDE DEF plan
    <3> QED BY <2>1, PlanReloads
  <2> HIDE DEF row
  <2> QED BY <2>1, <2>2
<1> HIDE DEF read
<1> QED BY <1>1, <1>2 DEF PlansMatch, IsList

(* reconstruct_run *)
LEMMA RunReads ==
  ASSUME EvidenceInv
  PROVE  /\ LoadRun = kept.run /\ LoadEvents = kept.events /\ LoadPlans = kept.plans
         /\ LoadGraphs = kept.graphs /\ LoadReplacements = kept.replacements
         /\ LoadApprovals = kept.approvals /\ LoadGrants = kept.grants
         /\ LoadEffects = kept.effects /\ LoadCheckpoints = kept.checkpoints
         /\ LoadValidations = kept.validations /\ LoadDenials = kept.denials
         /\ LoadLease = kept.lease /\ LoadFinal = kept.final
<1>1. LoadRun = kept.run
  BY RunReloads DEF LoadRun, EvidenceInv, RecordsMatch, RunMatches
<1>2. LoadEvents = kept.events
  BY EventsReload DEF EvidenceInv, RecordsMatch
<1>3. LoadPlans = kept.plans
  BY PlansReload DEF EvidenceInv, RecordsMatch
<1>4. LoadGraphs = kept.graphs
  <2>1. GraphsMatch(db.graphs, kept.graphs)
    BY DEF EvidenceInv, RecordsMatch
  <2>2. \A id \in DOMAIN kept.graphs :
          [db.graphs[id] EXCEPT !.nodes = NodesFromJson(@),
                                !.edges = EdgesFromJson(@)] = kept.graphs[id]
    BY <2>1, GraphReloads DEF GraphsMatch
  <2> QED BY <2>1, <2>2 DEF LoadGraphs, GraphsMatch, IsList
<1>5. LoadGrants = kept.grants
  <2>1. GrantsMatch(db.grants, kept.grants)
    BY DEF EvidenceInv, RecordsMatch
  <2>2. \A id \in DOMAIN kept.grants : LoadGrant(id) = kept.grants[id]
    BY <2>1, GrantReloads DEF GrantsMatch
  <2> QED BY <2>1, <2>2 DEF LoadGrants, GrantsMatch, IsList
<1>6. LoadEffects = kept.effects
  <2>1. EffectsMatch(db.effects, kept.effects, kept.grants)
    BY DEF EvidenceInv, RecordsMatch
  <2>2. \A id \in DOMAIN kept.effects : LoadEffect(id) = kept.effects[id]
    BY <2>1, EffectReloads DEF EffectsMatch
  <2> QED BY <2>1, <2>2 DEF LoadEffects, EffectsMatch, IsList
<1>7. LoadValidations = kept.validations
  <2>1. ValidationsMatch(db.validations, kept.validations)
    BY DEF EvidenceInv, RecordsMatch
  <2>2. \A id \in DOMAIN kept.validations :
          [db.validations[id] EXCEPT !.passed = (@ # 0)] = kept.validations[id]
    BY <2>1, ValidationReloads DEF ValidationsMatch
  <2> QED BY <2>1, <2>2 DEF LoadValidations, ValidationsMatch, IsList
<1>8. LoadDenials = kept.denials
  <2>1. DenialsMatch(db.denials, kept.denials)
    BY DEF EvidenceInv, RecordsMatch
  <2>2. \A id \in DOMAIN kept.denials :
          [db.denials[id] EXCEPT
             !.resource = [i \in DOMAIN @ |-> ResourceFromJson(@[i])]] = kept.denials[id]
    BY <2>1, DenialReloads DEF DenialsMatch
  <2> QED BY <2>1, <2>2 DEF LoadDenials, DenialsMatch, IsList
<1>9. LoadFinal = kept.final
  <2>1. FinalMatches(db.final, kept.final)
    BY DEF EvidenceInv, RecordsMatch
  <2>2. \A i \in DOMAIN kept.final :
          [db.final[i] EXCEPT !.stopped = (@ # 0), !.cohort = CohortFromJson(@),
             !.instrumentation = InstrumentationFromJson(@)] = kept.final[i]
    <3>1. TAKE i \in DOMAIN kept.final
    <3>2. FinalIsWhole(kept.final[i]) /\ db.final[i] = FinalRow(kept.final[i])
      BY <2>1 DEF FinalMatches
    <3> QED BY <3>2, FinalReloads
  <2> QED BY <2>1, <2>2 DEF LoadFinal, FinalMatches, IsList
<1>10. /\ LoadReplacements = kept.replacements /\ LoadApprovals = kept.approvals
       /\ LoadCheckpoints = kept.checkpoints /\ LoadLease = kept.lease
  BY DEF EvidenceInv, RecordsMatch, ApprovalsMatch, CheckpointsHold, LoadReplacements,
         LoadApprovals, LoadCheckpoints, LoadLease
<1> QED BY <1>1, <1>2, <1>3, <1>4, <1>5, <1>6, <1>7, <1>8, <1>9, <1>10

(* A checkpoint never asks for the Run to be abandoned *)
LEMMA CheckpointResumes ==
  ASSUME EvidenceInv, NEW c \in DOMAIN kept.checkpoints
  PROVE  ResumeDecision(kept.checkpoints[c]) # "RequireReapprovalOrAbandon"
<1> DEFINE events == kept.events
           n == Len(events)
           checkpoint == kept.checkpoints[c]
           latest == CHOOSE p \in DOMAIN kept.plans :
                       \A q \in DOMAIN kept.plans : kept.plans[q].at <= kept.plans[p].at
<1>1. /\ n \in Nat /\ DOMAIN events = 1 .. n
      /\ \A i \in 1 .. n : events[i].seq = i
  BY SequenceFacts DEF EvidenceInv, RecordsMatch, EventsMatch
<1>2. /\ checkpoint.last \in 0 .. n
      /\ checkpoint.chain = HashEventChain(SubSeq(events, 1, checkpoint.last))
      /\ checkpoint.revision = Revision /\ DOMAIN kept.plans # {}
  BY DEF EvidenceInv, RecordsMatch, CheckpointsHold
<1> HIDE DEF events, n, checkpoint
<1>3. Cardinality({i \in DOMAIN events : events[i].seq <= checkpoint.last})
        = checkpoint.last
  <2>1. {i \in DOMAIN events : events[i].seq <= checkpoint.last} = 1 .. checkpoint.last
    BY <1>1, <1>2
  <2>2. checkpoint.last \in Nat
    BY <1>1, <1>2
  <2>3. Cardinality(1 .. checkpoint.last) = checkpoint.last
    BY <2>2, CountBelow
  <2> QED BY <2>1, <2>3
<1>4. kept.plans[latest].revision = Revision
  <2> DEFINE times == {kept.plans[p].at : p \in DOMAIN kept.plans}
  <2>1. /\ \A p \in DOMAIN kept.plans : kept.plans[p].at \in 0 .. MaxEvents
        /\ \A p \in DOMAIN kept.plans : kept.plans[p].revision = Revision
    BY DEF EvidenceInv, RecordsMatch, PlansMatch
  <2>2. times \in SUBSET (0 .. MaxEvents) /\ times # {}
    BY <1>2, <2>1
  <2>3. PICK t \in times : \A u \in times : u <= t
    <3> HIDE DEF times
    <3> QED BY <2>2, GreatestExists, EvidenceAssumption
  <2>4. \E p \in DOMAIN kept.plans :
          \A q \in DOMAIN kept.plans : kept.plans[q].at <= kept.plans[p].at
    BY <2>3
  <2>5. latest \in DOMAIN kept.plans
    BY <2>4
  <2> HIDE DEF latest
  <2> QED BY <2>1, <2>5
<1>5. LoadEvents = events /\ LoadPlans = kept.plans
  BY RunReads DEF events
<1> DEFINE expired == \E g \in DOMAIN LoadGrants :
                        LoadGrants[g].revoked # 0 \/ Now >= LoadGrants[g].expires
           confirmed == \E e \in DOMAIN LoadEffects :
             /\ LoadEffects[e].operation = RegisteredOperation("CreateOrReplace").id
             /\ LoadEffects[e].certainty = "ConfirmedCommitted"
           matches == /\ HashEventChain(SubSeq(events, 1, checkpoint.last)) = checkpoint.chain
                      /\ kept.plans[latest].revision = checkpoint.revision
<1>6. ResumeDecision(checkpoint) = EvaluateResume(matches, expired, confirmed)
  BY <1>3, <1>5 DEF ResumeDecision
<1>7. matches
  BY <1>2, <1>4
<1>8. ResumeDecision(checkpoint) # "RequireReapprovalOrAbandon"
  <2> HIDE DEF matches, expired, confirmed
  <2> QED BY <1>6, <1>7 DEF EvaluateResume
<1> QED BY <1>8 DEF checkpoint

LEMMA EverythingReloads ==
  ASSUME EvidenceInv
  PROVE  EvidenceReloads
<1>1. Reconstructed = kept
  <2>1. kept = [c \in Columns |-> kept[c]]
    BY DEF EvidenceInv, RecordsMatch, IsRecord
  <2>2. Reconstructed =
          [run |-> kept.run, events |-> kept.events, plans |-> kept.plans,
           graphs |-> kept.graphs, replacements |-> kept.replacements,
           approvals |-> kept.approvals, grants |-> kept.grants,
           effects |-> kept.effects, checkpoints |-> kept.checkpoints,
           validations |-> kept.validations, denials |-> kept.denials,
           lease |-> kept.lease, final |-> kept.final]
    BY RunReads DEF Reconstructed
  <2> QED BY <2>1, <2>2 DEF Columns
<1>2. \A c \in DOMAIN LoadCheckpoints :
        ResumeDecision(LoadCheckpoints[c]) # "RequireReapprovalOrAbandon"
  BY RunReads, CheckpointResumes
<1> QED BY <1>1, <1>2 DEF EvidenceReloads

---------------------------------------------------------------------------
(* Writing: one transaction.                                               *)

(* A tuple of tables in which one is another *)
Replaced(new, old, column, value) ==
  /\ IsRecord(new, Columns) /\ new[column] = value
  /\ \A c \in Columns \ {column} : new[c] = old[c]

LEMMA Extended ==
  ASSUME NEW s, IsSequence(s), NEW e
  PROVE  /\ IsSequence(Append(s, e)) /\ Len(Append(s, e)) = Len(s) + 1
         /\ \A i \in 1 .. Len(s) : Append(s, e)[i] = s[i]
         /\ Append(s, e)[Len(s) + 1] = e
         /\ \A k \in 0 .. Len(s) : SubSeq(Append(s, e), 1, k) = SubSeq(s, 1, k)
<1>1. PICK S : s \in Seq(S)
  BY DEF IsSequence
<1> DEFINE T == S \cup {e}
           new == Append(s, e)
<1>2. s \in Seq(T) /\ new \in Seq(T) /\ Len(s) \in Nat
  BY <1>1
<1>3. /\ Len(new) = Len(s) + 1 /\ new[Len(s) + 1] = e
      /\ \A i \in 1 .. Len(s) : new[i] = s[i]
  BY <1>2
<1> HIDE DEF T, new
<1>4. ASSUME NEW k \in 0 .. Len(s)
      PROVE  SubSeq(new, 1, k) = SubSeq(s, 1, k)
  <2>1. SubSeq(new, 1, k) = [i \in 1 .. k |-> new[i]]
    BY <1>2, <1>3
  <2>2. SubSeq(s, 1, k) = [i \in 1 .. k |-> s[i]]
    BY <1>2
  <2>3. \A i \in 1 .. k : new[i] = s[i]
    BY <1>2, <1>3
  <2> QED BY <2>1, <2>2, <2>3
<1> QED BY <1>2, <1>3, <1>4 DEF new, IsSequence

(* The number of the next event *)
LEMMA NextIsNext ==
  ASSUME EvidenceInv
  PROVE  /\ NextSequence = Len(kept.events) + 1 /\ Now = Len(kept.events) + 1
         /\ Len(kept.events) \in Nat
<1>1. LoadEvents = kept.events
  BY RunReads
<1>2. /\ Len(kept.events) \in Nat /\ Len(kept.events) # 0
      /\ DOMAIN kept.events = 1 .. Len(kept.events)
      /\ Len(db.events) = Len(kept.events)
  BY SequenceFacts DEF EvidenceInv, EventsMatch
<1>3. kept.events # <<>>
  BY <1>2
<1>4. Last(kept.events).seq = Len(kept.events)
  BY <1>2 DEF EvidenceInv, EventsMatch, Last
<1> QED BY <1>1, <1>2, <1>3, <1>4 DEF NextSequence, Now

(* A transaction that leaves matching tables leaves a matching database *)
LEMMA Persisted ==
  ASSUME EvidenceInv, NEW tables, NEW memory, NEW kind, NEW fields,
         RecordsMatch(tables, memory),
         tables.events = db.events, memory.events = kept.events,
         KindIsWhole([kind |-> kind, fields |-> fields]),
         PersistWith(tables, memory, kind, fields)
  PROVE  EvidenceInv'
<1> DEFINE event == NewEvent(kind, fields)
           n == Len(kept.events)
<1>1. /\ db' = [tables EXCEPT !.events = Append(db.events, EventRow(event))]
      /\ kept' = [memory EXCEPT !.events = Append(kept.events, event)]
  BY DEF PersistWith
<1>2. IsRecord(tables, Columns) /\ IsRecord(memory, Columns) /\ "events" \in Columns
  BY DEF RecordsMatch, Columns
<1>3. /\ IsRecord(db', Columns) /\ IsRecord(kept', Columns)
      /\ db'.events = Append(db.events, EventRow(event))
      /\ kept'.events = Append(kept.events, event)
      /\ \A c \in Columns \ {"events"} : db'[c] = tables[c] /\ kept'[c] = memory[c]
  <2> DEFINE rows == Append(db.events, EventRow(event))
             log == Append(kept.events, event)
  <2>1. db' = [tables EXCEPT !["events"] = rows] /\ kept' = [memory EXCEPT !["events"] = log]
    BY <1>1
  <2> HIDE DEF rows, log
  <2>2. /\ IsRecord(db', Columns) /\ db'["events"] = rows
        /\ \A c \in Columns \ {"events"} : db'[c] = tables[c]
    BY <1>2, <2>1 DEF IsRecord
  <2>3. /\ IsRecord(kept', Columns) /\ kept'["events"] = log
        /\ \A c \in Columns \ {"events"} : kept'[c] = memory[c]
    BY <1>2, <2>1 DEF IsRecord
  <2> QED BY <2>2, <2>3 DEF rows, log
<1>4. EventIsWhole(event) /\ event.seq = n + 1 /\ n \in Nat
  <2>1. event = [id |-> Id("event", Now), seq |-> NextSequence, at |-> Now,
                 kind |-> [kind |-> kind, fields |-> fields]]
    BY DEF NewEvent
  <2> HIDE DEF event
  <2> QED BY <2>1, NextIsNext DEF EventIsWhole, IsRecord, EventFields
<1>5. EventsMatch(db'.events, kept'.events)
  <2> HIDE DEF event
  <2>1. /\ IsSequence(db.events) /\ IsSequence(kept.events)
        /\ Len(db.events) = n
        /\ \A i \in 1 .. n : /\ EventIsWhole(kept.events[i]) /\ kept.events[i].seq = i
                             /\ db.events[i] = EventRow(kept.events[i])
    BY DEF EvidenceInv, EventsMatch
  <2>2. /\ IsSequence(db'.events) /\ Len(db'.events) = n + 1
        /\ \A i \in 1 .. n : db'.events[i] = db.events[i]
        /\ db'.events[n + 1] = EventRow(event)
    BY <1>3, <2>1, Extended
  <2>3. /\ IsSequence(kept'.events) /\ Len(kept'.events) = n + 1
        /\ \A i \in 1 .. n : kept'.events[i] = kept.events[i]
        /\ kept'.events[n + 1] = event
    BY <1>3, <2>1, Extended
  <2>4. \A i \in 1 .. n + 1 :
          /\ EventIsWhole(kept'.events[i]) /\ kept'.events[i].seq = i
          /\ db'.events[i] = EventRow(kept'.events[i])
    <3>1. TAKE i \in 1 .. n + 1
    <3>2. CASE i = n + 1
      BY <1>4, <2>2, <2>3, <3>2
    <3>3. CASE i \in 1 .. n
      BY <2>1, <2>2, <2>3, <3>3
    <3> QED BY <1>4, <3>2, <3>3
  <2> QED BY <1>4, <2>2, <2>3, <2>4 DEF EventsMatch
<1>6. CheckpointsHold(tables.checkpoints, memory.checkpoints, memory.plans, kept'.events)
  <2>1. CheckpointsHold(tables.checkpoints, memory.checkpoints, memory.plans, kept.events)
    BY DEF RecordsMatch
  <2>2. /\ IsSequence(kept.events) /\ n \in Nat
    BY <1>4 DEF EvidenceInv, EventsMatch
  <2>3. /\ Len(kept'.events) = n + 1
        /\ \A k \in 0 .. n : SubSeq(kept'.events, 1, k) = SubSeq(kept.events, 1, k)
    BY <1>3, <2>2, Extended
  <2>4. \A k \in 0 .. n : k \in 0 .. n + 1
    BY <2>2
  <2> QED BY <2>1, <2>3, <2>4 DEF CheckpointsHold
<1>7. RecordsMatch(db', kept')
  BY <1>3, <1>6 DEF RecordsMatch, Columns
<1> QED BY <1>5, <1>7 DEF EvidenceInv

(* The events of this model carry what their kinds carry *)
LEMMA KindsAreWhole ==
  /\ \A k \in {"Completed", "Paused", "Cancelled", "RunCreated"} :
       KindIsWhole([kind |-> k, fields |-> <<>>])
  /\ \A k \in {"Approved", "GrantIssued", "GrantRevoked", "Denied",
               "EffectPrepared", "EffectDispatched", "Checkpointed", "Validated",
               "LeaseAcquired", "LeaseReleased", "LeaseTakeover"} : \A x :
       KindIsWhole([kind |-> k, fields |-> <<x>>])
  /\ \A x, y : KindIsWhole([kind |-> "EffectClaimed", fields |-> <<x, y>>])
  /\ \A x, y, z : KindIsWhole([kind |-> "PairFrozen", fields |-> <<x, y, z>>])
  /\ \A x : \A cert \in EffectCertainty \ {"None"} :
       KindIsWhole([kind |-> "EffectSettled", fields |-> <<x, <<cert>>>>])
<1>1. \A k \in {"Completed", "Paused", "Cancelled", "RunCreated"} :
        KindIsWhole([kind |-> k, fields |-> <<>>])
  BY DEF KindIsWhole, IsValue, IsTuple
<1>2. \A k \in {"Approved", "GrantIssued", "GrantRevoked", "Denied",
                "EffectPrepared", "EffectDispatched", "Checkpointed", "Validated",
                "LeaseAcquired", "LeaseReleased", "LeaseTakeover"} : \A x :
        KindIsWhole([kind |-> k, fields |-> <<x>>])
  BY DEF KindIsWhole, IsValue, IsTuple
<1>3. \A x, y : KindIsWhole([kind |-> "EffectClaimed", fields |-> <<x, y>>])
  BY DEF KindIsWhole, IsValue, IsTuple
<1>4. \A x, y, z : KindIsWhole([kind |-> "PairFrozen", fields |-> <<x, y, z>>])
  BY DEF KindIsWhole, IsValue, IsTuple
<1>5. \A x : \A cert \in EffectCertainty \ {"None"} :
        KindIsWhole([kind |-> "EffectSettled", fields |-> <<x, <<cert>>>>])
  BY DEF KindIsWhole
<1> QED BY <1>1, <1>2, <1>3, <1>4, <1>5

---------------------------------------------------------------------------
(* The pair, its approval and its grants.                                  *)

LEMMA ApprovalKeeps ==
  ASSUME EvidenceInv, NEW p \in DOMAIN LoadPlans, RecordApproval(p)
  PROVE  EvidenceInv'
<1> DEFINE plan == LoadPlans[p]
           approval == [id |-> Id("approval", Now), plan |-> plan.id,
                        graph |-> plan.graph, hash |-> plan.hash,
                        approver |-> <<"owner">>, at |-> Now]
           rows == Insert(db.approvals, approval)
           records == Insert(kept.approvals, approval)
           tables == [db EXCEPT !.approvals = rows]
           memory == [kept EXCEPT !.approvals = records]
<1>1. PersistWith(tables, memory, "Approved", <<approval.id>>)
  BY DEF RecordApproval
<1>2. approval.plan # NULL /\ approval.graph # NULL
  BY RunReads DEF EvidenceInv, RecordsMatch, PlansMatch, PlanIsWhole
<1> HIDE DEF approval
<1>3. ApprovalsMatch(rows, records)
  BY <1>2 DEF EvidenceInv, RecordsMatch, ApprovalsMatch, Insert
<1> HIDE DEF rows, records
<1>4. Replaced(tables, db, "approvals", rows) /\ Replaced(memory, kept, "approvals", records)
  BY DEF EvidenceInv, RecordsMatch, Replaced, IsRecord, Columns
<1> HIDE DEF tables, memory
<1>5. RecordsMatch(tables, memory) /\ tables.events = db.events /\ memory.events = kept.events
  BY <1>3, <1>4 DEF EvidenceInv, RecordsMatch, Replaced, Columns
<1> QED BY <1>1, <1>5, KindsAreWhole, Persisted

(* Any grant that is bound to a whole pair or to none *)
LEMMA GrantKeeps ==
  ASSUME EvidenceInv, NEW grant, GrantIsWhole(grant), RecordGrant(grant)
  PROVE  EvidenceInv'
<1> DEFINE rows == Insert(db.grants, GrantRow(grant))
           records == Insert(kept.grants, grant)
           tables == [db EXCEPT !.grants = rows]
           memory == [kept EXCEPT !.grants = records]
<1>1. PersistWith(tables, memory, "GrantIssued", <<grant.id>>)
  BY DEF RecordGrant
<1>2. GrantRow(grant).id = grant.id
  BY GrantColumns DEF GrantFields
<1>3. GrantsMatch(rows, records) /\ DOMAIN kept.grants \subseteq DOMAIN records
  BY <1>2 DEF EvidenceInv, RecordsMatch, GrantsMatch, Insert, IsList
<1> HIDE DEF rows, records
<1>4. Replaced(tables, db, "grants", rows) /\ Replaced(memory, kept, "grants", records)
  BY DEF EvidenceInv, RecordsMatch, Replaced, IsRecord, Columns
<1> HIDE DEF tables, memory
<1>5. EffectsMatch(tables.effects, memory.effects, records)
  BY <1>3, <1>4 DEF EvidenceInv, RecordsMatch, EffectsMatch, Replaced, Columns
<1>6. RecordsMatch(tables, memory) /\ tables.events = db.events /\ memory.events = kept.events
  BY <1>3, <1>4, <1>5 DEF EvidenceInv, RecordsMatch, Replaced, Columns
<1> QED BY <1>1, <1>6, KindsAreWhole, Persisted

(* CapabilityGrant::issue *)
LEMMA IssuedIsWhole ==
  ASSUME NEW cap \in Capability, NEW resource, ResourceIsWhole(resource),
         NEW scope, ScopeIsWhole(scope), NEW plan, NEW graph, NEW approval,
         (plan = NULL) = (graph = NULL)
  PROVE  GrantIsWhole(NewGrant(cap, resource, scope, plan, graph, approval))
<1> DEFINE grant == NewGrant(cap, resource, scope, plan, graph, approval)
<1>1. /\ IsRecord(grant, GrantFields) /\ grant.cap = cap /\ grant.resource = resource
      /\ grant.scope = scope /\ grant.plan = plan /\ grant.graph = graph
      /\ grant.left = 1 /\ grant.budget = 1
      /\ grant.repeatable = RegisteredOperation(cap).repeatable
  BY DEF NewGrant, IsRecord, GrantFields
<1>2. RegisteredOperation(cap).repeatable \in BOOLEAN
  BY DEF RegisteredOperation
<1> HIDE DEF grant
<1>3. GrantIsWhole(grant)
  BY <1>1, <1>2 DEF GrantIsWhole
<1> QED BY <1>3 DEF grant

LEMMA BootstrapGrantKeeps ==
  ASSUME EvidenceInv, BootstrapGrant
  PROVE  EvidenceInv'
<1> DEFINE scope == [kind |-> "Run", fields |-> <<>>]
           cap(resource) == IF resource.kind = "RelativeTarget" THEN "LocalRead"
                            ELSE "ProviderDisclose"
<1>1. PICK resource \in {[kind |-> "RelativeTarget", fields |-> <<Target>>],
                         [kind |-> "ContextManifestHash", fields |-> <<Digest(Target)>>]} :
        RecordGrant(NewGrant(cap(resource), resource, scope, NULL, NULL, NULL))
  BY DEF BootstrapGrant
<1>2. ResourceIsWhole(resource) /\ ScopeIsWhole(scope) /\ cap(resource) \in Capability
  BY DEF ResourceIsWhole, ScopeIsWhole, IsValue, IsTuple, Capability
<1> HIDE DEF scope, cap
<1> QED BY <1>1, <1>2, IssuedIsWhole, GrantKeeps

LEMMA PairGrantKeeps ==
  ASSUME EvidenceInv, NEW a \in DOMAIN LoadApprovals, PairGrant(a)
  PROVE  EvidenceInv'
<1> DEFINE approval == LoadApprovals[a]
           r == LoadPlans[approval.plan].replacement
           node(n) == [kind |-> "Node", fields |-> <<n>>]
           replaced == [kind |-> "ReplacementTarget",
                        fields |-> <<r.target, r.pre, r.post>>]
           seen == [kind |-> "RelativeTarget", fields |-> <<r.target>>]
           replace == NewGrant("CreateOrReplace", replaced,
                        node(<<"replace-existing-file-v1">>),
                        approval.plan, approval.graph, approval.id)
           inspect == NewGrant("NativeInspection", seen,
                        node(<<"verify-approved-postimage-v1">>),
                        approval.plan, approval.graph, approval.id)
<1>1. RecordGrant(replace) \/ RecordGrant(inspect)
  BY DEF PairGrant
<1>2. approval.plan # NULL /\ approval.graph # NULL
  BY RunReads DEF EvidenceInv, RecordsMatch, ApprovalsMatch
<1>3. /\ ResourceIsWhole(replaced) /\ ResourceIsWhole(seen)
      /\ \A n : ScopeIsWhole(node(n))
      /\ "CreateOrReplace" \in Capability /\ "NativeInspection" \in Capability
  BY DEF ResourceIsWhole, ScopeIsWhole, IsValue, IsTuple, Capability
<1> HIDE DEF approval, r, node, replaced, seen
<1>4. GrantIsWhole(replace) /\ GrantIsWhole(inspect)
  BY <1>2, <1>3, IssuedIsWhole
<1> HIDE DEF replace, inspect
<1> QED BY <1>1, <1>4, GrantKeeps

LEMMA RevocationKeeps ==
  ASSUME EvidenceInv, NEW g \in DOMAIN LoadGrants, RecordRevocation(g)
  PROVE  EvidenceInv'
<1> DEFINE old == kept.grants[g]
           grant == [old EXCEPT !.revoked = Now]
           rows == [db.grants EXCEPT ![g] = GrantRow(grant)]
           records == [kept.grants EXCEPT ![g] = grant]
           tables == [db EXCEPT !.grants = rows]
           memory == [kept EXCEPT !.grants = records]
<1>1. /\ LoadGrants = kept.grants /\ g \in DOMAIN kept.grants
      /\ GrantsMatch(db.grants, kept.grants)
  BY RunReads DEF EvidenceInv, RecordsMatch
<1>2. GrantIsWhole(old) /\ db.grants[g] = GrantRow(old) /\ g \in DOMAIN db.grants
  BY <1>1 DEF GrantsMatch
<1>3. GrantIsWhole(grant) /\ grant.left = old.left /\ grant.revoked = Now
  BY <1>2 DEF GrantIsWhole, IsRecord, GrantFields
<1>4. GrantRow(grant) = [GrantRow(old) EXCEPT !.revoked = Now, !.left = old.left]
  BY <1>2, <1>3 DEF GrantRow, GrantIsWhole, IsRecord, GrantFields
<1>5. [db EXCEPT !.grants[g].revoked = grant.revoked, !.grants[g].left = grant.left]
        = tables
  <2>1. [db EXCEPT !.grants[g].revoked = grant.revoked, !.grants[g].left = grant.left]
          = [db EXCEPT !.grants =
               [db.grants EXCEPT ![g] = [db.grants[g] EXCEPT !.revoked = grant.revoked,
                                                             !.left = grant.left]]]
    <3> HIDE DEF grant
    <3> QED BY <1>2 DEF EvidenceInv, RecordsMatch, IsRecord, Columns
  <2> QED BY <1>2, <1>3, <1>4, <2>1
<1>6. [kept EXCEPT !.grants[g].revoked = Now] = memory
  BY <1>1 DEF EvidenceInv, RecordsMatch, IsRecord, Columns
<1>7. PersistWith(tables, memory, "GrantRevoked", <<g>>)
  BY <1>1, <1>5, <1>6 DEF RecordRevocation
<1> HIDE DEF grant
<1>8. GrantsMatch(rows, records) /\ DOMAIN records = DOMAIN kept.grants
  BY <1>1, <1>3 DEF GrantsMatch, IsList
<1> HIDE DEF rows, records
<1>9. Replaced(tables, db, "grants", rows) /\ Replaced(memory, kept, "grants", records)
  BY DEF EvidenceInv, RecordsMatch, Replaced, IsRecord, Columns
<1> HIDE DEF tables, memory
<1>10. EffectsMatch(tables.effects, memory.effects, records)
  BY <1>8, <1>9 DEF EvidenceInv, RecordsMatch, EffectsMatch, Replaced, Columns
<1>11. RecordsMatch(tables, memory) /\ tables.events = db.events /\ memory.events = kept.events
  BY <1>8, <1>9, <1>10 DEF EvidenceInv, RecordsMatch, Replaced, Columns
<1> QED BY <1>7, <1>11, KindsAreWhole, Persisted

(* A denial names nothing, or a resource some grant was bound to *)
LEMMA DenialKeeps ==
  ASSUME EvidenceInv, AnyDenial
  PROVE  EvidenceInv'
<1>1. PICK grant, resource :
        /\ RecordDenial(grant, resource)
        /\ IsList(resource) /\ \A i \in DOMAIN resource : ResourceIsWhole(resource[i])
  <2>1. CASE RecordDenial(NULL, <<>>)
    <3>1. IsList(<<>>) /\ DOMAIN <<>> = {}
      BY DEF IsList
    <3> QED BY <2>1, <3>1
  <2>2. CASE \E g \in DOMAIN LoadGrants : RecordDenial(g, <<LoadGrants[g].resource>>)
    <3>1. PICK g \in DOMAIN LoadGrants : RecordDenial(g, <<LoadGrants[g].resource>>)
      BY <2>2
    <3>2. ResourceIsWhole(LoadGrants[g].resource)
      BY <3>1, RunReads DEF EvidenceInv, RecordsMatch, GrantsMatch, GrantIsWhole
    <3> QED BY <3>1, <3>2 DEF IsList
  <2> QED BY <2>1, <2>2 DEF AnyDenial
<1> DEFINE denial == [id |-> Id("denial", Now), reason |-> <<"denied">>,
                      grant |-> grant, resource |-> resource, at |-> Now]
           rows == Insert(db.denials, DenialRow(denial))
           records == Insert(kept.denials, denial)
           tables == [db EXCEPT !.denials = rows]
           memory == [kept EXCEPT !.denials = records]
<1>2. PersistWith(tables, memory, "Denied", <<denial.id>>)
  BY <1>1 DEF RecordDenial
<1>3. DenialIsWhole(denial)
  BY <1>1 DEF DenialIsWhole, IsRecord, DenialFields
<1> HIDE DEF denial
<1>4. DenialRow(denial).id = denial.id
  BY <1>3, DenialReloads
<1>5. DenialsMatch(rows, records)
  BY <1>3, <1>4 DEF EvidenceInv, RecordsMatch, DenialsMatch, Insert, IsList
<1> HIDE DEF rows, records
<1>6. Replaced(tables, db, "denials", rows) /\ Replaced(memory, kept, "denials", records)
  BY DEF EvidenceInv, RecordsMatch, Replaced, IsRecord, Columns
<1> HIDE DEF tables, memory
<1>7. RecordsMatch(tables, memory) /\ tables.events = db.events /\ memory.events = kept.events
  BY <1>5, <1>6 DEF EvidenceInv, RecordsMatch, Replaced, Columns
<1> QED BY <1>2, <1>7, KindsAreWhole, Persisted

---------------------------------------------------------------------------
(* The effect journal.                                                     *)

(* One record of the journal is added or replaced: by Insert, by EXCEPT    *)
LEMMA EffectChangeKeeps ==
  ASSUME EvidenceInv, NEW effect, EffectIsWhole(effect),
         effect.grant \in DOMAIN kept.grants, NEW id,
         NEW rows, NEW records, NEW tables, NEW memory, NEW kind, NEW fields,
         IsList(records),
         DOMAIN rows = DOMAIN kept.effects \cup {id},
         DOMAIN records = DOMAIN kept.effects \cup {id},
         \A e \in DOMAIN kept.effects \ {id} :
           rows[e] = db.effects[e] /\ records[e] = kept.effects[e],
         rows[id] = EffectRow(effect), records[id] = effect,
         tables = [db EXCEPT !.effects = rows],
         memory = [kept EXCEPT !.effects = records],
         KindIsWhole([kind |-> kind, fields |-> fields]),
         PersistWith(tables, memory, kind, fields)
  PROVE  EvidenceInv'
<1>1. EffectsMatch(rows, records, kept.grants)
  <2>1. EffectsMatch(db.effects, kept.effects, kept.grants)
    BY DEF EvidenceInv, RecordsMatch
  <2>2. ASSUME NEW e \in DOMAIN records
        PROVE  /\ EffectIsWhole(records[e]) /\ rows[e] = EffectRow(records[e])
               /\ records[e].grant \in DOMAIN kept.grants
    <3>1. CASE e = id
      BY <3>1
    <3>2. CASE e \in DOMAIN kept.effects \ {id}
      BY <2>1, <3>2 DEF EffectsMatch
    <3> QED BY <3>1, <3>2
  <2> QED BY <2>2 DEF EffectsMatch
<1>2. Replaced(tables, db, "effects", rows) /\ Replaced(memory, kept, "effects", records)
  BY DEF EvidenceInv, RecordsMatch, Replaced, IsRecord, Columns
<1>3. RecordsMatch(tables, memory) /\ tables.events = db.events /\ memory.events = kept.events
  BY <1>1, <1>2 DEF EvidenceInv, RecordsMatch, Replaced, Columns
<1> QED BY <1>3, Persisted

LEMMA EffectKeeps ==
  ASSUME EvidenceInv, NEW g \in DOMAIN LoadGrants, RecordEffect(g)
  PROVE  EvidenceInv'
<1> DEFINE grant == LoadGrants[g]
           bound == grant.resource.kind = "ReplacementTarget"
           target == CASE bound -> grant.resource.fields[3]
                       [] grant.resource.kind = "RelativeTarget" ->
                            Digest(grant.resource.fields[1])
                       [] OTHER -> Digest(<<"request semantics">>)
           pre == IF bound THEN grant.resource.fields[2] ELSE NULL
           post == IF bound THEN grant.resource.fields[3] ELSE NULL
           effect ==
             [id |-> Id("effect", Now), attempt |-> NULL, plan |-> grant.plan,
              graph |-> grant.graph, operation |-> grant.operation,
              target |-> target, grant |-> g,
              phase |-> "Prepared", claimant |-> NULL, result |-> "None",
              certainty |-> "None", prepared |-> Now, claimed |-> 0,
              dispatched |-> 0, settled |-> 0, pre |-> pre, post |-> post]
           rows == Insert(db.effects, EffectRow(effect))
           records == Insert(kept.effects, effect)
           tables == [db EXCEPT !.effects = rows]
           memory == [kept EXCEPT !.effects = records]
<1>1. PersistWith(tables, memory, "EffectPrepared", <<effect.id>>)
  BY DEF RecordEffect
<1>2. effect.grant \in DOMAIN kept.grants
  BY RunReads
<1>3. EffectIsWhole(effect)
  <2> HIDE DEF grant, target, pre, post
  <2> QED BY DEF EffectIsWhole, IsRecord, EffectFields, PhaseText, OperationResult,
                 EffectCertainty
<1> HIDE DEF effect
<1>4. EffectRow(effect).id = effect.id
  BY <1>3, EffectColumns DEF EffectFields
<1>5. DOMAIN db.effects = DOMAIN kept.effects
  BY DEF EvidenceInv, RecordsMatch, EffectsMatch
<1>6. /\ IsList(records) /\ DOMAIN rows = DOMAIN kept.effects \cup {effect.id}
      /\ DOMAIN records = DOMAIN kept.effects \cup {effect.id}
      /\ \A e \in DOMAIN kept.effects \ {effect.id} :
           rows[e] = db.effects[e] /\ records[e] = kept.effects[e]
      /\ rows[effect.id] = EffectRow(effect) /\ records[effect.id] = effect
  BY <1>4, <1>5 DEF Insert, IsList
<1> HIDE DEF rows, records, tables, memory
<1>7. KindIsWhole([kind |-> "EffectPrepared", fields |-> <<effect.id>>])
  BY KindsAreWhole
<1> QED BY <1>1, <1>2, <1>3, <1>6, <1>7, EffectChangeKeeps DEF tables, memory

(* What the journal holds of an effect *)
LEMMA JournalEntry ==
  ASSUME EvidenceInv, NEW e \in DOMAIN LoadEffects
  PROVE  /\ LoadEffects = kept.effects /\ e \in DOMAIN kept.effects
         /\ e \in DOMAIN db.effects /\ DOMAIN db.effects = DOMAIN kept.effects
         /\ IsList(kept.effects) /\ EffectIsWhole(kept.effects[e])
         /\ db.effects[e] = EffectRow(kept.effects[e])
         /\ kept.effects[e].grant \in DOMAIN kept.grants
BY RunReads DEF EvidenceInv, RecordsMatch, EffectsMatch

(* claim_effect *)
LEMMA ClaimKeeps ==
  ASSUME EvidenceInv, NEW e \in DOMAIN LoadEffects, RecordClaim(e)
  PROVE  EvidenceInv'
<1> DEFINE old == kept.effects[e]
           row == db.effects[e]
           effect == [old EXCEPT !.phase = "Claimed", !.claimant = Claiming,
                                 !.claimed = Now]
           rows == [db.effects EXCEPT ![e] = EffectRow(effect)]
           records == [kept.effects EXCEPT ![e] = effect]
           tables == [db EXCEPT !.effects = rows]
           memory == [kept EXCEPT !.effects = records]
<1>1. /\ e \in DOMAIN kept.effects /\ e \in DOMAIN db.effects
      /\ DOMAIN db.effects = DOMAIN kept.effects
      /\ IsList(kept.effects) /\ EffectIsWhole(old) /\ row = EffectRow(old)
      /\ old.grant \in DOMAIN kept.grants
  BY JournalEntry
<1>2. EffectIsWhole(effect) /\ effect.grant = old.grant
  BY <1>1 DEF EffectIsWhole, IsRecord, EffectFields, PhaseText
<1>3. [row EXCEPT !.phase = "claimed", !.claimant = Claiming, !.claimed = Now]
        = EffectRow(effect)
  BY <1>1 DEF EffectIsWhole, EffectRow, IsRecord, EffectFields, PhaseText
<1>4. [db EXCEPT !.effects[e].phase = "claimed", !.effects[e].claimant = Claiming,
                 !.effects[e].claimed = Now] = tables
  <2>1. [db EXCEPT !.effects[e].phase = "claimed", !.effects[e].claimant = Claiming,
                   !.effects[e].claimed = Now]
          = [db EXCEPT !.effects = [db.effects EXCEPT ![e] =
               [row EXCEPT !.phase = "claimed", !.claimant = Claiming, !.claimed = Now]]]
    BY <1>1 DEF EvidenceInv, RecordsMatch, IsRecord, Columns
  <2> QED BY <1>3, <2>1
<1>5. [kept EXCEPT !.effects[e].phase = "Claimed", !.effects[e].claimant = Claiming,
                   !.effects[e].claimed = Now] = memory
  BY <1>1 DEF EvidenceInv, RecordsMatch, IsRecord, Columns
<1>6. PersistWith(tables, memory, "EffectClaimed", <<e, Claiming>>)
  BY <1>4, <1>5 DEF RecordClaim
<1> HIDE DEF effect
<1>7. /\ IsList(records) /\ DOMAIN rows = DOMAIN kept.effects \cup {e}
      /\ DOMAIN records = DOMAIN kept.effects \cup {e}
      /\ \A d \in DOMAIN kept.effects \ {e} :
           rows[d] = db.effects[d] /\ records[d] = kept.effects[d]
      /\ rows[e] = EffectRow(effect) /\ records[e] = effect
  BY <1>1 DEF IsList
<1> HIDE DEF rows, records, tables, memory
<1>8. KindIsWhole([kind |-> "EffectClaimed", fields |-> <<e, Claiming>>])
  BY KindsAreWhole
<1> QED BY <1>1, <1>2, <1>6, <1>7, <1>8, EffectChangeKeeps DEF tables, memory

(* update_effect, as a step of the journal: settle_effect, reconcile_effect *)
LEMMA UpdateKeeps ==
  ASSUME EvidenceInv, NEW e \in DOMAIN LoadEffects,
         NEW effect, EffectIsWhole(effect),
         \A f \in EffectFields \ {"phase", "claimant", "result", "certainty",
                                  "claimed", "dispatched", "settled"} :
           effect[f] = kept.effects[e][f],
         NEW kind, NEW fields, KindIsWhole([kind |-> kind, fields |-> fields]),
         PersistWith([db EXCEPT !.effects[e] = UpdatedEffect(@, effect)],
                     [kept EXCEPT !.effects[e] = effect], kind, fields)
  PROVE  EvidenceInv'
<1> DEFINE old == kept.effects[e]
           rows == [db.effects EXCEPT ![e] = EffectRow(effect)]
           records == [kept.effects EXCEPT ![e] = effect]
           tables == [db EXCEPT !.effects = rows]
           memory == [kept EXCEPT !.effects = records]
<1>1. /\ e \in DOMAIN kept.effects /\ e \in DOMAIN db.effects
      /\ DOMAIN db.effects = DOMAIN kept.effects
      /\ IsList(kept.effects) /\ EffectIsWhole(old) /\ db.effects[e] = EffectRow(old)
      /\ old.grant \in DOMAIN kept.grants
  BY JournalEntry
<1>2. effect.grant \in DOMAIN kept.grants
  BY <1>1 DEF EffectFields
<1>3. UpdatedEffect(db.effects[e], effect) = EffectRow(effect)
  BY <1>1, UpdateIsWhole
<1>4. PersistWith(tables, memory, kind, fields)
  BY <1>3
<1>5. /\ IsList(records) /\ DOMAIN rows = DOMAIN kept.effects \cup {e}
      /\ DOMAIN records = DOMAIN kept.effects \cup {e}
      /\ \A d \in DOMAIN kept.effects \ {e} :
           rows[d] = db.effects[d] /\ records[d] = kept.effects[d]
      /\ rows[e] = EffectRow(effect) /\ records[e] = effect
  BY <1>1 DEF IsList
<1> HIDE DEF rows, records, tables, memory
<1> QED BY <1>2, <1>4, <1>5, EffectChangeKeeps DEF tables, memory

LEMMA SettlementKeeps ==
  ASSUME EvidenceInv, NEW e \in DOMAIN LoadEffects,
         NEW result \in OperationResult \ {"None"},
         NEW cert \in EffectCertainty \ {"None"}, RecordSettlement(e, result, cert)
  PROVE  EvidenceInv'
<1> DEFINE effect == SettledAs(kept.effects[e], result, cert)
<1>1. LoadEffects = kept.effects /\ e \in DOMAIN kept.effects /\ EffectIsWhole(kept.effects[e])
  BY JournalEntry
<1>2. /\ EffectIsWhole(effect)
      /\ \A f \in EffectFields \ {"phase", "claimant", "result", "certainty",
                                  "claimed", "dispatched", "settled"} :
           effect[f] = kept.effects[e][f]
  BY <1>1 DEF SettledAs, EffectIsWhole, IsRecord, EffectFields, PhaseText
<1>3. PersistWith([db EXCEPT !.effects[e] = UpdatedEffect(@, effect)],
                  [kept EXCEPT !.effects[e] = effect], "EffectSettled", <<e, <<cert>>>>)
  BY <1>1 DEF RecordSettlement
<1> HIDE DEF effect
<1>4. KindIsWhole([kind |-> "EffectSettled", fields |-> <<e, <<cert>>>>])
  BY KindsAreWhole
<1> QED BY <1>2, <1>3, <1>4, UpdateKeeps

LEMMA ReconciliationKeeps ==
  ASSUME EvidenceInv, NEW e \in DOMAIN LoadEffects, NEW probe \in Probe,
         RecordReconciliation(e, probe)
  PROVE  EvidenceInv'
<1> DEFINE effect == ReconciledAs(kept.effects[e], probe)
           cert == ReconciledCertainty(probe)
<1>1. LoadEffects = kept.effects /\ e \in DOMAIN kept.effects /\ EffectIsWhole(kept.effects[e])
  BY JournalEntry
<1>2. cert \in EffectCertainty \ {"None"}
  BY DEF ReconciledCertainty, Probe, EffectCertainty
<1>3. PersistWith([db EXCEPT !.effects[e] = UpdatedEffect(@, effect)],
                  [kept EXCEPT !.effects[e] = effect], "EffectSettled", <<e, <<cert>>>>)
  BY <1>1 DEF RecordReconciliation
<1> HIDE DEF cert
<1>4. /\ EffectIsWhole(effect)
      /\ \A f \in EffectFields \ {"phase", "claimant", "result", "certainty",
                                  "claimed", "dispatched", "settled"} :
           effect[f] = kept.effects[e][f]
  BY <1>1, <1>2 DEF ReconciledAs, EffectIsWhole, IsRecord, EffectFields, cert
<1> HIDE DEF effect
<1>5. KindIsWhole([kind |-> "EffectSettled", fields |-> <<e, <<cert>>>>])
  BY <1>2, KindsAreWhole
<1> QED BY <1>3, <1>4, <1>5, UpdateKeeps

(* consume_dispatch_budget: one of what is left *)
LEMMA SpendKeepsGrants ==
  ASSUME EvidenceInv, NEW g \in DOMAIN kept.grants, Spendable(db.grants[g])
  PROVE  LET rows == [db.grants EXCEPT ![g].left = @ - 1]
             records == [kept.grants EXCEPT ![g].left = @ - 1]
         IN  GrantsMatch(rows, records) /\ DOMAIN records = DOMAIN kept.grants
<1> DEFINE old == kept.grants[g]
           grant == [old EXCEPT !.left = old.left - 1]
           rows == [db.grants EXCEPT ![g] = GrantRow(grant)]
           records == [kept.grants EXCEPT ![g] = grant]
<1>1. GrantsMatch(db.grants, kept.grants)
  BY DEF EvidenceInv, RecordsMatch
<1>2. GrantIsWhole(old) /\ db.grants[g] = GrantRow(old) /\ g \in DOMAIN db.grants
  BY <1>1 DEF GrantsMatch
<1>3. GrantRow(old).left = old.left
  BY <1>2, GrantColumns DEF GrantFields
<1>4. GrantIsWhole(grant)
  <2>1. old.left \in Nat /\ old.left > 0 /\ old.budget \in Nat /\ old.left <= old.budget
    BY <1>2, <1>3 DEF Spendable, GrantIsWhole
  <2>2. grant.left = old.left - 1 /\ \A f \in GrantFields \ {"left"} : grant[f] = old[f]
    BY <1>2 DEF GrantIsWhole, IsRecord, GrantFields
  <2>3. IsRecord(grant, GrantFields)
    BY <1>2 DEF GrantIsWhole, IsRecord, GrantFields
  <2> HIDE DEF grant
  <2> QED BY <1>2, <2>1, <2>2, <2>3 DEF GrantIsWhole, GrantFields
<1>5. GrantRow(grant) = [GrantRow(old) EXCEPT !.left = GrantRow(old).left - 1]
  BY <1>2, <1>3 DEF GrantRow, GrantIsWhole, IsRecord, GrantFields
<1>6. rows = [db.grants EXCEPT ![g].left = @ - 1]
  BY <1>2, <1>5
<1> HIDE DEF grant
<1>7. GrantsMatch(rows, records) /\ DOMAIN records = DOMAIN kept.grants
  BY <1>1, <1>4 DEF GrantsMatch, IsList
<1> QED BY <1>6, <1>7 DEF grant

LEMMA DispatchKeeps ==
  ASSUME EvidenceInv, NEW e \in DOMAIN LoadEffects, RecordDispatch(e)
  PROVE  EvidenceInv'
<1> DEFINE old == kept.effects[e]
           effect == Dispatched(old)
           g == old.grant
           spent == [db.grants EXCEPT ![g].left = @ - 1]
           left == [kept.grants EXCEPT ![g].left = @ - 1]
           rows == [db.effects EXCEPT ![e] = EffectRow(effect)]
           records == [kept.effects EXCEPT ![e] = effect]
           tables == [db EXCEPT !.grants = spent, !.effects = rows]
           memory == [kept EXCEPT !.grants = left, !.effects = records]
<1>1. /\ LoadEffects = kept.effects /\ e \in DOMAIN kept.effects
      /\ e \in DOMAIN db.effects /\ DOMAIN db.effects = DOMAIN kept.effects
      /\ IsList(kept.effects) /\ EffectIsWhole(old) /\ db.effects[e] = EffectRow(old)
      /\ g \in DOMAIN kept.grants
  BY JournalEntry
<1>2. /\ EffectIsWhole(effect) /\ effect.grant = g
      /\ \A f \in EffectFields \ {"phase", "claimant", "result", "certainty",
                                  "claimed", "dispatched", "settled"} :
           effect[f] = old[f]
  BY <1>1 DEF Dispatched, EffectIsWhole, IsRecord, EffectFields, PhaseText
<1>3. UpdatedEffect(db.effects[e], effect) = EffectRow(effect)
  BY <1>1, <1>2, UpdateIsWhole
<1>4. Spendable(db.grants[g])
  BY <1>1 DEF RecordDispatch
<1>5. PersistWith(
        [db EXCEPT !.grants[g].left = @ - 1,
                   !.effects[e] = UpdatedEffect(@, effect)],
        [kept EXCEPT !.grants[g].left = @ - 1, !.effects[e] = Dispatched(@)],
        "EffectDispatched", <<e>>)
  BY <1>1 DEF RecordDispatch
<1> HIDE DEF effect
<1>6. IsRecord(db, Columns) /\ IsRecord(kept, Columns)
  BY DEF EvidenceInv, RecordsMatch
<1>7. [db EXCEPT !.grants[g].left = @ - 1, !.effects[e] = UpdatedEffect(@, effect)] = tables
  <2>1. [db EXCEPT !.grants[g].left = @ - 1, !.effects[e] = UpdatedEffect(@, effect)]
          = [db EXCEPT !.grants = spent,
                       !.effects = [db.effects EXCEPT ![e] = UpdatedEffect(@, effect)]]
    <3> HIDE DEF g, rows
    <3> QED BY <1>6 DEF IsRecord, Columns
  <2> QED BY <1>3, <2>1
<1>8. [kept EXCEPT !.grants[g].left = @ - 1, !.effects[e] = Dispatched(@)] = memory
  <2>1. [kept EXCEPT !.grants[g].left = @ - 1, !.effects[e] = Dispatched(@)]
          = [kept EXCEPT !.grants = left,
                         !.effects = [kept.effects EXCEPT ![e] = Dispatched(@)]]
    <3> HIDE DEF g, records
    <3> QED BY <1>6 DEF IsRecord, Columns
  <2> QED BY <1>1, <2>1 DEF effect
<1>9. PersistWith(tables, memory, "EffectDispatched", <<e>>)
  BY <1>5, <1>7, <1>8
<1>10. GrantsMatch(spent, left) /\ DOMAIN left = DOMAIN kept.grants
  BY <1>1, <1>4, SpendKeepsGrants
<1>11. EffectsMatch(rows, records, left)
  BY <1>1, <1>2, <1>10 DEF EvidenceInv, RecordsMatch, EffectsMatch, IsList
<1> HIDE DEF spent, left, rows, records
<1>12. /\ IsRecord(tables, Columns) /\ tables.grants = spent /\ tables.effects = rows
       /\ \A c \in Columns \ {"grants", "effects"} : tables[c] = db[c]
  BY <1>6 DEF IsRecord, Columns
<1>13. /\ IsRecord(memory, Columns) /\ memory.grants = left /\ memory.effects = records
       /\ \A c \in Columns \ {"grants", "effects"} : memory[c] = kept[c]
  BY <1>6 DEF IsRecord, Columns
<1> HIDE DEF tables, memory
<1>14. RecordsMatch(tables, memory) /\ tables.events = db.events /\ memory.events = kept.events
  BY <1>10, <1>11, <1>12, <1>13 DEF EvidenceInv, RecordsMatch, Columns
<1> QED BY <1>9, <1>14, KindsAreWhole, Persisted

LEMMA LossKeeps ==
  ASSUME EvidenceInv, NEW e \in DOMAIN LoadEffects, LoseDispatch(e)
  PROVE  EvidenceInv'
<1> DEFINE g == kept.effects[e].grant
           spent == [db.grants EXCEPT ![g].left = @ - 1]
           left == [kept.grants EXCEPT ![g].left = @ - 1]
<1>1. LoadEffects = kept.effects /\ g \in DOMAIN kept.grants
  BY JournalEntry
<1>2. /\ Spendable(db.grants[g])
      /\ db' = [db EXCEPT !.grants[g].left = @ - 1]
      /\ kept' = [kept EXCEPT !.grants[g].left = @ - 1]
  BY <1>1 DEF LoseDispatch
<1>3. GrantsMatch(spent, left) /\ DOMAIN left = DOMAIN kept.grants
  BY <1>1, <1>2, SpendKeepsGrants
<1>4. db' = [db EXCEPT !.grants = spent] /\ kept' = [kept EXCEPT !.grants = left]
  <2> HIDE DEF g
  <2> QED BY <1>2 DEF EvidenceInv, RecordsMatch, IsRecord, Columns
<1> HIDE DEF spent, left
<1>5. Replaced(db', db, "grants", spent) /\ Replaced(kept', kept, "grants", left)
  BY <1>4 DEF EvidenceInv, RecordsMatch, Replaced, IsRecord, Columns
<1>6. EffectsMatch(db'.effects, kept'.effects, left)
  BY <1>3, <1>5 DEF EvidenceInv, RecordsMatch, EffectsMatch, Replaced, Columns
<1>7. RecordsMatch(db', kept')
  BY <1>3, <1>5, <1>6 DEF EvidenceInv, RecordsMatch, Replaced, Columns
<1>8. EventsMatch(db'.events, kept'.events)
  BY <1>5 DEF EvidenceInv, Replaced, Columns
<1> QED BY <1>7, <1>8 DEF EvidenceInv

---------------------------------------------------------------------------
(* Checkpoint, validation, result, lease and lifecycle.                    *)

(* What a use case reads of a plan *)
LEMMA PlanEntry ==
  ASSUME EvidenceInv, NEW p \in DOMAIN LoadPlans
  PROVE  /\ LoadPlans = kept.plans /\ p \in DOMAIN kept.plans
         /\ kept.plans[p].revision = Revision /\ kept.plans[p].id = p
BY RunReads DEF EvidenceInv, RecordsMatch, PlansMatch

LEMMA CheckpointKeeps ==
  ASSUME EvidenceInv, NEW p \in DOMAIN LoadPlans, RecordCheckpoint(p)
  PROVE  EvidenceInv'
<1> DEFINE plan == LoadPlans[p]
           checkpoint ==
             [id |-> Id("checkpoint", Now), last |-> NextSequence - 1,
              chain |-> HashEventChain(LoadEvents), plan |-> plan.id,
              graph |-> plan.graph, revision |-> plan.revision,
              post |-> plan.replacement.post, at |-> Now]
           rows == Insert(db.checkpoints, checkpoint)
           records == Insert(kept.checkpoints, checkpoint)
           tables == [db EXCEPT !.checkpoints = rows]
           memory == [kept EXCEPT !.checkpoints = records]
           n == Len(kept.events)
<1>1. PersistWith(tables, memory, "Checkpointed", <<checkpoint.id>>)
  BY DEF RecordCheckpoint
<1>2. /\ checkpoint.last = n /\ checkpoint.chain = HashEventChain(kept.events)
      /\ checkpoint.revision = Revision
      /\ DOMAIN kept.plans # {} /\ n \in Nat
  <2>1. NextSequence - 1 = n /\ n \in Nat
    BY NextIsNext
  <2> QED BY <2>1, PlanEntry, RunReads
<1> HIDE DEF checkpoint
<1>3. SubSeq(kept.events, 1, n) = kept.events
  <2>1. PICK S : kept.events \in Seq(S)
    BY DEF EvidenceInv, EventsMatch, IsSequence
  <2> QED BY <2>1
<1>4. CheckpointsHold(rows, records, kept.plans, kept.events)
  <2>1. CheckpointsHold(db.checkpoints, kept.checkpoints, kept.plans, kept.events)
    BY DEF EvidenceInv, RecordsMatch
  <2>2. n \in 0 .. n
    BY <1>2
  <2> HIDE DEF n
  <2>3. checkpoint.last \in 0 .. n
    BY <1>2, <2>2
  <2> QED BY <1>2, <1>3, <2>1, <2>3 DEF CheckpointsHold, Insert, n
<1> HIDE DEF rows, records
<1>5. Replaced(tables, db, "checkpoints", rows) /\ Replaced(memory, kept, "checkpoints", records)
  BY DEF EvidenceInv, RecordsMatch, Replaced, IsRecord, Columns
<1> HIDE DEF tables, memory
<1>6. RecordsMatch(tables, memory) /\ tables.events = db.events /\ memory.events = kept.events
  BY <1>4, <1>5 DEF EvidenceInv, RecordsMatch, Replaced, Columns
<1> QED BY <1>1, <1>6, KindsAreWhole, Persisted

LEMMA ValidationKeeps ==
  ASSUME EvidenceInv, NEW p \in DOMAIN LoadPlans, NEW observed,
         RecordValidation(p, observed)
  PROVE  EvidenceInv'
<1> DEFINE plan == LoadPlans[p]
           passed == plan.replacement.post = observed
           validation ==
             [id |-> Id("validation", Now), plan |-> plan.id,
              graph |-> plan.graph, label |-> Label,
              approved |-> plan.replacement.post, observed |-> observed,
              diff |-> plan.replacement.diff, passed |-> passed, at |-> Now]
           rows == Insert(db.validations, ValidationRow(validation))
           records == Insert(kept.validations, validation)
           tables == [db EXCEPT !.validations = rows]
           memory == [kept EXCEPT !.validations = records]
<1>1. PersistWith(tables, memory, "Validated", <<validation.id>>)
  BY DEF RecordValidation
<1>2. ValidationIsWhole(validation)
  <2>1. passed \in BOOLEAN
    OBVIOUS
  <2> HIDE DEF passed, plan
  <2>2. validation.passed = passed /\ IsRecord(validation, ValidationFields)
    BY DEF IsRecord, ValidationFields
  <2> QED BY <2>1, <2>2 DEF ValidationIsWhole
<1> HIDE DEF validation
<1>3. ValidationRow(validation).id = validation.id
  BY <1>2, ValidationReloads
<1>4. ValidationsMatch(rows, records)
  BY <1>2, <1>3 DEF EvidenceInv, RecordsMatch, ValidationsMatch, Insert, IsList
<1> HIDE DEF rows, records
<1>5. Replaced(tables, db, "validations", rows) /\ Replaced(memory, kept, "validations", records)
  BY DEF EvidenceInv, RecordsMatch, Replaced, IsRecord, Columns
<1> HIDE DEF tables, memory
<1>6. RecordsMatch(tables, memory) /\ tables.events = db.events /\ memory.events = kept.events
  BY <1>4, <1>5 DEF EvidenceInv, RecordsMatch, Replaced, Columns
<1> QED BY <1>1, <1>6, KindsAreWhole, Persisted

LEMMA ResultKeeps ==
  ASSUME EvidenceInv, NEW p \in DOMAIN LoadPlans, RecordResult(p)
  PROVE  EvidenceInv'
<1> DEFINE plan == LoadPlans[p]
           fingerprint == Fingerprint(LoadGraphs[plan.graph], plan.revision)
           final == [plan |-> plan.id, graph |-> plan.graph, label |-> Label,
                     stopped |-> TRUE, instrumentation |-> Measured,
                     algorithm |-> <<"tule-graph-shape-v1">>,
                     fingerprint |-> fingerprint,
                     cohort |-> LoadRun.cohort, at |-> Now]
           rows == <<FinalRow(final)>>
           records == <<final>>
           tables == [db EXCEPT !.final = rows]
           memory == [kept EXCEPT !.final = records]
<1>1. PersistWith(tables, memory, "Completed", <<>>)
  BY DEF RecordResult
<1>2. CohortIsWhole(LoadRun.cohort)
  BY RunReads DEF EvidenceInv, RecordsMatch, RunMatches, RunIsWhole
<1>3. FinalIsWhole(final)
  <2> HIDE DEF plan, fingerprint
  <2> QED BY <1>2 DEF FinalIsWhole, IsRecord, FinalFields
<1> HIDE DEF final
<1>4. FinalMatches(rows, records)
  BY <1>3 DEF FinalMatches, IsList
<1> HIDE DEF rows, records
<1>5. Replaced(tables, db, "final", rows) /\ Replaced(memory, kept, "final", records)
  BY DEF EvidenceInv, RecordsMatch, Replaced, IsRecord, Columns
<1> HIDE DEF tables, memory
<1>6. RecordsMatch(tables, memory) /\ tables.events = db.events /\ memory.events = kept.events
  BY <1>4, <1>5 DEF EvidenceInv, RecordsMatch, Replaced, Columns
<1> QED BY <1>1, <1>6, KindsAreWhole, Persisted

(* upsert_lease, delete_lease *)
LEMMA LeaseKeeps ==
  ASSUME EvidenceInv, NEW lease, NEW kind \in {"LeaseAcquired", "LeaseTakeover",
                                               "LeaseReleased"}, NEW id,
         PersistWith([db EXCEPT !.lease = lease], [kept EXCEPT !.lease = lease],
                     kind, <<id>>)
  PROVE  EvidenceInv'
<1> DEFINE tables == [db EXCEPT !.lease = lease]
           memory == [kept EXCEPT !.lease = lease]
<1>1. Replaced(tables, db, "lease", lease) /\ Replaced(memory, kept, "lease", lease)
  BY DEF EvidenceInv, RecordsMatch, Replaced, IsRecord, Columns
<1> HIDE DEF tables, memory
<1>2. RecordsMatch(tables, memory) /\ tables.events = db.events /\ memory.events = kept.events
  BY <1>1 DEF EvidenceInv, RecordsMatch, Replaced, Columns
<1>3. PersistWith(tables, memory, kind, <<id>>)
  BY DEF tables, memory
<1> QED BY <1>2, <1>3, KindsAreWhole, Persisted

LEMMA BoundaryKeeps ==
  ASSUME EvidenceInv, NEW kind \in {"Paused", "Cancelled"}, RecordBoundary(kind)
  PROVE  EvidenceInv'
<1>1. PersistWith(db, kept, kind, <<>>) /\ RecordsMatch(db, kept)
  BY DEF RecordBoundary, EvidenceInv
<1> QED BY <1>1, KindsAreWhole, Persisted

---------------------------------------------------------------------------
(* The frozen pair.                                                        *)

(* RunGraphVersion::compile_fixed_first_graph *)
LEMMA FixedGraphIsWhole ==
  ASSUME NEW id
  PROVE  GraphIsWhole(FixedFirstGraph(id)) /\ FixedFirstGraph(id).id = id
<1> DEFINE graph == FixedFirstGraph(id)
           nodes == <<Node(<<"replace-existing-file-v1">>, <<"builder">>, FALSE),
                      Node(<<"verify-approved-postimage-v1">>, <<"reviewer">>, TRUE)>>
           edges == <<Edge(<<"replace-existing-file-v1">>,
                           <<"verify-approved-postimage-v1">>)>>
           retry == <<"no-automatic-retry-v1">>
           validation == <<"native-approved-postimage-v1">>
           hash == HashGraphContent(nodes, edges, retry, validation)
<1>1. graph = [id |-> id, nodes |-> nodes, edges |-> edges, retry |-> retry,
               validation |-> validation, hash |-> hash]
  BY DEF FixedFirstGraph
<1>2. NodesAreWhole(nodes)
  <2>1. ASSUME NEW kind, NEW responsibility, NEW protected
        PROVE  LET n == Node(kind, responsibility, protected)
               IN  n = [kind |-> n.kind, responsibility |-> n.responsibility,
                        model |-> n.model, protected |-> n.protected]
    BY DEF Node
  <2>2. IsList(nodes) /\ DOMAIN nodes = {1, 2}
    BY DEF IsList
  <2>3. /\ nodes[1] = Node(<<"replace-existing-file-v1">>, <<"builder">>, FALSE)
        /\ nodes[2] = Node(<<"verify-approved-postimage-v1">>, <<"reviewer">>, TRUE)
    OBVIOUS
  <2> HIDE DEF nodes
  <2>4. ASSUME NEW i \in DOMAIN nodes
        PROVE  nodes[i] = [kind |-> nodes[i].kind, responsibility |-> nodes[i].responsibility,
                           model |-> nodes[i].model, protected |-> nodes[i].protected]
    <3>1. \E kind, responsibility, protected : nodes[i] = Node(kind, responsibility, protected)
      BY <2>2, <2>3
    <3> QED BY <2>1, <3>1
  <2> QED BY <2>2, <2>4 DEF NodesAreWhole
<1>3. EdgesAreWhole(edges)
  BY DEF EdgesAreWhole, IsList, Edge
<1> HIDE DEF graph, nodes, edges, retry, validation, hash
<1>4. GraphIsWhole(graph) /\ graph.id = id
  BY <1>1, <1>2, <1>3 DEF GraphIsWhole, IsRecord, GraphFields
<1> QED BY <1>4 DEF graph

Meant ==
  {"instructions", "profile", "model", "revision", "policy", "allowed",
   "envelope", "manifest", "replacement", "identity"}

(* ExecutionPlanVersion::freeze *)
LEMMA FrozenHash ==
  ASSUME NEW id, NEW graph, NEW meaning, NEW now
  PROVE  FreezePlan(id, graph, meaning, now).hash
           = HashExecutionPlanApproval(id, graph, meaning)
BY DEF FreezePlan

(* The plan that bootstrap_harness_plan asks for *)
AskedFor(instructions, model, page, replacement) ==
  [instructions |-> instructions, profile |-> Profile,
   model |-> model, revision |-> Revision,
   policy |-> <<"controlled-fixture-disclosure-v1">>,
   allowed |-> <<"selected bytes and the request">>,
   envelope |-> [summary |-> <<"controlled fixture">>,
                 requested |-> <<"LocalRead", "ProviderDisclose",
                                 "CreateOrReplace", "NativeInspection">>],
   manifest |-> NewManifest(Id("manifest", Now), <<page, "<h1>Ready</h1>">>,
                            instructions, <<"controlled fixture context">>),
   replacement |-> replacement, identity |-> <<"file", page>>]
AskedReplacement(page) ==
  NewReplacement(Id("replacement", Now), Target, <<page, "<h1>Ready</h1>">>,
                 <<page, "<h1>Ready for review</h1>">>,
                 <<"harness-request">>, NULL, Now)
AskedPlan(instructions, model, page) ==
  FreezePlan(Id("plan", Now), FixedFirstGraph(Id("graph", Now)),
             AskedFor(instructions, model, page, AskedReplacement(page)), Now)

(* persist_frozen_pair, for the pair that was asked for *)
LEMMA PairIsAsked ==
  ASSUME NEW instructions, NEW model, NEW page, RecordPair(instructions, model, page)
  PROVE  LET replacement == AskedReplacement(page)
             graph == FixedFirstGraph(Id("graph", Now))
             plan == AskedPlan(instructions, model, page)
         IN  /\ IsNew(db.replacements, replacement.id) /\ IsNew(db.graphs, graph.id)
             /\ IsNew(db.plans, plan.id)
             /\ PersistWith(
                  [db EXCEPT !.replacements = Insert(@, replacement),
                             !.graphs = Insert(@, GraphRow(graph)),
                             !.plans = Insert(@, PlanRow(plan))],
                  [kept EXCEPT !.replacements = Insert(@, replacement),
                               !.graphs = Insert(@, graph), !.plans = Insert(@, plan)],
                  "PairFrozen", <<plan.id, graph.id, plan.hash>>)
BY DEF RecordPair, AskedReplacement, AskedPlan, AskedFor

LEMMA AskedPlanIsWhole ==
  ASSUME NEW instructions, NEW model, NEW page
  PROVE  LET plan == AskedPlan(instructions, model, page)
         IN  /\ PlanIsWhole(plan) /\ plan.id = Id("plan", Now) /\ plan.at = Now
             /\ plan.graph = Id("graph", Now) /\ plan.revision = Revision
             /\ plan.replacement = AskedReplacement(page)
<1> DEFINE replacement == AskedReplacement(page)
           meaning == AskedFor(instructions, model, page, replacement)
           graph == FixedFirstGraph(Id("graph", Now))
           plan == FreezePlan(Id("plan", Now), graph, meaning, Now)
           envelope == [summary |-> <<"controlled fixture">>,
                        requested |-> <<"LocalRead", "ProviderDisclose",
                                        "CreateOrReplace", "NativeInspection">>]
<1>1. /\ DOMAIN meaning = Meant /\ meaning.revision = Revision
      /\ meaning.replacement = replacement /\ meaning.envelope = envelope
  BY DEF AskedFor, Meant
<1>2. graph.id = Id("graph", Now)
  BY FixedGraphIsWhole
<1> HIDE DEF meaning, graph, replacement
<1>3. /\ IsRecord(plan, PlanFields) /\ plan.id = Id("plan", Now) /\ plan.at = Now
      /\ plan.graph = Id("graph", Now)
      /\ \A c \in Meant : plan[c] = meaning[c]
  <2>1. {"id", "graph", "at", "hash"} \cup Meant = PlanFields
    BY DEF Meant, PlanFields
  <2>2. IsRecord(plan, PlanFields)
    BY <1>1, <2>1 DEF FreezePlan, IsRecord
  <2>3. plan.id = Id("plan", Now) /\ plan.at = Now /\ plan.graph = graph.id
    BY DEF FreezePlan
  <2>4. \A c \in Meant : plan[c] = meaning[c]
    BY <1>1 DEF FreezePlan, Meant
  <2> QED BY <1>2, <2>2, <2>3, <2>4
<1>4. EnvelopeIsWhole(envelope)
  BY DEF EnvelopeIsWhole, IsList, Capability
<1>5. Id("plan", Now) # NULL /\ Id("graph", Now) # NULL
  BY DEF Id, NULL
<1> HIDE DEF plan, envelope
<1>6. /\ plan.revision = Revision /\ plan.replacement = replacement
      /\ plan.envelope = envelope
  BY <1>1, <1>3 DEF Meant
<1>7. PlanIsWhole(plan)
  BY <1>3, <1>4, <1>5, <1>6 DEF PlanIsWhole
<1> QED BY <1>3, <1>6, <1>7 DEF AskedPlan, plan, meaning, graph, replacement

LEMMA PairKeeps ==
  ASSUME EvidenceInv, NEW instructions, NEW model, NEW page,
         RecordPair(instructions, model, page)
  PROVE  EvidenceInv'
<1> DEFINE replacement == AskedReplacement(page)
           graph == FixedFirstGraph(Id("graph", Now))
           plan == AskedPlan(instructions, model, page)
           replacements == Insert(kept.replacements, replacement)
           graphRows == Insert(db.graphs, GraphRow(graph))
           graphs == Insert(kept.graphs, graph)
           planRows == Insert(db.plans, PlanRow(plan))
           plans == Insert(kept.plans, plan)
           tables == [db EXCEPT !.replacements = replacements, !.graphs = graphRows,
                                !.plans = planRows]
           memory == [kept EXCEPT !.replacements = replacements, !.graphs = graphs,
                                  !.plans = plans]
<1>1. db.replacements = kept.replacements
  BY DEF EvidenceInv, RecordsMatch
<1>2. /\ replacement.id \notin DOMAIN kept.replacements
      /\ PersistWith(tables, memory, "PairFrozen", <<plan.id, graph.id, plan.hash>>)
  BY <1>1, PairIsAsked DEF IsNew
<1>3. GraphIsWhole(graph) /\ GraphRow(graph).id = graph.id
  BY FixedGraphIsWhole, GraphReloads
<1>4. /\ PlanIsWhole(plan) /\ plan.revision = Revision /\ plan.at = Now
      /\ plan.replacement = replacement /\ PlanRow(plan).id = plan.id
  BY AskedPlanIsWhole, PlanReloads
<1>5. plan.at \in 0 .. MaxEvents
  <2>1. Len(db.events) < MaxEvents
    BY <1>2 DEF PersistWith
  <2>2. Len(db.events) = Len(kept.events) /\ Len(kept.events) \in Nat /\ Now = Len(kept.events) + 1
    BY NextIsNext DEF EvidenceInv, EventsMatch
  <2> QED BY <1>4, <2>1, <2>2, EvidenceAssumption
<1> HIDE DEF replacement, graph, plan
<1>6. GraphsMatch(graphRows, graphs)
  BY <1>3 DEF EvidenceInv, RecordsMatch, GraphsMatch, Insert, IsList
<1>7. /\ replacement.id \in DOMAIN replacements /\ replacements[replacement.id] = replacement
      /\ \A r \in DOMAIN kept.replacements :
           r \in DOMAIN replacements /\ replacements[r] = kept.replacements[r]
  BY <1>2 DEF Insert
<1> HIDE DEF replacements
<1>8. PlansMatch(planRows, plans, replacements) /\ DOMAIN plans # {}
  <2>1. PlansMatch(db.plans, kept.plans, kept.replacements)
    BY DEF EvidenceInv, RecordsMatch
  <2>2. /\ IsList(plans) /\ DOMAIN planRows = DOMAIN plans
        /\ DOMAIN plans = DOMAIN kept.plans \cup {plan.id}
        /\ plans[plan.id] = plan /\ planRows[plan.id] = PlanRow(plan)
        /\ \A p \in DOMAIN kept.plans \ {plan.id} :
             plans[p] = kept.plans[p] /\ planRows[p] = db.plans[p]
    BY <1>4, <2>1 DEF PlansMatch, Insert, IsList
  <2> HIDE DEF plans, planRows
  <2>3. ASSUME NEW p \in DOMAIN plans
        PROVE  /\ PlanIsWhole(plans[p]) /\ planRows[p] = PlanRow(plans[p])
               /\ plans[p].id = p /\ plans[p].revision = Revision
               /\ plans[p].at \in 0 .. MaxEvents
               /\ plans[p].replacement.id \in DOMAIN replacements
               /\ replacements[plans[p].replacement.id] = plans[p].replacement
    <3>1. CASE p = plan.id
      BY <1>4, <1>5, <1>7, <2>2, <3>1
    <3>2. CASE p \in DOMAIN kept.plans \ {plan.id}
      BY <1>7, <2>1, <2>2, <3>2 DEF PlansMatch
    <3> QED BY <2>2, <3>1, <3>2
  <2> QED BY <2>2, <2>3 DEF PlansMatch
<1> HIDE DEF graphRows, graphs, planRows, plans
<1>9. IsRecord(db, Columns) /\ IsRecord(kept, Columns)
  BY DEF EvidenceInv, RecordsMatch
<1>10. /\ IsRecord(tables, Columns) /\ tables.replacements = replacements
       /\ tables.graphs = graphRows /\ tables.plans = planRows
       /\ \A c \in Columns \ {"replacements", "graphs", "plans"} : tables[c] = db[c]
  BY <1>9 DEF IsRecord, Columns
<1>11. /\ IsRecord(memory, Columns) /\ memory.replacements = replacements
       /\ memory.graphs = graphs /\ memory.plans = plans
       /\ \A c \in Columns \ {"replacements", "graphs", "plans"} : memory[c] = kept[c]
  BY <1>9 DEF IsRecord, Columns
<1> HIDE DEF tables, memory
<1>12. CheckpointsHold(tables.checkpoints, memory.checkpoints, memory.plans, memory.events)
  BY <1>8, <1>10, <1>11 DEF EvidenceInv, RecordsMatch, CheckpointsHold, Columns
<1>13. RecordsMatch(tables, memory) /\ tables.events = db.events /\ memory.events = kept.events
  BY <1>6, <1>8, <1>10, <1>11, <1>12 DEF EvidenceInv, RecordsMatch, Columns
<1>14. KindIsWhole([kind |-> "PairFrozen", fields |-> <<plan.id, graph.id, plan.hash>>])
  BY KindsAreWhole
<1> QED BY <1>2, <1>13, <1>14, Persisted

---------------------------------------------------------------------------
(* The whole Run.                                                          *)

(* create_run *)
LEMMA EvidenceInvInit ==
  EvidenceInit => EvidenceInv
<1> SUFFICES ASSUME EvidenceInit PROVE EvidenceInv
  OBVIOUS
<1> DEFINE event == [id |-> Id("event", 1), seq |-> 1, at |-> 1,
                     kind |-> [kind |-> "RunCreated", fields |-> <<>>]]
           run(cohort) == [id |-> Id("run", 1), name |-> <<"root">>, at |-> 1,
                           cohort |-> cohort]
           one == [taxonomy |-> <<"v1">>, cohort |-> <<"c">>, at |-> 1,
                   authority |-> <<"owner">>, rationale |-> <<"r">>]
           made(cohort) ==
             [run |-> run(cohort), events |-> <<event>>, plans |-> <<>>,
              graphs |-> <<>>, replacements |-> <<>>, approvals |-> <<>>,
              grants |-> <<>>, effects |-> <<>>, checkpoints |-> <<>>,
              validations |-> <<>>, denials |-> <<>>, lease |-> <<>>,
              final |-> <<>>]
<1>1. PICK cohort \in {<<>>, <<one>>} :
        /\ kept = made(cohort)
        /\ db = [made(cohort) EXCEPT !.run.cohort = CohortToJson(@),
                                     !.events = <<EventRow(event)>>]
  BY DEF EvidenceInit
<1>2. CohortIsWhole(cohort)
  <2>1. CohortIsWhole(<<>>)
    BY DEF CohortIsWhole, IsList
  <2>2. CohortIsWhole(<<one>>)
    <3> DEFINE list == <<one>>
    <3>1. DOMAIN list = {1} /\ list[1] = one /\ IsList(list)
      BY DEF IsList
    <3>2. one = [taxonomy |-> one.taxonomy, cohort |-> one.cohort, at |-> one.at,
                 authority |-> one.authority, rationale |-> one.rationale]
      OBVIOUS
    <3> HIDE DEF list, one
    <3>3. CohortIsWhole(list)
      BY <3>1, <3>2 DEF CohortIsWhole
    <3> QED BY <3>3 DEF list
  <2> HIDE DEF one
  <2> QED BY <2>1, <2>2
<1> HIDE DEF one
<1>3. EventIsWhole(event) /\ event.seq = 1
  BY KindsAreWhole DEF EventIsWhole, IsRecord, EventFields
<1>4. RunMatches(RunRow(run(cohort)), run(cohort))
  BY <1>2 DEF RunMatches, RunIsWhole, IsRecord, RunFields
<1>5. /\ IsRecord(kept, Columns) /\ kept.run = run(cohort) /\ kept.events = <<event>>
      /\ \A c \in Columns \ {"run", "events"} : kept[c] = <<>>
  <2> HIDE DEF event, run
  <2> QED BY <1>1 DEF IsRecord, Columns
<1>6. /\ IsRecord(db, Columns) /\ db.run = RunRow(run(cohort))
      /\ db.events = <<EventRow(event)>>
      /\ \A c \in Columns \ {"run", "events"} : db[c] = <<>>
  <2>1. db = [made(cohort) EXCEPT !.run = RunRow(run(cohort)),
                                  !.events = <<EventRow(event)>>]
    BY <1>1 DEF RunRow
  <2> HIDE DEF event, run
  <2>2. /\ IsRecord(made(cohort), Columns)
        /\ \A c \in Columns \ {"run", "events"} : made(cohort)[c] = <<>>
    BY DEF IsRecord, Columns
  <2> DEFINE row == RunRow(run(cohort))
             rows == <<EventRow(event)>>
  <2> HIDE DEF made, row, rows
  <2>3. /\ IsRecord(db, Columns) /\ db.run = row /\ db.events = rows
        /\ \A c \in Columns \ {"run", "events"} : db[c] = made(cohort)[c]
    BY <2>1, <2>2 DEF IsRecord, Columns, row, rows
  <2> QED BY <2>2, <2>3 DEF row, rows
<1> HIDE DEF event, run, made
<1>7. EventsMatch(db.events, kept.events)
  <2>1. IsSequence(<<event>>) /\ IsSequence(<<EventRow(event)>>)
    <3>1. <<event>> \in Seq({event}) /\ <<EventRow(event)>> \in Seq({EventRow(event)})
      OBVIOUS
    <3> QED BY <3>1 DEF IsSequence
  <2> QED BY <1>3, <1>5, <1>6, <2>1 DEF EventsMatch
<1>8. IsList(<<>>) /\ DOMAIN <<>> = {}
  BY DEF IsList
<1>9. RecordsMatch(db, kept)
  <2>1. /\ GraphsMatch(<<>>, <<>>) /\ \A r : PlansMatch(<<>>, <<>>, r)
        /\ ApprovalsMatch(<<>>, <<>>) /\ GrantsMatch(<<>>, <<>>)
        /\ \A g : EffectsMatch(<<>>, <<>>, g) /\ ValidationsMatch(<<>>, <<>>)
        /\ DenialsMatch(<<>>, <<>>) /\ FinalMatches(<<>>, <<>>)
        /\ \A p, e : CheckpointsHold(<<>>, <<>>, p, e)
    BY <1>8 DEF GraphsMatch, PlansMatch, ApprovalsMatch, GrantsMatch, EffectsMatch,
                ValidationsMatch, DenialsMatch, FinalMatches, CheckpointsHold
  <2> QED BY <1>4, <1>5, <1>6, <2>1 DEF RecordsMatch, Columns
<1> QED BY <1>7, <1>9 DEF EvidenceInv

LEMMA EvidenceInvStep ==
  EvidenceInv /\ [EvidenceNext]_evidenceVars => EvidenceInv'
<1> SUFFICES ASSUME EvidenceInv, [EvidenceNext]_evidenceVars PROVE EvidenceInv'
  OBVIOUS
<1>1. CASE PairNext
  <2>1. ASSUME NEW instructions \in Wording, NEW model \in Wording,
               NEW page \in {"a", "b"}, RecordPair(instructions, model, page)
        PROVE  EvidenceInv'
    BY <2>1, PairKeeps
  <2>2. ASSUME NEW p \in DOMAIN LoadPlans,
               \/ RecordApproval(p) \/ RecordCheckpoint(p) \/ RecordResult(p)
               \/ \E seen \in {LoadPlans[p].replacement.pre,
                               LoadPlans[p].replacement.post} : RecordValidation(p, seen)
        PROVE  EvidenceInv'
    BY <2>2, ApprovalKeeps, CheckpointKeeps, ResultKeeps, ValidationKeeps
  <2>3. ASSUME NEW a \in DOMAIN LoadApprovals, PairGrant(a)
        PROVE  EvidenceInv'
    BY <2>3, PairGrantKeeps
  <2> QED BY <1>1, <2>1, <2>2, <2>3, DenialKeeps DEF PairNext
<1>2. CASE PrepareNext
  BY <1>2, BootstrapGrantKeeps, EffectKeeps, ClaimKeeps DEF PrepareNext
<1>3. CASE EffectNext
  <2>1. PICK e \in DOMAIN LoadEffects :
          \/ RecordDispatch(e) \/ LoseDispatch(e)
          \/ \E result \in OperationResult \ {"None"},
                cert \in EffectCertainty \ {"None"} : RecordSettlement(e, result, cert)
          \/ \E probe \in Probe : RecordReconciliation(e, probe)
    BY <1>3 DEF EffectNext
  <2> QED BY <2>1, DispatchKeeps, LossKeeps, SettlementKeeps, ReconciliationKeeps
<1>4. CASE LeaseNext
  <2>1. CASE RecordAcquisition \/ RecordTakeover
    BY <2>1, LeaseKeeps DEF RecordAcquisition, RecordTakeover, RecordLease
  <2>2. CASE RecordRelease
    BY <2>2, LeaseKeeps DEF RecordRelease
  <2>3. CASE \E g \in DOMAIN LoadGrants : RecordRevocation(g)
    BY <2>3, RevocationKeeps
  <2>4. CASE RecordBoundary("Paused") \/ RecordBoundary("Cancelled")
    BY <2>4, BoundaryKeeps
  <2> QED BY <1>4, <2>1, <2>2, <2>3, <2>4 DEF LeaseNext
<1>5. CASE UNCHANGED evidenceVars
  BY <1>5 DEF evidenceVars, EvidenceInv
<1> QED BY <1>1, <1>2, <1>3, <1>4, <1>5 DEF EvidenceNext

(* sqlite/runs.rs:482 reconstruct_run: whatever sequence of use cases      *)
(* wrote the tables, the Run reads back as the records those use cases     *)
(* returned, and no checkpoint in it ever asks for the Run to be abandoned *)
(* because of its own log or policy.                                       *)
THEOREM EvidenceIsReloaded == EvidenceSpec => []EvidenceReloads
<1>1. EvidenceInv => EvidenceReloads
  BY EverythingReloads
<1> QED BY EvidenceInvInit, EvidenceInvStep, <1>1, PTL DEF EvidenceSpec

---------------------------------------------------------------------------
(* Canonical encoding: the concatenation of blocks that carry their own    *)
(* length can be taken apart in one way only.                              *)

(* A name written in the code is a string too; that no prover here says so *)
(* of a literal is the only reason to list them.                           *)
Symbol ==
  STRING \cup
  {"1", "encoding", "tule-canonical-v1", "plan_id", "graph_id", "graph_hash",
   "instructions", "provider_profile_id", "model_id", "disclosure_policy_id",
   "allowed_disclosure", "capability_envelope", "context_manifest_hash",
   "request_semantic_hash", "relative_target", "preimage_hash",
   "postimage_hash", "expected_diff_hash", "preimage_filesystem_identity",
   "retry_rule", "validation_rule", "op_replace", "replace-existing-file-v1",
   "op_verify", "verify-approved-postimage-v1", "registered_operation_schema",
   "tule-registered-op-schema-v1", "execution_policy_revision", "summary",
   "capability", "local_read", "create_or_replace", "native_inspection",
   "provider_disclose", "plan", "graph", "index.html", "xai-subscription-oauth",
   "tule-execution-policy-v1", "controlled-fixture-disclosure-v1",
   "selected bytes and the request", "controlled fixture", "file", "a", "b",
   "no-automatic-retry-v1", "native-approved-postimage-v1"}

Text == Seq(Symbol)

(* What the symbols of this model stand for: a length or a number has one  *)
(* symbol of its own, and no two texts have the same digest (SHA-256 is    *)
(* taken to have no collision).                                            *)
SymbolsAreDistinct ==
  /\ \A v : ToString(v) \in STRING
  /\ \A m, n \in Nat : ToString(m) = ToString(n) => m = n
  /\ \A s, t \in Text : ToString(s) = ToString(t) => s = t

IsField(f) == f = <<f[1], f[2]>> /\ f[1] \in Symbol /\ f[2] \in Text
AreFields(F, n) ==
  F = [i \in 1 .. n |-> F[i]] /\ \A i \in 1 .. n : IsField(F[i])

(* append_canonical_field *)
LEMMA FieldIsBlock ==
  ASSUME SymbolsAreDistinct, NEW name \in Symbol, NEW value \in Text
  PROVE  /\ Field(name, value) \in Text /\ Len(Field(name, value)) = 3 + Len(value)
         /\ Field(name, value)[2] = name
         /\ Field(name, value)[3] = ToString(Len(value))
         /\ \A k \in 1 .. Len(value) : Field(name, value)[3 + k] = value[k]
<1> DEFINE length == ToString(Len(value))
           head == <<"1", name, length>>
<1>1. length \in Symbol /\ "1" \in Symbol
  BY DEF SymbolsAreDistinct, Symbol
<1>2. Field(name, value) = head \o value
  BY DEF Field
<1> HIDE DEF length
<1>3. head \in Text /\ Len(head) = 3 /\ head[2] = name /\ head[3] = length
  BY <1>1 DEF Text
<1> DEFINE n == 3
           block == head \o value
<1> HIDE DEF head
<1>4. Len(head) = n /\ head \in Seq(Symbol) /\ value \in Seq(Symbol)
  BY <1>3 DEF Text
<1> HIDE DEF n
<1>5. /\ block \in Seq(Symbol) /\ Len(block) = n + Len(value)
      /\ \A k \in 1 .. n : block[k] = head[k]
      /\ \A k \in 1 .. Len(value) : block[n + k] = value[k]
  BY <1>4, ConcatAt
<1> HIDE DEF block
<1>6. block[2] = head[2] /\ block[3] = head[3]
  BY <1>5 DEF n
<1>7. /\ Len(block) = 3 + Len(value)
      /\ \A k \in 1 .. Len(value) : block[3 + k] = value[k]
  BY <1>5 DEF n
<1>8. Field(name, value) = block
  BY <1>2 DEF block
<1> QED BY <1>3, <1>5, <1>6, <1>7, <1>8 DEF length, Text

(* A block is known from any text that starts with it *)
LEMMA BlocksDelimit ==
  ASSUME SymbolsAreDistinct, NEW a \in Symbol, NEW v \in Text,
         NEW b \in Symbol, NEW w \in Text, NEW before \in Text, NEW all \in Text,
         IsPrefixOf(before \o Field(a, v), all), IsPrefixOf(before \o Field(b, w), all)
  PROVE  a = b /\ v = w
<1> DEFINE s == Field(a, v)
           t == Field(b, w)
           off == Len(before)
<1>1. /\ s \in Text /\ Len(s) = 3 + Len(v) /\ s[2] = a /\ s[3] = ToString(Len(v))
      /\ \A k \in 1 .. Len(v) : s[3 + k] = v[k]
  BY FieldIsBlock
<1>2. /\ t \in Text /\ Len(t) = 3 + Len(w) /\ t[2] = b /\ t[3] = ToString(Len(w))
      /\ \A k \in 1 .. Len(w) : t[3 + k] = w[k]
  BY FieldIsBlock
<1> HIDE DEF s, t
<1>3. ASSUME NEW x \in Text, IsPrefixOf(before \o x, all), NEW k \in 1 .. Len(x)
      PROVE  all[off + k] = x[k]
  <2>1. /\ Len(before \o x) = off + Len(x) /\ (before \o x)[off + k] = x[k]
        /\ off + k \in 1 .. off + Len(x)
    BY DEF Text
  <2> QED BY <1>3, <2>1 DEF IsPrefixOf
<1>4. /\ \A k \in 1 .. Len(s) : all[off + k] = s[k]
      /\ \A k \in 1 .. Len(t) : all[off + k] = t[k]
  BY <1>1, <1>2, <1>3 DEF s, t
<1>5. Len(v) \in Nat /\ Len(w) \in Nat
  BY DEF Text
<1> HIDE DEF off
<1>6. a = b /\ ToString(Len(v)) = ToString(Len(w))
  <2>1. /\ 2 \in 1 .. Len(s) /\ 3 \in 1 .. Len(s)
        /\ 2 \in 1 .. Len(t) /\ 3 \in 1 .. Len(t)
    BY <1>1, <1>2, <1>5
  <2> QED BY <1>1, <1>2, <1>4, <2>1
<1>7. Len(v) = Len(w)
  BY <1>5, <1>6 DEF SymbolsAreDistinct
<1>8. ASSUME NEW k \in 1 .. Len(v) PROVE v[k] = w[k]
  <2>1. 3 + k \in 1 .. Len(s) /\ 3 + k \in 1 .. Len(t)
    BY <1>1, <1>2, <1>5, <1>7
  <2> QED BY <1>1, <1>2, <1>4, <1>7, <2>1
<1>9. v = w
  BY <1>7, <1>8 DEF Text
<1> QED BY <1>6, <1>9

(* The same bytes are the encoding of the same fields *)
LEMMA EncodeIsInjective ==
  ASSUME SymbolsAreDistinct, NEW n \in Nat \ {0},
         NEW F, AreFields(F, n), NEW G, AreFields(G, n), Encode(F) = Encode(G)
  PROVE  F = G
<1>0. /\ DOMAIN F = 1 .. n /\ DOMAIN G = 1 .. n
      /\ \A i \in 1 .. n : IsField(F[i]) /\ IsField(G[i])
  BY DEF AreFields
<1> DEFINE s == [i \in 1 .. n |-> Field(F[i][1], F[i][2])]
           t == [i \in 1 .. n |-> Field(G[i][1], G[i][2])]
<1>1. /\ \A i \in 1 .. n : s[i] \in Text /\ t[i] \in Text
      /\ Len(s) = n /\ Len(t) = n
  <2>1. \A i \in 1 .. n : s[i] \in Text /\ t[i] \in Text
    BY <1>0, FieldIsBlock DEF IsField
  <2>2. s \in Seq(Text) /\ t \in Seq(Text)
    BY <2>1
  <2> QED BY <2>1, <2>2
<1>2. Encode(F) = FlattenSeq(s) /\ Encode(G) = FlattenSeq(t)
  BY <1>0 DEF Encode
<1>3. PICK g : Chain(g, s, n) /\ FlattenSeq(s) = g[n]
  <2> HIDE DEF s
  <2> QED BY <1>1, FlattenIsChain
<1>4. PICK h : Chain(h, t, n) /\ FlattenSeq(t) = h[n]
  <2> HIDE DEF t
  <2> QED BY <1>1, FlattenIsChain
<1> DEFINE all == g[n]
<1>5. h[n] = all
  BY <1>2, <1>3, <1>4
<1>6. \A i \in 1 .. n : /\ s[i] = Field(F[i][1], F[i][2])
                        /\ t[i] = Field(G[i][1], G[i][2])
  OBVIOUS
<1> HIDE DEF s, t
<1>7. ASSUME NEW i \in 1 .. n
      PROVE  /\ g[i] \in Text /\ h[i] \in Text
             /\ IsPrefixOf(g[i], all) /\ IsPrefixOf(h[i], all)
  BY <1>1, <1>3, <1>4, <1>5, ChainTypes, ChainGrows DEF Text
<1> HIDE DEF all
<1> DEFINE Bad == {i \in 1 .. n : ~ (g[i] = h[i] /\ F[i] = G[i])}
<1>8. ASSUME Bad # {} PROVE FALSE
  <2>1. Bad \in SUBSET Nat
    OBVIOUS
  <2>2. PICK m \in Bad : \A k \in Bad : m <= k
    <3> HIDE DEF Bad
    <3> QED BY <1>8, <2>1, LeastExists
  <2>3. m \in 1 .. n /\ ~ (g[m] = h[m] /\ F[m] = G[m])
    OBVIOUS
  <2>4. \A k \in 1 .. n : ~ (m <= k) => g[k] = h[k]
    BY <2>2
  <2> HIDE DEF Bad
  <2>5. PICK before \in Text : g[m] = before \o s[m] /\ h[m] = before \o t[m]
    <3>1. CASE m = 1
      <4>1. g[m] = s[m] /\ h[m] = t[m]
        BY <1>3, <1>4, <2>3, <3>1 DEF Chain
      <4>2. <<>> \in Text /\ \A x \in Text : <<>> \o x = x
        BY DEF Text
      <4> QED BY <1>1, <2>3, <4>1, <4>2
    <3>2. CASE m # 1
      <4>1. m - 1 \in 1 .. n /\ ~ (m <= m - 1)
        BY <2>3, <3>2
      <4>2. g[m] = g[m - 1] \o s[m] /\ h[m] = h[m - 1] \o t[m]
        BY <1>3, <1>4, <2>3, <3>2 DEF Chain
      <4> QED BY <1>7, <2>4, <4>1, <4>2
    <3> QED BY <3>1, <3>2
  <2> DEFINE f == F[m]
             e == G[m]
  <2>6. IsField(f) /\ IsField(e)
    BY <1>0, <2>3
  <2>7. /\ IsPrefixOf(before \o Field(f[1], f[2]), all)
        /\ IsPrefixOf(before \o Field(e[1], e[2]), all)
    <3>1. s[m] = Field(f[1], f[2]) /\ t[m] = Field(e[1], e[2])
      BY <1>6, <2>3
    <3>2. IsPrefixOf(g[m], all) /\ IsPrefixOf(h[m], all)
      BY <1>7, <2>3
    <3> HIDE DEF f, e
    <3> QED BY <2>5, <3>1, <3>2
  <2> HIDE DEF f, e
  <2>8. f[1] = e[1] /\ f[2] = e[2]
    <3>1. all \in Text
      <4>1. n \in 1 .. n
        OBVIOUS
      <4> QED BY <1>7, <4>1 DEF all
    <3> QED BY <2>6, <2>7, <3>1, BlocksDelimit DEF IsField
  <2>9. f = e
    BY <2>6, <2>8 DEF IsField
  <2>10. s[m] = t[m]
    BY <1>6, <2>3, <2>9 DEF f, e
  <2> QED BY <2>3, <2>5, <2>9, <2>10 DEF f, e
<1>9. Bad = {}
  BY <1>8
<1> QED BY <1>9 DEF AreFields

LEMMA EncodeIsText ==
  ASSUME SymbolsAreDistinct, NEW n \in Nat \ {0},
         NEW F, AreFields(F, n)
  PROVE  Encode(F) \in Text
<1> DEFINE s == [i \in 1 .. n |-> Field(F[i][1], F[i][2])]
<1>1. (\A i \in 1 .. n : s[i] \in Text) /\ Len(s) = n
  <2>1. \A i \in 1 .. n : s[i] \in Text
    BY FieldIsBlock DEF IsField, AreFields
  <2>2. s \in Seq(Text)
    BY <2>1
  <2> QED BY <2>1, <2>2
<1>2. Encode(F) = FlattenSeq(s)
  BY DEF Encode, AreFields
<1> HIDE DEF s
<1>3. PICK g : Chain(g, s, n) /\ FlattenSeq(s) = g[n]
  BY <1>1, FlattenIsChain
<1> QED BY <1>1, <1>2, <1>3, ChainTypes DEF Text

LEMMA OneSymbol ==
  ASSUME NEW s \in Symbol
  PROVE  <<s>> \in Text
BY DEF Text

LEMMA TwoSymbols ==
  ASSUME NEW s \in Symbol, NEW t \in Symbol
  PROVE  <<s, t>> \in Text
BY DEF Text

LEMMA StringsAreText ==
  ASSUME NEW t \in Seq(STRING)
  PROVE  t \in Text
<1>1. t \in [1 .. Len(t) -> STRING] /\ Len(t) \in Nat
  OBVIOUS
<1>2. STRING \subseteq Symbol
  BY DEF Symbol
<1>3. t \in [1 .. Len(t) -> Symbol]
  BY <1>1, <1>2
<1> QED BY <1>1, <1>3 DEF Text

LEMMA HashIsText ==
  ASSUME SymbolsAreDistinct, NEW bytes
  PROVE  Digest(bytes) \in Text
<1>1. ToString(bytes) \in Symbol
  BY DEF SymbolsAreDistinct, Symbol
<1> QED BY <1>1 DEF Digest, Text

LEMMA FieldInFront ==
  ASSUME NEW first, IsField(first), NEW n \in Nat, NEW H, AreFields(H, n)
  PROVE  /\ AreFields(<<first>> \o H, n + 1)
         /\ \A i \in 1 .. n : (<<first>> \o H)[i + 1] = H[i]
<1> DEFINE S == {H[i] : i \in 1 .. n} \cup {first}
           head == <<first>>
           one == 1
           all == head \o H
<1>1. H \in Seq(S) /\ Len(H) = n
  BY DEF AreFields
<1>2. head \in Seq(S) /\ Len(head) = one
  OBVIOUS
<1>3. \A f \in S : IsField(f)
  BY DEF AreFields
<1> HIDE DEF S, head, one
<1>4. /\ all \in Seq(S) /\ Len(all) = one + Len(H)
      /\ \A k \in 1 .. Len(H) : all[one + k] = H[k]
  BY <1>1, <1>2, ConcatAt
<1> HIDE DEF all
<1>5. all = [i \in 1 .. n + 1 |-> all[i]] /\ \A i \in 1 .. n + 1 : all[i] \in S
  BY <1>1, <1>4 DEF one
<1>6. \A k \in 1 .. n : all[k + 1] = H[k]
  BY <1>1, <1>4 DEF one
<1>7. AreFields(all, n + 1)
  BY <1>3, <1>5 DEF AreFields
<1> QED BY <1>6, <1>7 DEF all, head

(* hash_canonical_fields: the same hash is of the same fields *)
LEMMA HashIsInjective ==
  ASSUME SymbolsAreDistinct, NEW n \in Nat \ {0},
         NEW F, AreFields(F, n), NEW G, AreFields(G, n),
         HashCanonicalFields(F) = HashCanonicalFields(G)
  PROVE  F = G
<1> DEFINE first == <<"encoding", <<"tule-canonical-v1">>>>
           head == <<first>>
           m == n + 1
<1>1. IsField(first)
  <2>1. "encoding" \in Symbol /\ "tule-canonical-v1" \in Symbol
    BY DEF Symbol
  <2> QED BY <2>1 DEF IsField, Text
<1> HIDE DEF first
<1>2. m \in Nat \ {0}
  OBVIOUS
<1>3. ASSUME NEW H, AreFields(H, n)
      PROVE  /\ AreFields(head \o H, m)
             /\ \A i \in 1 .. n : (head \o H)[i + 1] = H[i]
  BY <1>1, <1>3, FieldInFront
<1> HIDE DEF head, m
<1>4. Encode(head \o F) \in Text /\ Encode(head \o G) \in Text
  BY <1>2, <1>3, EncodeIsText
<1>5. Encode(head \o F) = Encode(head \o G)
  <2>1. \A H : HashCanonicalFields(H) = <<ToString(Encode(head \o H))>>
    BY DEF HashCanonicalFields, Digest, head, first
  <2>2. ToString(Encode(head \o F)) = ToString(Encode(head \o G))
    BY <2>1
  <2> QED BY <1>4, <2>2 DEF SymbolsAreDistinct
<1>6. head \o F = head \o G
  BY <1>2, <1>3, <1>5, EncodeIsInjective
<1>7. \A i \in 1 .. n : F[i] = G[i]
  BY <1>3, <1>6
<1> QED BY <1>7 DEF AreFields

---------------------------------------------------------------------------
(* What an approval names.                                                 *)

GraphTexts(graph) == \A c \in {"id", "hash", "retry", "validation"} : graph[c] \in Text

PlanTexts(p) ==
  /\ \A c \in {"instructions", "profile", "model", "policy", "allowed", "identity",
               "revision"} : p[c] \in Text
  /\ EnvelopeBytes(p.envelope) \in Text
  /\ p.manifest.content \in Text /\ p.manifest.request \in Text
  /\ \A c \in {"target", "pre", "post", "diff"} : p.replacement[c] \in Text

LEMMA ApprovalIsOfFields ==
  ASSUME NEW id \in Text, NEW graph, GraphTexts(graph), NEW p, PlanTexts(p)
  PROVE  LET F == ApprovalFields(id, graph, p)
         IN  /\ AreFields(F, 22)
             /\ F[1][2] = id /\ F[4][2] = p.instructions /\ F[6][2] = p.model
             /\ F[13][2] = p.replacement.pre /\ F[14][2] = p.replacement.post
<1> DEFINE F == ApprovalFields(id, graph, p)
<1>1. ASSUME NEW name \in Symbol, NEW value \in Text PROVE IsField(<<name, value>>)
  BY DEF IsField
<1>2. /\ F = [i \in 1 .. 22 |-> F[i]]
      /\ F[1][2] = id /\ F[4][2] = p.instructions /\ F[6][2] = p.model
      /\ F[13][2] = p.replacement.pre /\ F[14][2] = p.replacement.post
  BY DEF ApprovalFields
<1>3. /\ IsField(F[1]) /\ IsField(F[2]) /\ IsField(F[3]) /\ IsField(F[4])
      /\ IsField(F[5]) /\ IsField(F[6]) /\ IsField(F[7]) /\ IsField(F[8])
  BY <1>1 DEF ApprovalFields, Symbol, GraphTexts, PlanTexts
<1>4. /\ IsField(F[9]) /\ IsField(F[10]) /\ IsField(F[11]) /\ IsField(F[12])
      /\ IsField(F[13]) /\ IsField(F[14]) /\ IsField(F[15]) /\ IsField(F[16])
  BY <1>1 DEF ApprovalFields, Symbol, GraphTexts, PlanTexts
<1>5. /\ IsField(F[17]) /\ IsField(F[18]) /\ IsField(F[19]) /\ IsField(F[20])
      /\ IsField(F[21]) /\ IsField(F[22])
  <2>1. /\ <<"replace-existing-file-v1">> \in Text
        /\ <<"verify-approved-postimage-v1">> \in Text
        /\ <<"tule-registered-op-schema-v1">> \in Text
    <3>1. /\ "replace-existing-file-v1" \in Symbol
          /\ "verify-approved-postimage-v1" \in Symbol
          /\ "tule-registered-op-schema-v1" \in Symbol
      BY DEF Symbol
    <3> QED BY <3>1 DEF Text
  <2> QED BY <1>1, <2>1 DEF ApprovalFields, Symbol, GraphTexts, PlanTexts
<1> HIDE DEF F
<1>6. \A i \in 1 .. 22 : IsField(F[i])
  BY <1>3, <1>4, <1>5
<1> QED BY <1>2, <1>6 DEF F, AreFields

(* The hash of what is approved determines the plan and its meaning *)
LEMMA ApprovalHashNames ==
  ASSUME SymbolsAreDistinct,
         NEW a \in Text, NEW g, GraphTexts(g), NEW p, PlanTexts(p),
         NEW b \in Text, NEW h, GraphTexts(h), NEW q, PlanTexts(q),
         HashExecutionPlanApproval(a, g, p) = HashExecutionPlanApproval(b, h, q)
  PROVE  a = b /\ Meaning(p) = Meaning(q)
<1> DEFINE F == ApprovalFields(a, g, p)
           G == ApprovalFields(b, h, q)
           n == 22
<1>1. /\ AreFields(F, n)
      /\ F[1][2] = a /\ F[4][2] = p.instructions /\ F[6][2] = p.model
      /\ F[13][2] = p.replacement.pre /\ F[14][2] = p.replacement.post
  BY ApprovalIsOfFields
<1>2. /\ AreFields(G, n)
      /\ G[1][2] = b /\ G[4][2] = q.instructions /\ G[6][2] = q.model
      /\ G[13][2] = q.replacement.pre /\ G[14][2] = q.replacement.post
  BY ApprovalIsOfFields
<1>3. HashCanonicalFields(F) = HashCanonicalFields(G)
  BY DEF HashExecutionPlanApproval
<1>4. n \in Nat \ {0}
  OBVIOUS
<1> HIDE DEF F, G, n
<1>5. F = G
  BY <1>1, <1>2, <1>3, <1>4, HashIsInjective
<1> QED BY <1>1, <1>2, <1>5 DEF Meaning

(* What is kept of the pairs and their approvals: a plan's hash is of the  *)
(* plan and the graph it names, and an approval copies a plan that is kept *)
NamesMatch(graphs, plans, approvals) ==
  /\ \A g \in DOMAIN graphs : GraphTexts(graphs[g])
  /\ \A p \in DOMAIN plans :
       /\ p \in Text /\ PlanTexts(plans[p]) /\ plans[p].graph \in DOMAIN graphs
       /\ plans[p].hash
            = HashExecutionPlanApproval(p, graphs[plans[p].graph], plans[p])
  /\ \A a \in DOMAIN approvals :
       /\ approvals[a].plan \in DOMAIN plans
       /\ approvals[a].graph = plans[approvals[a].plan].graph
       /\ approvals[a].hash = plans[approvals[a].plan].hash

NamesInv == EvidenceInv /\ NamesMatch(kept.graphs, kept.plans, kept.approvals)

NamesKept ==
  /\ kept'.graphs = kept.graphs /\ kept'.plans = kept.plans
  /\ kept'.approvals = kept.approvals

(* Everything but a pair or an approval leaves the pairs and approvals *)
LEMMA PersistKeepsNames ==
  ASSUME EvidenceInv, NEW tables, NEW memory, NEW kind, NEW fields,
         PersistWith(tables, memory, kind, fields), IsRecord(memory, Columns),
         memory.graphs = kept.graphs, memory.plans = kept.plans,
         memory.approvals = kept.approvals
  PROVE  NamesKept
BY DEF PersistWith, NamesKept, IsRecord, Columns

LEMMA OneColumnKeepsNames ==
  ASSUME EvidenceInv,
         NEW column \in Columns \ {"graphs", "plans", "approvals"}, NEW value,
         NEW tables, NEW kind, NEW fields,
         PersistWith(tables, [kept EXCEPT ![column] = value], kind, fields)
  PROVE  NamesKept
<1> DEFINE memory == [kept EXCEPT ![column] = value]
<1>1. /\ IsRecord(memory, Columns) /\ memory.graphs = kept.graphs
      /\ memory.plans = kept.plans /\ memory.approvals = kept.approvals
  BY DEF EvidenceInv, RecordsMatch, IsRecord, Columns
<1> HIDE DEF memory
<1> QED BY <1>1, PersistKeepsNames DEF memory

LEMMA RecordsKeepNames ==
  ASSUME EvidenceInv
  PROVE  /\ \A p : RecordCheckpoint(p) => NamesKept
         /\ \A p : RecordResult(p) => NamesKept
         /\ \A p, seen : RecordValidation(p, seen) => NamesKept
         /\ \A grant : RecordGrant(grant) => NamesKept
         /\ \A g, r : RecordDenial(g, r) => NamesKept
         /\ \A g : RecordEffect(g) => NamesKept
<1>1. ASSUME NEW p, RecordCheckpoint(p) PROVE NamesKept
  BY <1>1, OneColumnKeepsNames DEF RecordCheckpoint, Columns
<1>2. ASSUME NEW p, RecordResult(p) PROVE NamesKept
  BY <1>2, OneColumnKeepsNames DEF RecordResult, Columns
<1>3. ASSUME NEW p, NEW seen, RecordValidation(p, seen) PROVE NamesKept
  BY <1>3, OneColumnKeepsNames DEF RecordValidation, Columns
<1>4. ASSUME NEW grant, RecordGrant(grant) PROVE NamesKept
  BY <1>4, OneColumnKeepsNames DEF RecordGrant, Columns
<1>5. ASSUME NEW g, NEW r, RecordDenial(g, r) PROVE NamesKept
  BY <1>5, OneColumnKeepsNames DEF RecordDenial, Columns
<1>6. ASSUME NEW g, RecordEffect(g) PROVE NamesKept
  BY <1>6, OneColumnKeepsNames DEF RecordEffect, Columns
<1> QED BY <1>1, <1>2, <1>3, <1>4, <1>5, <1>6

LEMMA JournalKeepsNames ==
  ASSUME EvidenceInv
  PROVE  /\ \A e : RecordClaim(e) => NamesKept
         /\ \A e : RecordDispatch(e) \/ LoseDispatch(e) => NamesKept
         /\ \A e, result, cert : RecordSettlement(e, result, cert) => NamesKept
         /\ \A e, probe : RecordReconciliation(e, probe) => NamesKept
         /\ \A g : RecordRevocation(g) => NamesKept
<1>0. IsRecord(kept, Columns)
  BY DEF EvidenceInv, RecordsMatch
<1>1. ASSUME NEW e, RecordClaim(e) PROVE NamesKept
  <2> DEFINE tables == [db EXCEPT !.effects[e].phase = "claimed",
                                  !.effects[e].claimant = Claiming,
                                  !.effects[e].claimed = Now]
             memory == [kept EXCEPT !.effects[e].phase = "Claimed",
                                    !.effects[e].claimant = Claiming,
                                    !.effects[e].claimed = Now]
  <2>1. PersistWith(tables, memory, "EffectClaimed", <<e, Claiming>>)
    BY <1>1 DEF RecordClaim
  <2>2. /\ IsRecord(memory, Columns) /\ memory.graphs = kept.graphs
        /\ memory.plans = kept.plans /\ memory.approvals = kept.approvals
    BY <1>0 DEF IsRecord, Columns
  <2> HIDE DEF tables, memory
  <2> QED BY <2>1, <2>2, PersistKeepsNames
<1>2. ASSUME NEW e, RecordDispatch(e) PROVE NamesKept
  <2> DEFINE effect == LoadEffects[e]
             g == effect.grant
             tables == [db EXCEPT !.grants[g].left = @ - 1,
                                  !.effects[e] = UpdatedEffect(@, Dispatched(effect))]
             memory == [kept EXCEPT !.grants[g].left = @ - 1,
                                    !.effects[e] = Dispatched(@)]
  <2>1. PersistWith(tables, memory, "EffectDispatched", <<e>>)
    BY <1>2 DEF RecordDispatch
  <2> HIDE DEF g
  <2>2. /\ IsRecord(memory, Columns) /\ memory.graphs = kept.graphs
        /\ memory.plans = kept.plans /\ memory.approvals = kept.approvals
    BY <1>0 DEF IsRecord, Columns
  <2> HIDE DEF tables, memory
  <2> QED BY <2>1, <2>2, PersistKeepsNames
<1>3. ASSUME NEW e, LoseDispatch(e) PROVE NamesKept
  BY <1>0, <1>3 DEF LoseDispatch, NamesKept, IsRecord, Columns
<1>4. ASSUME NEW e, NEW result, NEW cert, RecordSettlement(e, result, cert)
      PROVE  NamesKept
  BY <1>0, <1>4, PersistKeepsNames DEF RecordSettlement, IsRecord, Columns
<1>5. ASSUME NEW e, NEW probe, RecordReconciliation(e, probe) PROVE NamesKept
  BY <1>0, <1>5, PersistKeepsNames DEF RecordReconciliation, IsRecord, Columns
<1>6. ASSUME NEW g, RecordRevocation(g) PROVE NamesKept
  BY <1>0, <1>6, PersistKeepsNames DEF RecordRevocation, IsRecord, Columns
<1> QED BY <1>1, <1>2, <1>3, <1>4, <1>5, <1>6

LEMMA LeaseKeepsNames ==
  ASSUME EvidenceInv
  PROVE  /\ \A kind : RecordLease(kind) => NamesKept
         /\ RecordRelease => NamesKept
         /\ \A kind : RecordBoundary(kind) => NamesKept
<1>1. ASSUME NEW kind, RecordLease(kind) PROVE NamesKept
  BY <1>1, OneColumnKeepsNames DEF RecordLease, Columns
<1>2. ASSUME RecordRelease PROVE NamesKept
  BY <1>2, OneColumnKeepsNames DEF RecordRelease, Columns
<1>3. ASSUME NEW kind, RecordBoundary(kind) PROVE NamesKept
  BY <1>3, PersistKeepsNames DEF RecordBoundary, EvidenceInv, RecordsMatch
<1> QED BY <1>1, <1>2, <1>3

LEMMA OthersKeepNames ==
  ASSUME EvidenceInv, EvidenceNext
  PROVE  \/ NamesKept
         \/ \E instructions, model \in Wording, page \in {"a", "b"} :
              RecordPair(instructions, model, page)
         \/ \E p \in DOMAIN LoadPlans : RecordApproval(p)
<1>1. CASE PairNext
  <2>1. ASSUME NEW p \in DOMAIN LoadPlans,
               \/ RecordCheckpoint(p) \/ RecordResult(p)
               \/ \E seen \in {LoadPlans[p].replacement.pre,
                               LoadPlans[p].replacement.post} : RecordValidation(p, seen)
        PROVE  NamesKept
    BY <2>1, RecordsKeepNames
  <2>2. ASSUME NEW a \in DOMAIN LoadApprovals, PairGrant(a) PROVE NamesKept
    <3>1. \E grant : RecordGrant(grant)
      BY <2>2 DEF PairGrant
    <3> QED BY <3>1, RecordsKeepNames
  <2>3. ASSUME AnyDenial PROVE NamesKept
    <3>1. \E g, r : RecordDenial(g, r)
      BY <2>3 DEF AnyDenial
    <3> QED BY <3>1, RecordsKeepNames
  <2> QED BY <1>1, <2>1, <2>2, <2>3 DEF PairNext
<1>2. CASE PrepareNext
  <2>1. ASSUME BootstrapGrant PROVE NamesKept
    <3>1. \E grant : RecordGrant(grant)
      BY <2>1 DEF BootstrapGrant
    <3> QED BY <3>1, RecordsKeepNames
  <2> QED BY <1>2, <2>1, RecordsKeepNames, JournalKeepsNames DEF PrepareNext
<1>3. CASE EffectNext
  BY <1>3, JournalKeepsNames DEF EffectNext
<1>4. CASE LeaseNext
  BY <1>4, LeaseKeepsNames, JournalKeepsNames
     DEF LeaseNext, RecordAcquisition, RecordTakeover
<1> QED BY <1>1, <1>2, <1>3, <1>4 DEF EvidenceNext

(* approve_pair *)
LEMMA ApprovalKeepsNames ==
  ASSUME NamesInv, NEW p \in DOMAIN LoadPlans, RecordApproval(p)
  PROVE  NamesMatch(kept'.graphs, kept'.plans, kept'.approvals)
<1> DEFINE plan == LoadPlans[p]
           approval == [id |-> Id("approval", Now), plan |-> plan.id,
                        graph |-> plan.graph, hash |-> plan.hash,
                        approver |-> <<"owner">>, at |-> Now]
           records == Insert(kept.approvals, approval)
           tables == [db EXCEPT !.approvals = Insert(db.approvals, approval)]
           memory == [kept EXCEPT !.approvals = records]
<1>1. PersistWith(tables, memory, "Approved", <<approval.id>>)
  BY DEF RecordApproval
<1>2. /\ LoadPlans = kept.plans /\ p \in DOMAIN kept.plans /\ kept.plans[p].id = p
      /\ IsRecord(kept, Columns)
  BY RunReads DEF NamesInv, EvidenceInv, RecordsMatch, PlansMatch
<1>3. approval.plan = p /\ approval.graph = kept.plans[p].graph
      /\ approval.hash = kept.plans[p].hash
  BY <1>2
<1> HIDE DEF approval
<1>4. NamesMatch(kept.graphs, kept.plans, records)
  BY <1>2, <1>3 DEF NamesInv, NamesMatch, Insert
<1> HIDE DEF records, tables
<1>5. /\ IsRecord(memory, Columns) /\ memory.graphs = kept.graphs
      /\ memory.plans = kept.plans /\ memory.approvals = records
  BY <1>2 DEF IsRecord, Columns
<1> HIDE DEF memory
<1>6. /\ kept'.graphs = memory.graphs /\ kept'.plans = memory.plans
      /\ kept'.approvals = memory.approvals
  BY <1>1, <1>5 DEF PersistWith, IsRecord, Columns
<1> QED BY <1>4, <1>5, <1>6

LEMMA IdIsText ==
  ASSUME SymbolsAreDistinct, NEW what \in Symbol, NEW n
  PROVE  Id(what, n) \in Text
<1>1. ToString(n) \in Symbol
  BY DEF SymbolsAreDistinct, Symbol
<1> QED BY <1>1 DEF Id, Text

LEMMA FixedGraphTexts ==
  ASSUME SymbolsAreDistinct, NEW n
  PROVE  GraphTexts(FixedFirstGraph(Id("graph", n)))
<1> DEFINE graph == FixedFirstGraph(Id("graph", n))
<1>1. Id("graph", n) \in Text
  <2>1. "graph" \in Symbol
    BY DEF Symbol
  <2> QED BY <2>1, IdIsText
<1>2. graph.id = Id("graph", n)
  BY FixedGraphIsWhole
<1>3. \E bytes : graph.hash = Digest(bytes)
  BY DEF FixedFirstGraph, HashGraphContent, HashCanonicalFields
<1>4. /\ graph.retry = <<"no-automatic-retry-v1">>
      /\ graph.validation = <<"native-approved-postimage-v1">>
  BY DEF FixedFirstGraph
<1>5. /\ <<"no-automatic-retry-v1">> \in Text
      /\ <<"native-approved-postimage-v1">> \in Text
  <2>1. "no-automatic-retry-v1" \in Symbol /\ "native-approved-postimage-v1" \in Symbol
    BY DEF Symbol
  <2> QED BY <2>1 DEF Text
<1> HIDE DEF graph
<1>6. graph.hash \in Text
  BY <1>3, HashIsText
<1> QED BY <1>1, <1>2, <1>4, <1>5, <1>6 DEF GraphTexts, graph

AskedEnvelope ==
  [summary |-> <<"controlled fixture">>,
   requested |-> <<"LocalRead", "ProviderDisclose", "CreateOrReplace",
                   "NativeInspection">>]

(* CapabilityEnvelope::canonical_bytes *)
LEMMA EnvelopeIsText ==
  ASSUME SymbolsAreDistinct
  PROVE  EnvelopeBytes(AskedEnvelope) \in Text
<1> DEFINE word(c) == <<"capability", <<CapabilityText[c]>>>>
           first == <<"summary", <<"controlled fixture">>>>
           rest == <<word("LocalRead"), word("ProviderDisclose"),
                     word("CreateOrReplace"), word("NativeInspection")>>
           F == <<first>> \o rest
<1>1. IsField(first)
  <2>1. "summary" \in Symbol /\ "controlled fixture" \in Symbol
    BY DEF Symbol
  <2>2. <<"controlled fixture">> \in Text
    BY <2>1, OneSymbol
  <2> QED BY <2>1, <2>2 DEF IsField
<1>2. \A c \in {"LocalRead", "ProviderDisclose", "CreateOrReplace",
                "NativeInspection"} : IsField(word(c))
  <2>1. ASSUME NEW c \in {"LocalRead", "ProviderDisclose", "CreateOrReplace",
                          "NativeInspection"}
        PROVE  IsField(word(c))
    <3>1. CapabilityText[c] \in Symbol /\ "capability" \in Symbol
      <4>1. CapabilityText[c] \in {"local_read", "create_or_replace",
                                   "native_inspection", "provider_disclose"}
        BY DEF CapabilityText
      <4> HIDE DEF word
      <4> QED BY <4>1 DEF Symbol
    <3>2. <<CapabilityText[c]>> \in Text
      BY <3>1 DEF Text
    <3> QED BY <3>1, <3>2 DEF IsField
  <2> QED BY <2>1
<1>3. EnvelopeBytes(AskedEnvelope) = Encode(F)
  <2>1. rest = [i \in DOMAIN AskedEnvelope.requested |->
                  word(AskedEnvelope.requested[i])]
    <3> HIDE DEF word
    <3> QED BY DEF AskedEnvelope
  <2>2. AskedEnvelope.summary = <<"controlled fixture">>
    BY DEF AskedEnvelope
  <2>3. EnvelopeBytes(AskedEnvelope)
          = Encode(<<<<"summary", AskedEnvelope.summary>>>>
                   \o [i \in DOMAIN AskedEnvelope.requested |->
                         word(AskedEnvelope.requested[i])])
    BY DEF EnvelopeBytes
  <2> HIDE DEF rest
  <2> QED BY <2>1, <2>2, <2>3
<1> HIDE DEF word, first
<1>4. AreFields(rest, 4)
  <2>1. rest = [i \in 1 .. 4 |-> rest[i]] /\ \A i \in 1 .. 4 : IsField(rest[i])
    BY <1>2
  <2> HIDE DEF rest
  <2> QED BY <2>1 DEF AreFields
<1> HIDE DEF rest
<1>5. AreFields(F, 5)
  BY <1>1, <1>4, FieldInFront
<1> HIDE DEF F
<1> QED BY <1>3, <1>5, EncodeIsText

(* The plan that is frozen: its texts, and the hash of itself *)
LEMMA AskedPlanTexts ==
  ASSUME SymbolsAreDistinct, NEW instructions \in Wording, NEW model \in Wording,
         NEW page \in {"a", "b"}
  PROVE  LET plan == AskedPlan(instructions, model, page)
         IN  /\ Id("plan", Now) \in Text /\ PlanTexts(plan)
             /\ plan.hash = HashExecutionPlanApproval(Id("plan", Now),
                              FixedFirstGraph(Id("graph", Now)), plan)
<1> DEFINE replacement == AskedReplacement(page)
           meaning == AskedFor(instructions, model, page, replacement)
           graph == FixedFirstGraph(Id("graph", Now))
           plan == FreezePlan(Id("plan", Now), graph, meaning, Now)
           manifest == NewManifest(Id("manifest", Now), <<page, "<h1>Ready</h1>">>,
                                   instructions, <<"controlled fixture context">>)
<1>1. /\ DOMAIN meaning = Meant /\ meaning.replacement = replacement
      /\ meaning.instructions = instructions /\ meaning.model = model
      /\ meaning.profile = Profile /\ meaning.revision = Revision
      /\ meaning.policy = <<"controlled-fixture-disclosure-v1">>
      /\ meaning.allowed = <<"selected bytes and the request">>
      /\ meaning.envelope = AskedEnvelope /\ meaning.manifest = manifest
      /\ meaning.identity = <<"file", page>>
  BY DEF AskedFor, Meant, AskedEnvelope
<1>2. manifest.content \in Text /\ manifest.request \in Text
  <2>1. \E a, b : manifest.content = Digest(a) /\ manifest.request = Digest(b)
    BY DEF NewManifest, HashCanonicalFields
  <2> HIDE DEF manifest
  <2> QED BY <2>1, HashIsText
<1>3. \A c \in {"target", "pre", "post", "diff"} : replacement[c] \in Text
  <2>1. /\ replacement.target = Target
        /\ \E a, b, c : /\ replacement.pre = Digest(a) /\ replacement.post = Digest(b)
                        /\ replacement.diff = Digest(c)
    BY DEF AskedReplacement, NewReplacement, HashExpectedDiff, HashCanonicalFields
  <2>2. Target \in Text
    <3>1. "index.html" \in Symbol
      BY DEF Symbol
    <3> QED BY <3>1, OneSymbol DEF Target
  <2> HIDE DEF replacement
  <2> QED BY <2>1, <2>2, HashIsText
<1>4. /\ instructions \in Text /\ model \in Text /\ Profile \in Text
      /\ Revision \in Text /\ <<"controlled-fixture-disclosure-v1">> \in Text
      /\ <<"selected bytes and the request">> \in Text /\ <<"file", page>> \in Text
  <2>1. instructions \in Seq(STRING) /\ model \in Seq(STRING)
    BY EvidenceAssumption
  <2>2. instructions \in Text /\ model \in Text
    BY <2>1, StringsAreText
  <2>3. /\ "xai-subscription-oauth" \in Symbol /\ "tule-execution-policy-v1" \in Symbol
        /\ "controlled-fixture-disclosure-v1" \in Symbol
        /\ "selected bytes and the request" \in Symbol
        /\ "file" \in Symbol /\ "a" \in Symbol /\ "b" \in Symbol
    BY DEF Symbol
  <2>4. page \in Symbol
    BY <2>3
  <2>5. <<"file", page>> \in Text
    BY <2>3, <2>4, TwoSymbols
  <2> QED BY <2>2, <2>3, <2>5, OneSymbol DEF Profile, Revision
<1>5. EnvelopeBytes(AskedEnvelope) \in Text
  BY EnvelopeIsText
<1>6. Id("plan", Now) \in Text
  <2>1. "plan" \in Symbol
    BY DEF Symbol
  <2> QED BY <2>1, IdIsText
<1> HIDE DEF meaning, graph, replacement, manifest
<1>7. \A c \in Meant : plan[c] = meaning[c]
  BY <1>1 DEF FreezePlan, Meant
<1>8. plan.hash = HashExecutionPlanApproval(Id("plan", Now), graph, meaning)
  BY FrozenHash
<1> HIDE DEF plan
<1>9. /\ plan.replacement = replacement /\ plan.instructions = instructions
      /\ plan.model = model /\ plan.profile = Profile /\ plan.revision = Revision
      /\ plan.policy = meaning.policy /\ plan.allowed = meaning.allowed
      /\ plan.envelope = AskedEnvelope /\ plan.manifest = manifest
      /\ plan.identity = meaning.identity
  BY <1>1, <1>7 DEF Meant
<1>10. PlanTexts(plan)
  BY <1>1, <1>2, <1>3, <1>4, <1>5, <1>9 DEF PlanTexts
<1>11. ApprovalFields(Id("plan", Now), graph, plan)
         = ApprovalFields(Id("plan", Now), graph, meaning)
  BY <1>1, <1>9 DEF ApprovalFields
<1>12. plan.hash = HashExecutionPlanApproval(Id("plan", Now), graph, plan)
  BY <1>8, <1>11 DEF HashExecutionPlanApproval
<1> QED BY <1>6, <1>10, <1>12 DEF AskedPlan, plan, meaning, graph, replacement

(* compile_and_freeze_pair *)
LEMMA PairKeepsNames ==
  ASSUME SymbolsAreDistinct, NamesInv, NEW instructions \in Wording,
         NEW model \in Wording, NEW page \in {"a", "b"},
         RecordPair(instructions, model, page)
  PROVE  NamesMatch(kept'.graphs, kept'.plans, kept'.approvals)
<1> DEFINE replacement == AskedReplacement(page)
           graph == FixedFirstGraph(Id("graph", Now))
           plan == AskedPlan(instructions, model, page)
           replacements == Insert(kept.replacements, replacement)
           graphs == Insert(kept.graphs, graph)
           plans == Insert(kept.plans, plan)
           tables == [db EXCEPT !.replacements = Insert(db.replacements, replacement),
                                !.graphs = Insert(db.graphs, GraphRow(graph)),
                                !.plans = Insert(db.plans, PlanRow(plan))]
           memory == [kept EXCEPT !.replacements = replacements, !.graphs = graphs,
                                  !.plans = plans]
<1>1. /\ IsNew(db.graphs, graph.id) /\ IsNew(db.plans, plan.id)
      /\ PersistWith(tables, memory, "PairFrozen", <<plan.id, graph.id, plan.hash>>)
  BY PairIsAsked
<1>2. /\ DOMAIN db.graphs = DOMAIN kept.graphs /\ DOMAIN db.plans = DOMAIN kept.plans
      /\ IsRecord(kept, Columns)
  BY DEF NamesInv, EvidenceInv, RecordsMatch, GraphsMatch, PlansMatch
<1>3. graph.id \notin DOMAIN kept.graphs /\ plan.id \notin DOMAIN kept.plans
  BY <1>1, <1>2 DEF IsNew
<1>4. /\ GraphTexts(graph) /\ graph.id = Id("graph", Now)
      /\ plan.graph = graph.id /\ plan.id \in Text /\ PlanTexts(plan)
      /\ plan.hash = HashExecutionPlanApproval(plan.id, graph, plan)
  <2>1. plan.id = Id("plan", Now) /\ plan.graph = Id("graph", Now)
    BY AskedPlanIsWhole
  <2>2. graph.id = Id("graph", Now)
    BY FixedGraphIsWhole
  <2>3. GraphTexts(graph)
    BY FixedGraphTexts
  <2>4. /\ Id("plan", Now) \in Text /\ PlanTexts(plan)
        /\ plan.hash = HashExecutionPlanApproval(Id("plan", Now), graph, plan)
    BY AskedPlanTexts
  <2> HIDE DEF plan, graph
  <2> QED BY <2>1, <2>2, <2>3, <2>4
<1> HIDE DEF graph, plan, replacement
<1>5. /\ DOMAIN graphs = DOMAIN kept.graphs \cup {graph.id} /\ graphs[graph.id] = graph
      /\ \A g \in DOMAIN kept.graphs : graphs[g] = kept.graphs[g]
      /\ DOMAIN plans = DOMAIN kept.plans \cup {plan.id} /\ plans[plan.id] = plan
      /\ \A p \in DOMAIN kept.plans : plans[p] = kept.plans[p]
  BY <1>3 DEF Insert
<1> HIDE DEF graphs, plans, replacements, tables
<1>6. NamesMatch(graphs, plans, kept.approvals)
  <2>1. \A g \in DOMAIN graphs : GraphTexts(graphs[g])
    BY <1>4, <1>5 DEF NamesInv, NamesMatch
  <2>2. ASSUME NEW p \in DOMAIN plans
        PROVE  /\ p \in Text /\ PlanTexts(plans[p]) /\ plans[p].graph \in DOMAIN graphs
               /\ plans[p].hash = HashExecutionPlanApproval(
                                    p, graphs[plans[p].graph], plans[p])
    BY <1>4, <1>5 DEF NamesInv, NamesMatch
  <2>3. \A a \in DOMAIN kept.approvals :
          /\ kept.approvals[a].plan \in DOMAIN plans
          /\ kept.approvals[a].graph = plans[kept.approvals[a].plan].graph
          /\ kept.approvals[a].hash = plans[kept.approvals[a].plan].hash
    BY <1>5 DEF NamesInv, NamesMatch
  <2> QED BY <2>1, <2>2, <2>3 DEF NamesMatch
<1>7. /\ IsRecord(memory, Columns) /\ memory.graphs = graphs
      /\ memory.plans = plans /\ memory.approvals = kept.approvals
  BY <1>2 DEF IsRecord, Columns
<1> HIDE DEF memory
<1>8. /\ kept'.graphs = memory.graphs /\ kept'.plans = memory.plans
      /\ kept'.approvals = memory.approvals
  BY <1>1, <1>7 DEF PersistWith, IsRecord, Columns
<1> QED BY <1>6, <1>7, <1>8

LEMMA NamesInvInit ==
  EvidenceInit => NamesInv
<1> SUFFICES ASSUME EvidenceInit PROVE NamesInv
  OBVIOUS
<1>1. kept.graphs = <<>> /\ kept.plans = <<>> /\ kept.approvals = <<>>
  BY DEF EvidenceInit
<1>2. DOMAIN <<>> = {}
  OBVIOUS
<1>3. NamesMatch(<<>>, <<>>, <<>>)
  BY <1>2 DEF NamesMatch
<1> QED BY <1>1, <1>3, EvidenceInvInit DEF NamesInv

LEMMA NamesInvStep ==
  ASSUME SymbolsAreDistinct
  PROVE  NamesInv /\ [EvidenceNext]_evidenceVars => NamesInv'
<1> SUFFICES ASSUME NamesInv, [EvidenceNext]_evidenceVars PROVE NamesInv'
  OBVIOUS
<1>1. EvidenceInv'
  BY EvidenceInvStep DEF NamesInv
<1>2. CASE NamesKept
  BY <1>1, <1>2 DEF NamesInv, NamesKept
<1>3. CASE UNCHANGED evidenceVars
  BY <1>1, <1>3 DEF NamesInv, evidenceVars
<1>4. ASSUME NEW instructions \in Wording, NEW model \in Wording,
             NEW page \in {"a", "b"}, RecordPair(instructions, model, page)
      PROVE  NamesInv'
  BY <1>1, <1>4, PairKeepsNames DEF NamesInv
<1>5. ASSUME NEW p \in DOMAIN LoadPlans, RecordApproval(p)
      PROVE  NamesInv'
  BY <1>1, <1>5, ApprovalKeepsNames DEF NamesInv
<1> QED BY <1>2, <1>3, <1>4, <1>5, OthersKeepNames DEF NamesInv

(* run.rs:2548 hash_execution_plan_approval: the hash an approval holds is *)
(* the hash of the one plan it names, and no plan frozen with other words  *)
(* or another file would have had it.  The hypothesis is about digests and *)
(* numbers as symbols, not about any Run.                                  *)
THEOREM ApprovalsNamePlans ==
  ASSUME SymbolsAreDistinct
  PROVE  EvidenceSpec => []ApprovalNamesPlan
<1>1. NamesInv => ApprovalNamesPlan
  <2> SUFFICES ASSUME NamesInv PROVE ApprovalNamesPlan
    OBVIOUS
  <2>1. /\ LoadPlans = kept.plans /\ LoadGraphs = kept.graphs
        /\ LoadApprovals = kept.approvals
    BY RunReads DEF NamesInv
  <2>2. ASSUME NEW a \in DOMAIN kept.approvals, NEW p \in DOMAIN kept.plans
        PROVE  LET approval == kept.approvals[a]
                   approved == kept.plans[approval.plan]
                   plan == kept.plans[p]
               IN  /\ approval.hash = plan.hash
                        => approval.plan = p /\ approval.graph = plan.graph
                   /\ HashExecutionPlanApproval(approval.plan,
                        kept.graphs[approval.graph], plan) = approval.hash
                        => Meaning(plan) = Meaning(approved)
    <3> DEFINE q == kept.approvals[a].plan
               plan == kept.plans[p]
               approved == kept.plans[q]
               g == kept.graphs[plan.graph]
               h == kept.graphs[approved.graph]
    <3>1. /\ q \in DOMAIN kept.plans /\ kept.approvals[a].graph = approved.graph
          /\ kept.approvals[a].hash = approved.hash
      BY DEF NamesInv, NamesMatch
    <3>2. /\ p \in Text /\ PlanTexts(plan) /\ GraphTexts(g)
          /\ plan.hash = HashExecutionPlanApproval(p, g, plan)
      BY DEF NamesInv, NamesMatch
    <3>3. /\ q \in Text /\ PlanTexts(approved) /\ GraphTexts(h)
          /\ approved.hash = HashExecutionPlanApproval(q, h, approved)
      BY <3>1 DEF NamesInv, NamesMatch
    <3> HIDE DEF q, plan, approved, g, h
    <3>4. ASSUME approved.hash = plan.hash PROVE q = p
      <4>1. HashExecutionPlanApproval(q, h, approved)
              = HashExecutionPlanApproval(p, g, plan)
        BY <3>2, <3>3, <3>4
      <4> QED BY <3>2, <3>3, <4>1, ApprovalHashNames
    <3>5. HashExecutionPlanApproval(q, h, plan) = approved.hash
            => Meaning(plan) = Meaning(approved)
      BY <3>2, <3>3, ApprovalHashNames
    <3> QED BY <3>1, <3>4, <3>5 DEF q, plan, approved, g, h
  <2> QED BY <2>1, <2>2 DEF ApprovalNamesPlan
<1> QED BY NamesInvInit, NamesInvStep, <1>1, PTL DEF EvidenceSpec

=============================================================================
