------------------------ MODULE OperationBrokerProofs ------------------------
(***************************************************************************)
(* Proofs about the broker handshake for every number of processes,        *)
(* grants, effects and pairs, and with every use case open to any caller.  *)
(***************************************************************************)
EXTENDS OperationBroker, RunStoreProofs

(* The records of unused ids and of no call have their types *)
LEMMA NullRecords ==
  /\ NoGrant \in GrantRecord
  /\ NoEffect \in EffectEntry
  /\ NoCall \in CallRecord
<1>1. 0 \in Time
  BY StoreAssumption DEF Time
<1>2. NoCall \in CallRecord
  BY <1>1, NullStoreRecords DEF NoCall, CallRecord, CallPc
<1> QED BY <1>2, NullStoreRecords

(* The initial states are well typed *)
LEMMA InitType == ASSUME Init PROVE TypeOK
<1>1. StoreTypeOK
  BY StoreInitType DEF Init
<1>2. clock \in Time
  BY StoreAssumption DEF Init, BrokerInit, Time
<1> QED
  BY <1>1, <1>2, NullRecords DEF Init, BrokerInit, TypeOK

---------------------------------------------------------------------------
(* Steps that leave the grants, the journal and the calls alone *)
LEMMA FrameStep ==
  ASSUME BrokerInv, TypeOK', UNCHANGED <<grants, effects, call, performed, spentBy>>
  PROVE  BrokerInv'
BY DEF BrokerInv, JournalShape, CallKnows, CallsDoNotShareEffects,
       BudgetIsExact, EveryEffectIsAuthorised, CertaintyIsTruthful, Issued

(* Steps that change one call only, to one that works on no effect *)
LEMMA CallStep ==
  ASSUME BrokerInv, UNCHANGED <<storeVars, clock, performed, spentBy>>,
         NEW p \in Proc, NEW c \in CallRecord, c.effect = 0,
         call' = [call EXCEPT ![p] = c], CallKnows(p)'
  PROVE  BrokerInv'
<1> USE DEF BrokerInv
<1>1. TypeOK'
  BY DEF TypeOK, StoreTypeOK, storeVars
<1>2. call'[p] = c /\ \A q \in Proc : q # p => call'[q] = call[q]
  BY DEF TypeOK
<1>3. \A q \in Proc : CallKnows(q)'
  BY <1>2 DEF CallKnows, storeVars, Issued
<1>4. CallsDoNotShareEffects'
  BY <1>2 DEF CallsDoNotShareEffects, storeVars
<1>5. JournalShape' /\ BudgetIsExact' /\ EveryEffectIsAuthorised'
        /\ CertaintyIsTruthful'
  BY DEF JournalShape, BudgetIsExact, EveryEffectIsAuthorised,
         CertaintyIsTruthful, Issued, storeVars
<1> QED BY <1>1, <1>3, <1>4, <1>5

(* A call that returns, with or without an error *)
LEMMA FinishStep ==
  ASSUME BrokerInv, UNCHANGED <<storeVars, clock, performed, spentBy>>,
         NEW p \in Proc, NEW pc \in {"Idle", "Done", "Failed"},
         call' = [call EXCEPT ![p] = [NoCall EXCEPT !.pc = pc]]
  PROVE  BrokerInv'
<1> DEFINE c == [NoCall EXCEPT !.pc = pc]
<1>1. c \in CallRecord /\ c.effect = 0 /\ c.pc = pc
  BY NullRecords DEF CallRecord, NoCall, CallPc
<1>2. call'[p] = c
  BY DEF BrokerInv, TypeOK
<1>3. CallKnows(p)'
  BY <1>1, <1>2 DEF CallKnows
<1> QED BY <1>1, <1>3, CallStep

(* A call that starts, with the grant its caller has loaded *)
LEMMA CallBrokerStep ==
  ASSUME BrokerInv, NEW p \in Proc, NEW op \in Ops, NEW g \in GrantId,
         NEW seen \in {grants[g], AsIssued(g)},
         NEW s \in Scope, NEW pr \in frozen \cup {NoPair}, NEW now \in Time,
         CallBroker(p, op, g, seen, s, pr, now)
  PROVE  BrokerInv'
<1> DEFINE c == [pc |-> "Found", op |-> op, grant |-> g, scope |-> s,
                 pair |-> pr, now |-> now, seen |-> seen, effect |-> 0]
<1>0. grants[g] \in GrantRecord
  BY DEF BrokerInv, TypeOK, StoreTypeOK
<1>1. /\ seen \in GrantRecord /\ seen.cap = grants[g].cap
      /\ seen.pair = grants[g].pair
      /\ pr \in PairId \cup {NoPair} /\ op \in Capability
  <2>1. CASE seen = grants[g]
    BY <1>0, <2>1, BrokerAssumption DEF BrokerInv, TypeOK, StoreTypeOK
  <2>2. CASE seen = AsIssued(g)
    <3>1. DispatchBudget \in 0 .. DispatchBudget
      BY DEF DispatchBudget
    <3>2. seen \in GrantRecord /\ seen.cap = grants[g].cap
            /\ seen.pair = grants[g].pair
      BY <1>0, <2>2, <3>1 DEF AsIssued, GrantRecord
    <3> QED BY <3>2, BrokerAssumption DEF BrokerInv, TypeOK, StoreTypeOK
  <2> QED BY <2>1, <2>2
<1>2. c \in CallRecord
  BY <1>1 DEF CallRecord, CallPc
<1>3. call' = [call EXCEPT ![p] = c]
  BY DEF CallBroker
<1>4. call'[p] = c
  BY <1>3 DEF BrokerInv, TypeOK
<1>5. UNCHANGED <<storeVars, clock, performed, spentBy>>
  BY DEF CallBroker
<1>6. CallKnows(p)'
  BY <1>1, <1>4, <1>5 DEF CallKnows, storeVars, Capability, CallBroker, Issued
<1> QED BY <1>2, <1>3, <1>5, <1>6, CallStep

(* ensure_grant binds the call to a grant of its capability and pair *)
LEMMA EnsureGrantStep ==
  ASSUME BrokerInv, NEW p \in Proc, EnsureGrant(p)
  PROVE  BrokerInv'
<1> DEFINE c == [call[p] EXCEPT !.pc = "Ensured", !.seen = NoGrant]
<1>0. call[p] \in CallRecord
  BY DEF BrokerInv, TypeOK
<1>1. CASE call' = [call EXCEPT ![p] = c]
           /\ GrantAllows(call[p].seen, ExpiresAt(call[p].seen), call[p].op,
                          call[p].scope, call[p].pair, call[p].now)
  <2>1. c \in CallRecord /\ c.pc = "Ensured" /\ c.effect = call[p].effect
          /\ c.grant = call[p].grant /\ c.op = call[p].op
          /\ c.pair = call[p].pair
    BY <1>0, NullRecords DEF CallRecord, CallPc
  <2>2. call'[p] = c
    BY <1>1 DEF BrokerInv, TypeOK
  <2>3. UNCHANGED <<storeVars, clock, performed, spentBy>>
    BY DEF EnsureGrant
  <2>4. CallKnows(p) /\ call[p].pc = "Found"
    BY DEF BrokerInv, EnsureGrant
  <2>5. CallKnows(p)'
    BY <1>1, <2>1, <2>2, <2>3, <2>4 DEF CallKnows, storeVars, GrantAllows, Issued
  <2>6. c.effect = 0
    BY <2>1, <2>4 DEF CallKnows
  <2> QED BY <1>1, <2>1, <2>3, <2>5, <2>6, CallStep
<1>2. CASE Finish(p, "Failed")
  BY <1>2, FinishStep DEF EnsureGrant, Finish
<1> QED BY <1>1, <1>2 DEF EnsureGrant

---------------------------------------------------------------------------
(* Steps on the grants *)
LEMMA IssueGrantStep ==
  ASSUME BrokerInv, TypeOK', NEW g, NEW cap \in Capability, NEW s, NEW pr, NEW now,
         IssueGrant(g, cap, s, pr, now), UNCHANGED brokerVars
  PROVE  BrokerInv'
<1> USE DEF BrokerInv
<1>1. /\ g \in GrantId /\ ~ Issued(g)
      /\ \A h \in GrantId : h # g => grants'[h] = grants[h]
      /\ grants'[g].cap = cap
      /\ effects' = effects /\ call' = call
      /\ performed' = performed /\ spentBy' = spentBy
  BY DEF IssueGrant, NextGrant, TypeOK, StoreTypeOK, brokerVars, GrantId
<1>2. spentBy[g] = 0
  BY <1>1 DEF BudgetIsExact
<1>3. BudgetIsExact'
  <2>1. grants'[g].cap # "None"
    BY <1>1 DEF Capability
  <2> QED BY <1>1, <1>2, <2>1 DEF BudgetIsExact, Issued
<1>4. \A p \in Proc : CallKnows(p)'
  <2> SUFFICES ASSUME NEW p \in Proc PROVE CallKnows(p)'
    OBVIOUS
  <2>1. CallKnows(p) /\ call[p] \in CallRecord
    BY DEF TypeOK
  <2>2. ASSUME call[p].grant = g PROVE call[p].pc # "Ensured" /\ call[p].effect = 0
    BY <1>1, <2>1, <2>2 DEF CallKnows, Issued
  <2>3. ASSUME call[p].grant = g, call[p].pc = "Found" PROVE FALSE
    BY <1>1, <2>1, <2>3 DEF CallKnows
  <2> QED BY <1>1, <2>1, <2>2, <2>3 DEF CallKnows, Issued
<1>5. EveryEffectIsAuthorised'
  BY <1>1, <1>2 DEF EveryEffectIsAuthorised, EffectId
<1>6. JournalShape' /\ CallsDoNotShareEffects' /\ CertaintyIsTruthful'
  BY <1>1 DEF JournalShape, CallsDoNotShareEffects, CertaintyIsTruthful
<1> QED BY <1>3, <1>4, <1>5, <1>6

(* A change of one issued grant that keeps its capability and its pair and *)
(* leaves nothing to consume once it is spent                              *)
LEMMA GrantStep ==
  ASSUME BrokerInv, TypeOK', NEW g \in GrantId, Issued(g),
         \A h \in GrantId : h # g => grants'[h] = grants[h],
         grants'[g].cap = grants[g].cap, grants'[g].pair = grants[g].pair,
         spentBy[g] # 0 => (grants'[g].revoked \/ grants'[g].left = 0),
         UNCHANGED <<effects, call, performed, spentBy>>
  PROVE  BrokerInv'
<1> USE DEF BrokerInv
<1>1. BudgetIsExact'
  BY DEF BudgetIsExact, Issued
<1>2. \A p \in Proc : CallKnows(p)'
  BY DEF CallKnows, Issued
<1>3. EveryEffectIsAuthorised'
  BY DEF EveryEffectIsAuthorised
<1>4. JournalShape' /\ CallsDoNotShareEffects' /\ CertaintyIsTruthful'
  BY DEF JournalShape, CallsDoNotShareEffects, CertaintyIsTruthful
<1> QED BY <1>1, <1>2, <1>3, <1>4

(* revoke_grant: the budget it writes back is of a revoked grant *)
LEMMA RevokeStep ==
  ASSUME BrokerInv, TypeOK', NEW g \in GrantId, RevokeGrant(g),
         UNCHANGED brokerVars
  PROVE  BrokerInv'
<1>1. PICK stale \in grants[g].left .. DispatchBudget :
        grants' = [grants EXCEPT ![g].revoked = TRUE, ![g].left = stale]
  BY DEF RevokeGrant
<1>2. grants \in [GrantId -> GrantRecord]
  BY DEF BrokerInv, TypeOK, StoreTypeOK
<1>3. /\ grants'[g].cap = grants[g].cap /\ grants'[g].pair = grants[g].pair
      /\ grants'[g].revoked
      /\ \A h \in GrantId : h # g => grants'[h] = grants[h]
  BY <1>1, <1>2 DEF GrantRecord
<1> QED
  BY <1>3, GrantStep DEF RevokeGrant, brokerVars

(* Consuming and recording the effect in spentBy *)
LEMMA ConsumeStep ==
  ASSUME BrokerInv, TypeOK', NEW p \in Proc, Consume(p)
  PROVE  BrokerInv'
<1> USE DEF BrokerInv
<1> DEFINE g == call[p].grant
           e == call[p].effect
<1>1. /\ CallKnows(p) /\ call[p].pc = "Claimed" /\ call[p] \in CallRecord
      /\ grants \in [GrantId -> GrantRecord] /\ call \in [Proc -> CallRecord]
  BY DEF Consume, TypeOK, StoreTypeOK
<1>2. g \in GrantId /\ e # 0 /\ e \in EffectId
  BY <1>1 DEF CallKnows, CallRecord
<1>3. Issued(g) /\ ~ grants[g].revoked /\ grants[g].left > 0
        /\ grants[g].left \in 0 .. DispatchBudget
  BY <1>1, <1>2 DEF Consume, ConsumeDispatchBudget, Consumable, GrantRecord
<1>4. spentBy[g] = 0
  BY <1>2, <1>3 DEF BudgetIsExact, DispatchBudget
<1>5. /\ grants'[g].left = 0 /\ grants'[g].cap = grants[g].cap
      /\ grants'[g].pair = grants[g].pair
      /\ \A h \in GrantId : h # g => grants'[h] = grants[h]
  BY <1>1, <1>2, <1>3 DEF Consume, ConsumeDispatchBudget, GrantRecord,
     DispatchBudget
<1>6. /\ spentBy'[g] = e
      /\ \A h \in GrantId : h # g => spentBy'[h] = spentBy[h]
      /\ effects' = effects /\ performed' = performed
  BY <1>2 DEF Consume, ConsumeDispatchBudget, TypeOK
<1>7. /\ call'[p] = [call[p] EXCEPT !.pc = "Consumed"]
      /\ \A q \in Proc : q # p => call'[q] = call[q]
  BY DEF Consume, GoTo, TypeOK
<1>7a. /\ call'[p].pc = "Consumed" /\ call'[p].effect = e
       /\ call'[p].grant = g /\ call'[p].op = call[p].op
       /\ call'[p].pair = call[p].pair
  BY <1>1, <1>7 DEF CallRecord
<1>8. BudgetIsExact'
  BY <1>3, <1>5, <1>6 DEF BudgetIsExact, Issued
<1>9. CallKnows(p)'
  BY <1>1, <1>2, <1>5, <1>6, <1>7a DEF CallKnows
<1>10. ASSUME NEW q \in Proc, q # p PROVE CallKnows(q)'
  <2>1. CallKnows(q) /\ call'[q] = call[q] /\ call[q] \in CallRecord
    BY <1>7, <1>10, <1>1
  <2>2. ASSUME call[q].pc \in {"Consumed", "Dispatched", "Performed", "Errored"}
        PROVE  call[q].grant # g
    BY <2>1, <2>2, <1>4 DEF CallKnows
  <2>3. call[q].grant \in GrantId =>
          /\ grants'[call[q].grant].cap = grants[call[q].grant].cap
          /\ grants'[call[q].grant].pair = grants[call[q].grant].pair
    BY <1>5
  <2>4. call[q].pc \in {"Consumed", "Dispatched", "Performed", "Errored"} =>
          /\ call[q].effect # 0 /\ call[q].grant \in GrantId
          /\ spentBy'[call[q].grant] = spentBy[call[q].grant]
    <3>1. call[q].pc \in {"Consumed", "Dispatched", "Performed", "Errored"} =>
            call[q].effect # 0 /\ call[q].grant \in GrantId
      BY <2>1 DEF CallKnows
    <3> QED BY <1>6, <2>2, <3>1
  <2>5. effects' = effects /\ performed' = performed
    BY <1>6
  <2> HIDE DEF g, e
  <2> QED BY <2>1, <2>3, <2>4, <2>5 DEF CallKnows, Issued
<1>11. EveryEffectIsAuthorised'
  BY <1>4, <1>5, <1>6 DEF EveryEffectIsAuthorised, EffectId
<1>12. CallsDoNotShareEffects'
  <2>1. \A q \in Proc : call'[q].effect = call[q].effect
    BY <1>7, <1>7a
  <2> QED BY <1>6, <2>1 DEF CallsDoNotShareEffects
<1>13. JournalShape' /\ CertaintyIsTruthful'
  BY <1>6 DEF JournalShape, CertaintyIsTruthful
<1> QED BY <1>8, <1>9, <1>10, <1>11, <1>12, <1>13

---------------------------------------------------------------------------
(* Steps on the journal.  A call changes only the effect it works on. *)
EffectIsSound(e) ==
  /\ effects[e].phase = "Settled" <=> effects[e].certainty # "None"
  /\ effects[e].phase \in {"None", "Prepared"}
       <=> effects[e].claimant = NoClaimant
  /\ performed[e] => effects[e].phase \in {"Dispatched", "Settled"}
  /\ effects[e].certainty = "ConfirmedCommitted" => performed[e]
  /\ effects[e].certainty = "ConfirmedNoEffect" => ~ performed[e]

(* A call moves its own effect on, with its own program counter *)
LEMMA OwnEffectStep ==
  ASSUME BrokerInv, TypeOK', NEW p \in Proc, NEW e \in EffectId,
         call[p].effect = e,
         \A f \in EffectId : f # e => effects'[f] = effects[f]
                                      /\ performed'[f] = performed[f],
         \A q \in Proc : q # p => call'[q] = call[q],
         UNCHANGED <<grants, spentBy>>,
         effects'[e].op = effects[e].op, effects'[e].grant = effects[e].grant,
         effects'[e].pair = effects[e].pair,
         call'[p].effect \in {0, e}, CallKnows(p)', EffectIsSound(e)',
         call'[p].effect = 0 \/ effects'[e].phase # "Settled",
         performed'[e] => spentBy[call[p].grant] = e
  PROVE  BrokerInv'
<1> USE DEF BrokerInv
<1>0. e # 0 /\ CallKnows(p) /\ EveryEffectIsAuthorised
  BY DEF EffectId
<1>1. JournalShape'
  BY DEF JournalShape, EffectIsSound
<1>2. ASSUME NEW q \in Proc PROVE CallKnows(q)'
  <2>1. CASE q = p BY <2>1
  <2>2. CASE q # p
    <3>1. call'[q] = call[q] /\ CallKnows(q) /\ call[q].effect # e
      BY <2>2, <1>0 DEF CallsDoNotShareEffects
    <3>2. call[q].effect # 0 => call[q].effect \in EffectId
      BY DEF TypeOK, CallRecord
    <3>3. call[q].effect # 0 =>
            /\ effects'[call[q].effect] = effects[call[q].effect]
            /\ performed'[call[q].effect] = performed[call[q].effect]
      BY <3>1, <3>2
    <3>4. call[q].effect = 0 =>
            call[q].pc \in {"Idle", "Found", "Ensured", "Done", "Failed"}
      BY <3>1 DEF CallKnows
    <3> QED BY <3>1, <3>3, <3>4 DEF CallKnows, Issued
  <2> QED BY <2>1, <2>2
<1>3. CallsDoNotShareEffects'
  <2> SUFFICES ASSUME NEW q \in Proc, call'[q].effect # 0
               PROVE  /\ \A r \in Proc : call'[r].effect = call'[q].effect => q = r
                      /\ effects'[call'[q].effect].phase # "Settled"
    BY DEF CallsDoNotShareEffects
  <2>1. \A r \in Proc : call'[r].effect # 0 => call'[r].effect = call[r].effect
    BY <1>0
  <2>2. \A r \in Proc : call'[r].effect = call'[q].effect => q = r
    BY <2>1 DEF CallsDoNotShareEffects
  <2>3. CASE q = p BY <2>2, <2>3, <1>0
  <2>4. CASE q # p
    <3>1. call'[q].effect = call[q].effect /\ call[q].effect # e
            /\ call[q].effect \in EffectId
      BY <2>4, <1>0 DEF CallsDoNotShareEffects, TypeOK, CallRecord
    <3> QED BY <3>1 DEF CallsDoNotShareEffects
  <2> QED BY <2>2, <2>3, <2>4
<1>4. BudgetIsExact'
  BY DEF BudgetIsExact, Issued
<1>5. EveryEffectIsAuthorised'
  <2>1. ASSUME performed'[e]
        PROVE  /\ effects'[e].phase \in {"Dispatched", "Settled"}
               /\ effects'[e].grant = call[p].grant
               /\ call[p].grant \in GrantId /\ spentBy'[call[p].grant] = e
               /\ grants'[call[p].grant].cap = effects'[e].op
               /\ grants'[call[p].grant].pair = effects'[e].pair
    BY <2>1, <1>0 DEF CallKnows, EffectIsSound
  <2>2. ASSUME NEW f \in EffectId, f # e, performed'[f]
        PROVE  /\ effects'[f].phase \in {"Dispatched", "Settled"}
               /\ effects'[f].grant \in GrantId
               /\ spentBy'[effects'[f].grant] = f
               /\ grants'[effects'[f].grant].cap = effects'[f].op
               /\ grants'[effects'[f].grant].pair = effects'[f].pair
    BY <2>2, <1>0 DEF EveryEffectIsAuthorised
  <2> QED BY <2>1, <2>2 DEF EveryEffectIsAuthorised
<1>6. CertaintyIsTruthful'
  BY DEF CertaintyIsTruthful, EffectIsSound
<1> QED BY <1>1, <1>2, <1>3, <1>4, <1>5, <1>6

(* claim_effect, on the effect the call prepared *)
LEMMA ClaimStep ==
  ASSUME BrokerInv, TypeOK', NEW p \in Proc, Claim(p)
  PROVE  BrokerInv'
<1>1. /\ CallKnows(p) /\ call[p].pc = "Prepared" /\ call[p] \in CallRecord
      /\ call \in [Proc -> CallRecord] /\ effects \in [EffectId -> EffectEntry]
      /\ JournalShape /\ EveryEffectIsAuthorised
  BY DEF Claim, BrokerInv, TypeOK, StoreTypeOK
<1>2. PICK e \in EffectId : call[p].effect = e
  BY <1>1 DEF CallKnows, CallRecord
<1>3. /\ effects'[e] = [effects[e] EXCEPT !.phase = "Claimed",
                                           !.claimant = CLAIMANT]
      /\ \A f \in EffectId : f # e => effects'[f] = effects[f]
  BY <1>1, <1>2 DEF Claim, ClaimEffect
<1>4. /\ effects'[e].phase = "Claimed" /\ effects'[e].claimant = CLAIMANT
      /\ effects'[e].op = effects[e].op /\ effects'[e].grant = effects[e].grant
      /\ effects'[e].pair = effects[e].pair
      /\ effects'[e].certainty = effects[e].certainty
  BY <1>1, <1>2, <1>3 DEF EffectEntry
<1>5. /\ call'[p] = [call[p] EXCEPT !.pc = "Claimed"]
      /\ \A q \in Proc : q # p => call'[q] = call[q]
  BY <1>1 DEF Claim, GoTo
<1>6. /\ call'[p].pc = "Claimed" /\ call'[p].effect = e
      /\ call'[p].grant = call[p].grant /\ call'[p].op = call[p].op
      /\ call'[p].pair = call[p].pair
  BY <1>1, <1>2, <1>5 DEF CallRecord
<1>7. UNCHANGED <<grants, performed, spentBy>>
  BY DEF Claim, ClaimEffect
<1>8. CallKnows(p)'
  BY <1>1, <1>2, <1>4, <1>6, <1>7 DEF CallKnows
<1>9. effects[e].phase = "Prepared" /\ effects[e].certainty = "None" /\ ~ performed[e]
  BY <1>1, <1>2 DEF CallKnows, JournalShape, EveryEffectIsAuthorised, EffectEntry
<1>10. EffectIsSound(e)'
  BY <1>4, <1>7, <1>9, ClaimantAssumption DEF EffectIsSound
<1> QED
  BY <1>2, <1>3, <1>4, <1>5, <1>6, <1>7, <1>8, <1>9, <1>10, OwnEffectStep

(* mark_dispatched, on the effect the call has consumed a budget for *)
LEMMA DispatchStep ==
  ASSUME BrokerInv, TypeOK', NEW p \in Proc, Dispatch(p)
  PROVE  BrokerInv'
<1>1. /\ CallKnows(p) /\ call[p].pc = "Consumed" /\ call[p] \in CallRecord
      /\ call \in [Proc -> CallRecord] /\ effects \in [EffectId -> EffectEntry]
      /\ JournalShape /\ EveryEffectIsAuthorised
  BY DEF Dispatch, BrokerInv, TypeOK, StoreTypeOK
<1>2. PICK e \in EffectId : call[p].effect = e
  BY <1>1 DEF CallKnows, CallRecord
<1>3. /\ effects'[e] = [effects[e] EXCEPT !.phase = "Dispatched"]
      /\ \A f \in EffectId : f # e => effects'[f] = effects[f]
  BY <1>1, <1>2 DEF Dispatch, MarkDispatched
<1>4. /\ effects'[e].phase = "Dispatched"
      /\ effects'[e].claimant = effects[e].claimant
      /\ effects'[e].op = effects[e].op /\ effects'[e].grant = effects[e].grant
      /\ effects'[e].pair = effects[e].pair
      /\ effects'[e].certainty = effects[e].certainty
  BY <1>1, <1>2, <1>3 DEF EffectEntry
<1>5. /\ call'[p] = [call[p] EXCEPT !.pc = "Dispatched"]
      /\ \A q \in Proc : q # p => call'[q] = call[q]
  BY <1>1 DEF Dispatch, GoTo
<1>6. /\ call'[p].pc = "Dispatched" /\ call'[p].effect = e
      /\ call'[p].grant = call[p].grant /\ call'[p].op = call[p].op
      /\ call'[p].pair = call[p].pair
  BY <1>1, <1>2, <1>5 DEF CallRecord
<1>7. UNCHANGED <<grants, performed, spentBy>>
  BY DEF Dispatch, MarkDispatched
<1>8. CallKnows(p)'
  BY <1>1, <1>2, <1>4, <1>6, <1>7 DEF CallKnows
<1>9. effects[e].phase = "Claimed" /\ effects[e].certainty = "None" /\ ~ performed[e]
        /\ effects[e].claimant # NoClaimant
  BY <1>1, <1>2 DEF CallKnows, JournalShape, EveryEffectIsAuthorised, EffectEntry
<1>10. EffectIsSound(e)'
  BY <1>4, <1>7, <1>9 DEF EffectIsSound
<1> QED
  BY <1>2, <1>3, <1>4, <1>5, <1>6, <1>7, <1>8, <1>9, <1>10, OwnEffectStep

(* The operation succeeds, or returns an error having happened or not *)
LEMMA PerformStep ==
  ASSUME BrokerInv, TypeOK', NEW p \in Proc, Perform(p) \/ PerformError(p)
  PROVE  BrokerInv'
<1>1. /\ CallKnows(p) /\ call[p].pc = "Dispatched" /\ call[p] \in CallRecord
      /\ call \in [Proc -> CallRecord] /\ performed \in [EffectId -> BOOLEAN]
      /\ JournalShape /\ BrokerInv
  BY DEF Perform, PerformError, BrokerInv, TypeOK, StoreTypeOK
<1>2. PICK e \in EffectId : call[p].effect = e
  BY <1>1 DEF CallKnows, CallRecord
<1>3. UNCHANGED <<grants, effects, spentBy>>
  BY DEF Perform, PerformError, storeVars
<1>4. \A f \in EffectId : f # e => performed'[f] = performed[f]
  BY <1>1, <1>2 DEF Perform, PerformError
<1>5. /\ effects[e].phase = "Dispatched" /\ effects[e].certainty = "None"
      /\ effects[e].claimant # NoClaimant /\ spentBy[call[p].grant] = e
  BY <1>1, <1>2 DEF CallKnows, JournalShape
<1>6. EffectIsSound(e)'
  BY <1>3, <1>5 DEF EffectIsSound
<1>7. CASE Perform(p)
  <2>1. /\ call'[p] = [call[p] EXCEPT !.pc = "Performed"]
        /\ \A q \in Proc : q # p => call'[q] = call[q]
        /\ performed'[e]
    BY <1>1, <1>2, <1>7 DEF Perform, GoTo
  <2>2. /\ call'[p].pc = "Performed" /\ call'[p].effect = e
        /\ call'[p].grant = call[p].grant /\ call'[p].op = call[p].op
        /\ call'[p].pair = call[p].pair
    BY <1>1, <1>2, <2>1 DEF CallRecord
  <2>3. CallKnows(p)'
    BY <1>1, <1>2, <1>3, <2>1, <2>2 DEF CallKnows
  <2> QED BY <1>2, <1>3, <1>4, <1>5, <1>6, <2>1, <2>2, <2>3, OwnEffectStep
<1>8. CASE PerformError(p) /\ GoTo(p, "Errored")
  <2>1. /\ call'[p] = [call[p] EXCEPT !.pc = "Errored"]
        /\ \A q \in Proc : q # p => call'[q] = call[q]
    BY <1>1, <1>8 DEF GoTo
  <2>2. /\ call'[p].pc = "Errored" /\ call'[p].effect = e
        /\ call'[p].grant = call[p].grant /\ call'[p].op = call[p].op
        /\ call'[p].pair = call[p].pair
    BY <1>1, <1>2, <2>1 DEF CallRecord
  <2>3. CallKnows(p)'
    BY <1>1, <1>2, <1>3, <2>1, <2>2 DEF CallKnows
  <2> QED BY <1>2, <1>3, <1>4, <1>5, <1>6, <2>1, <2>2, <2>3, OwnEffectStep
<1>9. CASE PerformError(p) /\ Finish(p, "Failed")
  <2>1. /\ call'[p] = [NoCall EXCEPT !.pc = "Failed"]
        /\ \A q \in Proc : q # p => call'[q] = call[q]
    BY <1>1, <1>9 DEF Finish
  <2>2. call'[p].pc = "Failed" /\ call'[p].effect = 0
    BY <2>1 DEF NoCall
  <2>3. CallKnows(p)'
    BY <2>2 DEF CallKnows
  <2> QED BY <1>2, <1>3, <1>4, <1>5, <1>6, <2>1, <2>2, <2>3, OwnEffectStep
<1> QED BY <1>7, <1>8, <1>9 DEF PerformError

(* settle_effect, after which no call works on the effect *)
LEMMA SettleStep ==
  ASSUME BrokerInv, TypeOK', NEW p \in Proc, SettleSuccess(p) \/ SettleError(p)
  PROVE  BrokerInv'
<1>1. /\ CallKnows(p) /\ call[p].pc \in {"Performed", "Errored"}
      /\ call[p] \in CallRecord
      /\ call \in [Proc -> CallRecord] /\ effects \in [EffectId -> EffectEntry]
      /\ JournalShape
  BY DEF SettleSuccess, SettleError, BrokerInv, TypeOK, StoreTypeOK
<1>2. PICK e \in EffectId : call[p].effect = e
  BY <1>1 DEF CallKnows, CallRecord
<1>2a. effects[e].claimant # NoClaimant /\ spentBy[call[p].grant] = e
  BY <1>1, <1>2 DEF CallKnows, JournalShape
<1>3. PICK res, cert : /\ SettleEffect(e, CLAIMANT, res, cert)
                       /\ \/ cert = "UnknownOrPartial"
                          \/ cert = "ConfirmedCommitted" /\ performed[e]
  BY <1>1, <1>2 DEF SettleSuccess, SettleError, CallKnows
<1>4. /\ effects'[e] = [effects[e] EXCEPT !.phase = "Settled", !.result = res,
                                           !.certainty = cert]
      /\ \A f \in EffectId : f # e => effects'[f] = effects[f]
  BY <1>1, <1>2, <1>3 DEF SettleEffect
<1>5. /\ effects'[e].phase = "Settled" /\ effects'[e].certainty = cert
      /\ effects'[e].claimant = effects[e].claimant
      /\ effects'[e].op = effects[e].op /\ effects'[e].grant = effects[e].grant
      /\ effects'[e].pair = effects[e].pair
  BY <1>1, <1>2, <1>4 DEF EffectEntry
<1>6. PICK pc \in {"Done", "Failed"} :
        call' = [call EXCEPT ![p] = [NoCall EXCEPT !.pc = pc]]
  BY DEF SettleSuccess, SettleError, Finish
<1>7. /\ call'[p].pc = pc /\ call'[p].effect = 0
      /\ \A q \in Proc : q # p => call'[q] = call[q]
  BY <1>1, <1>6 DEF NoCall
<1>8. UNCHANGED <<grants, performed, spentBy>>
  BY <1>3 DEF SettleSuccess, SettleError, SettleEffect
<1>9. CallKnows(p)'
  BY <1>7 DEF CallKnows
<1>10. EffectIsSound(e)'
  BY <1>2a, <1>3, <1>5, <1>8 DEF EffectIsSound
<1> QED
  BY <1>2, <1>2a, <1>4, <1>5, <1>7, <1>8, <1>9, <1>10, OwnEffectStep

(* An effect that some call works on is prepared and not settled *)
LEMMA OwnedEffect ==
  ASSUME BrokerInv, NEW q \in Proc, call[q].effect # 0
  PROVE  /\ call[q].effect \in EffectId
         /\ effects[call[q].effect].phase \in {"Prepared", "Claimed", "Dispatched"}
BY DEF BrokerInv, TypeOK, CallRecord, CallPc, CallKnows

(* prepare_effect, on an id no call and no grant has used *)
LEMMA PrepareStep ==
  ASSUME BrokerInv, TypeOK', NEW p \in Proc, Prepare(p)
  PROVE  BrokerInv'
<1> USE DEF BrokerInv
<1>1. /\ CallKnows(p) /\ call[p].pc = "Ensured" /\ call[p] \in CallRecord
      /\ call \in [Proc -> CallRecord] /\ effects \in [EffectId -> EffectEntry]
  BY DEF Prepare, TypeOK, StoreTypeOK
<1>2. PICK e \in EffectId :
        /\ PrepareEffect(e, call[p].op, call[p].pair, call[p].grant)
        /\ call' = [call EXCEPT ![p] = [@ EXCEPT !.pc = "Prepared", !.effect = e]]
  BY DEF Prepare
<1>3. ~ Used(e) /\ effects[e].phase = "None" /\ e # 0
  BY <1>2 DEF PrepareEffect, NextEffect, EffectId, Used
<1>4. /\ effects'[e] = [NoEffect EXCEPT !.phase = "Prepared", !.op = call[p].op,
                            !.grant = call[p].grant, !.pair = call[p].pair]
      /\ \A f \in EffectId : f # e => effects'[f] = effects[f]
  BY <1>1, <1>2 DEF PrepareEffect
<1>5. /\ effects'[e].phase = "Prepared" /\ effects'[e].claimant = NoClaimant
      /\ effects'[e].op = call[p].op /\ effects'[e].grant = call[p].grant
      /\ effects'[e].pair = call[p].pair /\ effects'[e].certainty = "None"
  BY <1>4 DEF NoEffect
<1>6. /\ call'[p].pc = "Prepared" /\ call'[p].effect = e
      /\ call'[p].grant = call[p].grant /\ call'[p].op = call[p].op
      /\ call'[p].pair = call[p].pair
      /\ \A q \in Proc : q # p => call'[q] = call[q]
  BY <1>1, <1>2 DEF CallRecord
<1>7. UNCHANGED <<grants, performed, spentBy>> /\ ~ performed[e]
  BY <1>2, <1>3 DEF Prepare, PrepareEffect, EveryEffectIsAuthorised
<1>8. \A q \in Proc : call[q].effect # e
  BY <1>3, OwnedEffect
<1>9. CallKnows(p)'
  BY <1>1, <1>3, <1>5, <1>6, <1>7 DEF CallKnows
<1>10. ASSUME NEW q \in Proc, q # p PROVE CallKnows(q)'
  <2>1. call'[q] = call[q] /\ CallKnows(q) /\ call[q].effect # e
    BY <1>6, <1>8, <1>10
  <2>2. call[q].effect # 0 => effects'[call[q].effect] = effects[call[q].effect]
    BY <1>4, <2>1, OwnedEffect
  <2>3. call[q].effect = 0 =>
          call[q].pc \in {"Idle", "Found", "Ensured", "Done", "Failed"}
    BY <2>1 DEF CallKnows
  <2> QED BY <1>7, <2>1, <2>2, <2>3 DEF CallKnows, Issued
<1>11. CallsDoNotShareEffects'
  <2>1. ASSUME NEW q \in Proc, q # p, call[q].effect # 0
        PROVE  call[q].effect # e /\ effects'[call[q].effect] = effects[call[q].effect]
    BY <2>1, <1>4, <1>8, OwnedEffect
  <2>2. \A q \in Proc : q # p => call'[q].effect = call[q].effect
    BY <1>6
  <2>3. \A q, r \in Proc : call'[q].effect # 0 /\ call'[r].effect = call'[q].effect
          => q = r
    BY <1>6, <1>8, <2>2 DEF CallsDoNotShareEffects
  <2>4. ASSUME NEW q \in Proc, call'[q].effect # 0
        PROVE  effects'[call'[q].effect].phase # "Settled"
    <3>1. CASE q = p
      BY <1>5, <1>6, <3>1
    <3>2. CASE q # p
      BY <2>1, <2>2, <2>4, <3>2 DEF CallsDoNotShareEffects
    <3> QED BY <3>1, <3>2
  <2> QED BY <2>3, <2>4 DEF CallsDoNotShareEffects
<1>12. JournalShape' /\ CertaintyIsTruthful'
  <2>1. ASSUME NEW f \in EffectId
        PROVE  /\ effects'[f].phase = "Settled" <=> effects'[f].certainty # "None"
               /\ effects'[f].phase \in {"None", "Prepared"}
                    <=> effects'[f].claimant = NoClaimant
    <3>1. CASE f = e
      BY <1>5, <3>1
    <3>2. CASE f # e
      BY <1>4, <3>2 DEF JournalShape
    <3> QED BY <3>1, <3>2
  <2>2. CertaintyIsTruthful'
    BY <1>4, <1>5, <1>7 DEF CertaintyIsTruthful
  <2> QED BY <2>1, <2>2 DEF JournalShape
<1>13. BudgetIsExact'
  BY <1>7 DEF BudgetIsExact, Issued
<1>14. EveryEffectIsAuthorised'
  BY <1>4, <1>7 DEF EveryEffectIsAuthorised
<1> QED BY <1>9, <1>10, <1>11, <1>12, <1>13, <1>14

(* reconcile_effect, on a settled effect, hence on that of no call *)
LEMMA ReconcileStep ==
  ASSUME BrokerInv, TypeOK', NEW e \in EffectId, NEW probe \in Probe,
         Reconcile(e, probe)
  PROVE  BrokerInv'
<1> USE DEF BrokerInv
<1>1. effects \in [EffectId -> EffectEntry] /\ effects[e].phase = "Settled"
        /\ effects[e].certainty = "UnknownOrPartial"
  BY DEF TypeOK, StoreTypeOK, Reconcile, ReconcileEffect
<1>2. /\ effects'[e] = [effects[e] EXCEPT !.certainty = ReconciledCertainty(probe)]
      /\ \A f \in EffectId : f # e => effects'[f] = effects[f]
  BY <1>1 DEF Reconcile, ReconcileEffect
<1>3. /\ effects'[e].phase = "Settled"
      /\ effects'[e].certainty = ReconciledCertainty(probe)
      /\ effects'[e].claimant = effects[e].claimant
      /\ effects'[e].op = effects[e].op /\ effects'[e].grant = effects[e].grant
      /\ effects'[e].pair = effects[e].pair
  BY <1>1, <1>2 DEF EffectEntry
<1>4. UNCHANGED <<grants, call, performed, spentBy>>
  BY DEF Reconcile, ReconcileEffect, brokerVars
<1>5. /\ ReconciledCertainty(probe) # "None"
      /\ ReconciledCertainty(probe) = "ConfirmedCommitted" => performed[e]
      /\ ReconciledCertainty(probe) = "ConfirmedNoEffect" => ~ performed[e]
  BY DEF ReconciledCertainty, Probe, Reconcile
<1>6. JournalShape' /\ CertaintyIsTruthful'
  <2>1. JournalShape /\ CertaintyIsTruthful
    OBVIOUS
  <2>2. effects[e].claimant # NoClaimant
    BY <1>1, <2>1 DEF JournalShape
  <2>3. ASSUME NEW f \in EffectId
        PROVE  /\ effects'[f].phase = "Settled" <=> effects'[f].certainty # "None"
               /\ effects'[f].phase \in {"None", "Prepared"}
                    <=> effects'[f].claimant = NoClaimant
    <3>1. CASE f = e
      BY <1>3, <1>5, <2>2, <3>1
    <3>2. CASE f # e
      <4>1. effects'[f] = effects[f]
        BY <1>2, <3>2
      <4> QED BY <2>1, <4>1 DEF JournalShape
    <3> QED BY <3>1, <3>2
  <2>4. ASSUME NEW f \in EffectId
        PROVE  /\ effects'[f].certainty = "ConfirmedCommitted" => performed[f]
               /\ effects'[f].certainty = "ConfirmedNoEffect" => ~ performed[f]
    <3>1. CASE f = e
      BY <1>3, <1>5, <3>1
    <3>2. CASE f # e
      <4>1. effects'[f] = effects[f]
        BY <1>2, <3>2
      <4> QED BY <2>1, <4>1 DEF CertaintyIsTruthful
    <3> QED BY <3>1, <3>2
  <2> QED BY <1>4, <2>3, <2>4 DEF JournalShape, CertaintyIsTruthful
<1>7. ASSUME NEW q \in Proc, call[q].effect # 0
      PROVE  effects'[call[q].effect] = effects[call[q].effect]
  BY <1>1, <1>2, <1>7, OwnedEffect
<1>8. ASSUME NEW q \in Proc PROVE CallKnows(q)'
  <2>1. call[q].effect = 0 =>
          call[q].pc \in {"Idle", "Found", "Ensured", "Done", "Failed"}
    BY DEF CallKnows
  <2> QED BY <1>4, <1>7, <2>1 DEF CallKnows, Issued
<1>9. CallsDoNotShareEffects'
  BY <1>4, <1>7 DEF CallsDoNotShareEffects
<1>10. BudgetIsExact'
  BY <1>4 DEF BudgetIsExact, Issued
<1>11. EveryEffectIsAuthorised'
  <2>1. ASSUME NEW f \in EffectId
        PROVE  /\ effects'[f].phase \in {"Dispatched", "Settled"}
                    <=> effects[f].phase \in {"Dispatched", "Settled"}
               /\ effects'[f].grant = effects[f].grant
               /\ effects'[f].op = effects[f].op
               /\ effects'[f].pair = effects[f].pair
    BY <1>1, <1>2, <1>3
  <2> QED BY <1>4, <2>1 DEF EveryEffectIsAuthorised
<1> QED BY <1>6, <1>8, <1>9, <1>10, <1>11

---------------------------------------------------------------------------
(* Every step keeps the type *)
LEMMA TypeStep == ASSUME BrokerInv, [Next]_vars PROVE TypeOK'
<1> USE DEF BrokerInv
<1>1. CASE UNCHANGED vars
  BY <1>1 DEF vars, storeVars, brokerVars, TypeOK, StoreTypeOK
<1>2. ASSUME NEW p \in Proc, NEW op \in Ops, NEW g \in GrantId, NEW s \in Scope,
             NEW pr \in frozen \cup {NoPair}, NEW now \in Time,
             NEW seen \in {grants[g], AsIssued(g)},
             CallBroker(p, op, g, seen, s, pr, now)
      PROVE  TypeOK'
  BY <1>2, CallBrokerStep
<1>3. ASSUME NEW p \in Proc, Handshake(p) \/ Return(p) \/ EndProcess(p) PROVE TypeOK'
  <2>1. CASE EnsureGrant(p)
    BY <2>1, EnsureGrantStep
  <2>2. CASE ConsumeDenied(p) \/ Fail(p)
    BY <2>2, FinishStep DEF ConsumeDenied, Fail, Finish
  <2>3. CASE Return(p) \/ EndProcess(p)
    <3>1. NoCall = [NoCall EXCEPT !.pc = "Idle"]
      BY DEF NoCall
    <3> QED BY <2>3, <3>1, FinishStep DEF Return, EndProcess
  <2>4. /\ call[p] \in CallRecord /\ CallKnows(p)
        /\ \A pc \in CallPc : GoTo(p, pc) => call' \in [Proc -> CallRecord]
        /\ \A pc \in CallPc : Finish(p, pc) => call' \in [Proc -> CallRecord]
    <3>1. call \in [Proc -> CallRecord]
      BY DEF TypeOK
    <3>2. \A pc \in CallPc : [call[p] EXCEPT !.pc = pc] \in CallRecord
                          /\ [NoCall EXCEPT !.pc = pc] \in CallRecord
      BY <3>1, NullRecords DEF CallRecord
    <3> QED BY <3>1, <3>2 DEF GoTo, Finish
  <2>5. CASE Prepare(p)
    <3>1. call[p].pc = "Ensured" /\ call[p].grant \in GrantId
            /\ call[p].op \in Capability /\ call[p].pair \in PairId \cup {NoPair}
      BY <2>4, <2>5 DEF Prepare, CallKnows, CallRecord
    <3>2. PICK e \in EffectId :
            /\ PrepareEffect(e, call[p].op, call[p].pair, call[p].grant)
            /\ call' = [call EXCEPT ![p] = [@ EXCEPT !.pc = "Prepared", !.effect = e]]
      BY <2>5 DEF Prepare
    <3>3. StoreTypeOK'
      BY <3>1, <3>2, PrepareType DEF TypeOK
    <3>4. [call[p] EXCEPT !.pc = "Prepared", !.effect = e] \in CallRecord
      BY <2>4 DEF CallRecord, CallPc
    <3>5. call' \in [Proc -> CallRecord]
      BY <3>2, <3>4 DEF TypeOK
    <3> QED BY <2>5, <3>3, <3>5 DEF Prepare, TypeOK
  <2>6. ASSUME call[p].effect # 0
        PROVE  /\ call[p].effect \in EffectId /\ call[p].grant \in GrantId
               /\ call[p].now \in Time
    BY <2>4, <2>6 DEF CallKnows, CallRecord
  <2>7. call[p].pc \notin {"Idle", "Found", "Ensured", "Done", "Failed"} =>
          call[p].effect # 0
    BY <2>4 DEF CallKnows
  <2>8. CASE Claim(p)
    <3>1. StoreTypeOK'
      BY <2>6, <2>7, <2>8, HandshakeType, ClaimantAssumption DEF Claim, TypeOK
    <3> QED BY <2>4, <2>8, <3>1 DEF Claim, TypeOK, CallPc
  <2>9. CASE Consume(p)
    <3>1. StoreTypeOK'
      BY <2>6, <2>7, <2>9, ConsumeType DEF Consume, TypeOK
    <3>2. spentBy' \in [GrantId -> EffectId \cup {0}]
      BY <2>6, <2>7, <2>9 DEF Consume, TypeOK
    <3> QED BY <2>4, <2>9, <3>1, <3>2 DEF Consume, TypeOK, CallPc
  <2>10. CASE Dispatch(p)
    <3>1. StoreTypeOK'
      BY <2>6, <2>7, <2>10, HandshakeType, ClaimantAssumption DEF Dispatch, TypeOK
    <3> QED BY <2>4, <2>10, <3>1 DEF Dispatch, TypeOK, CallPc
  <2>11. CASE Perform(p) \/ PerformError(p)
    <3>1. StoreTypeOK'
      BY <2>11 DEF Perform, PerformError, TypeOK, StoreTypeOK, storeVars
    <3>2. performed' \in [EffectId -> BOOLEAN]
      BY <2>11 DEF Perform, PerformError, TypeOK
    <3>3. call' \in [Proc -> CallRecord]
      BY <2>4, <2>11 DEF Perform, PerformError, CallPc
    <3> QED BY <2>11, <3>1, <3>2, <3>3 DEF Perform, PerformError, TypeOK
  <2>12. CASE SettleSuccess(p) \/ SettleError(p)
    <3>1. StoreTypeOK'
      BY <2>6, <2>7, <2>12, HandshakeType, ClaimantAssumption
         DEF SettleSuccess, SettleError, TypeOK, OperationResult, EffectCertainty
    <3> QED BY <2>4, <2>12, <3>1 DEF SettleSuccess, SettleError, TypeOK, CallPc
  <2> QED
    BY <1>3, <2>1, <2>2, <2>3, <2>5, <2>8, <2>9, <2>10, <2>11, <2>12
       DEF Handshake, BrokerInv
<1>4. ASSUME NEW now \in Time, OtherUseCase(Ops, now), UNCHANGED brokerVars
      PROVE  TypeOK'
  BY <1>4, OtherUseCaseType, BrokerAssumption DEF TypeOK, brokerVars
<1>5. ASSUME NEW e \in EffectId, NEW probe \in Probe, Reconcile(e, probe)
      PROVE  TypeOK'
  BY <1>5, HandshakeType DEF Reconcile, TypeOK, brokerVars
<1>6. CASE Tick
  BY <1>6, StoreAssumption DEF Tick, TypeOK, StoreTypeOK, storeVars, Time
<1> QED BY <1>1, <1>2, <1>3, <1>4, <1>5, <1>6 DEF Next

(* The initial states satisfy the inductive invariant *)
LEMMA InitInv == ASSUME Init PROVE BrokerInv
<1>1. TypeOK
  BY InitType
<1>2. /\ \A p \in Proc : call[p] = NoCall
      /\ \A e \in EffectId : effects[e] = NoEffect /\ performed[e] = FALSE
      /\ \A g \in GrantId : spentBy[g] = 0 /\ grants[g] = NoGrant
  BY DEF Init, StoreInit, BrokerInit
<1>3. JournalShape
  BY <1>2 DEF JournalShape, NoEffect
<1>4. (\A p \in Proc : CallKnows(p)) /\ CallsDoNotShareEffects
  BY <1>2 DEF CallKnows, CallsDoNotShareEffects, NoCall
<1>5. BudgetIsExact /\ EveryEffectIsAuthorised /\ CertaintyIsTruthful
  BY <1>2 DEF BudgetIsExact, EveryEffectIsAuthorised, CertaintyIsTruthful,
     NoEffect, NoGrant
<1> QED BY <1>1, <1>3, <1>4, <1>5 DEF BrokerInv

(* One step per action of Next *)
LEMMA InvStep == ASSUME BrokerInv, [Next]_vars PROVE BrokerInv'
<1>0. TypeOK'
  BY TypeStep
<1>1. CASE UNCHANGED vars
  BY <1>0, <1>1, FrameStep DEF vars, storeVars, brokerVars
<1>2. ASSUME NEW p \in Proc, NEW op \in Ops, NEW g \in GrantId, NEW s \in Scope,
             NEW pr \in frozen \cup {NoPair}, NEW now \in Time,
             NEW seen \in {grants[g], AsIssued(g)},
             CallBroker(p, op, g, seen, s, pr, now)
      PROVE  BrokerInv'
  BY <1>2, CallBrokerStep
<1>3. ASSUME NEW p \in Proc, Handshake(p) \/ Return(p) \/ EndProcess(p) PROVE BrokerInv'
  <2>1. CASE EnsureGrant(p)
    BY <2>1, EnsureGrantStep
  <2>2. CASE ConsumeDenied(p) \/ Fail(p)
    BY <2>2, FinishStep DEF ConsumeDenied, Fail, Finish
  <2>3. CASE Return(p) \/ EndProcess(p)
    <3>1. NoCall = [NoCall EXCEPT !.pc = "Idle"]
      BY DEF NoCall
    <3> QED BY <2>3, <3>1, FinishStep DEF Return, EndProcess
  <2>4. CASE Prepare(p)
    BY <1>0, <2>4, PrepareStep
  <2>5. CASE Claim(p)
    BY <1>0, <2>5, ClaimStep
  <2>6. CASE Consume(p)
    BY <1>0, <2>6, ConsumeStep
  <2>7. CASE Dispatch(p)
    BY <1>0, <2>7, DispatchStep
  <2>8. CASE Perform(p) \/ PerformError(p)
    BY <1>0, <2>8, PerformStep
  <2>9. CASE SettleSuccess(p) \/ SettleError(p)
    BY <1>0, <2>9, SettleStep
  <2> QED
    BY <1>3, <2>1, <2>2, <2>3, <2>4, <2>5, <2>6, <2>7, <2>8, <2>9 DEF Handshake
<1>4. ASSUME NEW now \in Time, OtherUseCase(Ops, now), UNCHANGED brokerVars
      PROVE  BrokerInv'
  <2>1. ASSUME NEW g \in GrantId, NEW cap \in Ops, NEW s \in Scope,
               NEW pr \in frozen \cup {NoPair}, IssueGrant(g, cap, s, pr, now)
        PROVE  BrokerInv'
    BY <1>0, <1>4, <2>1, IssueGrantStep, BrokerAssumption
  <2>2. ASSUME NEW g \in GrantId, RevokeGrant(g) PROVE BrokerInv'
    BY <1>0, <1>4, <2>2, RevokeStep
  <2>3. ASSUME NEW pr \in PairId, FreezePair(pr) \/ ApprovePair(pr) \/ CompleteRun(pr)
        PROVE  BrokerInv'
    BY <1>0, <1>4, <2>3, FrameStep
       DEF FreezePair, ApprovePair, CompleteRun, brokerVars
  <2>4. CASE CheckpointRun \/ ValidateRun \/ PauseRun \/ CancelRun
    BY <1>0, <1>4, <2>4, FrameStep
       DEF CheckpointRun, ValidateRun, PauseRun, CancelRun, brokerVars
  <2> QED BY <1>4, <2>1, <2>2, <2>3, <2>4 DEF OtherUseCase
<1>5. ASSUME NEW e \in EffectId, NEW probe \in Probe, Reconcile(e, probe)
      PROVE  BrokerInv'
  BY <1>0, <1>5, ReconcileStep
<1>6. CASE Tick
  BY <1>0, <1>6, FrameStep DEF Tick, storeVars
<1> QED BY <1>1, <1>2, <1>3, <1>4, <1>5, <1>6 DEF Next

---------------------------------------------------------------------------
(* The inductive invariant of the handshake holds for every number of      *)
(* processes, grants, effects and pairs and every clock.                   *)
THEOREM BrokerInvariant == Spec => []BrokerInv
<1>1. Init => BrokerInv
  BY InitInv
<1>2. BrokerInv /\ [Next]_vars => BrokerInv'
  BY InvStep
<1> QED BY <1>1, <1>2, PTL DEF Spec

(* operation_broker.rs: the durable record and the calls keep their types  *)
(* under any interleaving of handshakes and use cases.                     *)
THEOREM TypeCorrectness == Spec => []TypeOK
<1>1. BrokerInv => TypeOK
  BY DEF BrokerInv
<1> QED BY <1>1, BrokerInvariant, PTL

(* docs/architecture.md:239: every effect that happened had its dispatch   *)
(* durable and its grant's budget consumed for it, for any number of       *)
(* processes sharing grants.                                               *)
THEOREM Authorisation == Spec => []EveryEffectIsAuthorised
<1>1. BrokerInv => EveryEffectIsAuthorised
  BY DEF BrokerInv
<1> QED BY <1>1, BrokerInvariant, PTL

(* sqlite/runs.rs consume_dispatch_budget: one grant lets one effect       *)
(* through, since an effect that happened is the one its grant was spent   *)
(* for.                                                                    *)
THEOREM BudgetOfOne == Spec => []OneEffectPerGrant
<1>1. BrokerInv => OneEffectPerGrant
  BY DEF BrokerInv, EveryEffectIsAuthorised, OneEffectPerGrant
<1> QED BY <1>1, BrokerInvariant, PTL

(* run.rs EffectCertainty: a confirmed certainty is true of the world.     *)
THEOREM TruthfulJournal == Spec => []CertaintyIsTruthful
<1>1. BrokerInv => CertaintyIsTruthful
  BY DEF BrokerInv
<1> QED BY <1>1, BrokerInvariant, PTL

(* run.rs derive_lifecycle: an effect that happened with no recorded       *)
(* certainty shows as Blocked or Cancelled, because it is Dispatched.      *)
THEOREM SilenceIsVisible == Spec => []NoSilentEffect
<1>1. BrokerInv => NoSilentEffect
  <2> SUFFICES ASSUME BrokerInv, NEW e \in EffectId, performed[e],
                      effects[e].certainty = "None"
               PROVE  Derived \in {"Blocked", "Cancelled"}
    BY DEF NoSilentEffect
  <2>1. effects[e].phase = "Dispatched"
    BY DEF BrokerInv, EveryEffectIsAuthorised, JournalShape
  <2>2. e \in DOMAIN effects /\ InDoubt(effects[e])
    BY <2>1 DEF BrokerInv, TypeOK, StoreTypeOK, InDoubt
  <2> QED BY <2>2 DEF Derived, DeriveLifecycle
<1> QED BY <1>1, BrokerInvariant, PTL

(* operation_broker.rs CLAIMANT: no two calls work on one effect, though   *)
(* all of them claim under the same name.                                  *)
THEOREM ExclusiveEffects == Spec => []CallsDoNotShareEffects
<1>1. BrokerInv => CallsDoNotShareEffects
  BY DEF BrokerInv
<1> QED BY <1>1, BrokerInvariant, PTL

(* capability.rs revoke: no call gets through a grant whose revocation is  *)
(* durable, because consuming tests the current row.                       *)
THEOREM RevocationHolds == Spec => RevocationIsFinal
<1>1. ASSUME BrokerInv, [Next]_vars PROVE RevokedStays
  <2>0. grants \in [GrantId -> GrantRecord] /\ spentBy \in [GrantId -> EffectId \cup {0}]
    BY <1>1 DEF BrokerInv, TypeOK, StoreTypeOK
  <2>1. CASE UNCHANGED <<grants, spentBy>>
    BY <2>1 DEF RevokedStays
  <2>2. ASSUME NEW p \in Proc, Consume(p) PROVE RevokedStays
    <3>1. PICK h \in GrantId : call[p].grant = h
      BY <1>1, <2>2 DEF Consume, BrokerInv, CallKnows, TypeOK, CallRecord
    <3>2. ~ grants[h].revoked
      BY <2>2, <3>1 DEF Consume, ConsumeDispatchBudget, Consumable
    <3>3. \A g \in GrantId : g # h => grants'[g] = grants[g] /\ spentBy'[g] = spentBy[g]
      BY <2>0, <2>2, <3>1 DEF Consume, ConsumeDispatchBudget
    <3> QED BY <3>2, <3>3 DEF RevokedStays
  <2>3. ASSUME NEW h \in GrantId, RevokeGrant(h), UNCHANGED brokerVars PROVE RevokedStays
    <3>1. PICK stale : grants' = [grants EXCEPT ![h].revoked = TRUE, ![h].left = stale]
      BY <2>3 DEF RevokeGrant
    <3>2. grants'[h].revoked /\ \A g \in GrantId : g # h => grants'[g] = grants[g]
      BY <2>0, <3>1 DEF GrantRecord
    <3> QED BY <2>3, <3>2 DEF brokerVars, RevokedStays
  <2>4. ASSUME NEW h \in GrantId, NEW cap, NEW s, NEW pr, NEW now,
               IssueGrant(h, cap, s, pr, now), UNCHANGED brokerVars
        PROVE  RevokedStays
    <3>1. ~ Issued(h)
      BY <2>4 DEF IssueGrant, NextGrant, GrantId
    <3>2. ~ grants[h].revoked
      BY <1>1, <3>1 DEF BrokerInv, BudgetIsExact
    <3>3. \A g \in GrantId : g # h => grants'[g] = grants[g]
      BY <2>0, <2>4 DEF IssueGrant
    <3> QED BY <2>4, <3>2, <3>3 DEF brokerVars, RevokedStays
  <2>5. ASSUME NEW now \in Time, OtherUseCase(Ops, now), UNCHANGED brokerVars
        PROVE  RevokedStays
    BY <2>1, <2>3, <2>4, <2>5 DEF OtherUseCase, FreezePair, ApprovePair,
       CompleteRun, CheckpointRun, ValidateRun, PauseRun, CancelRun, brokerVars
  <2>6. ASSUME NEW p \in Proc, Handshake(p) \/ Return(p) \/ EndProcess(p) PROVE RevokedStays
    BY <2>1, <2>2, <2>6 DEF Handshake, Return, EndProcess, EnsureGrant, Prepare, PrepareEffect,
       Claim, ClaimEffect, ConsumeDenied, Dispatch, MarkDispatched, Perform,
       PerformError, SettleSuccess, SettleError, SettleEffect, Fail, storeVars
  <2>7. ASSUME NEW e \in EffectId, NEW probe \in Probe, Reconcile(e, probe) PROVE RevokedStays
    BY <2>1, <2>7 DEF Reconcile, ReconcileEffect, brokerVars
  <2>8. CASE (\E p, g, seen, op, s, pr, now : CallBroker(p, op, g, seen, s, pr, now))
             \/ Tick \/ UNCHANGED vars
    BY <2>1, <2>8 DEF CallBroker, Tick, vars, storeVars, brokerVars
  <2> QED BY <1>1, <2>5, <2>6, <2>7, <2>8 DEF Next
<1>2. BrokerInv /\ [Next]_vars => RevokedStays
  BY <1>1
<1> QED BY <1>2, BrokerInvariant, PTL DEF Spec, RevocationIsFinal

---------------------------------------------------------------------------
(* A call is for a frozen pair or for none *)
CallPairsAreFrozen == \A p \in Proc : call[p].pair \in frozen \cup {NoPair}

(* A step changes one call at most, and pairs stay frozen *)
LEMMA CallPairStep ==
  ASSUME BrokerInv, CallPairsAreFrozen, [Next]_vars
  PROVE  CallPairsAreFrozen'
<1>0. call \in [Proc -> CallRecord] /\ NoCall.pair = NoPair
  BY DEF BrokerInv, TypeOK, NoCall
<1>1. CASE UNCHANGED call /\ frozen \subseteq frozen'
  BY <1>1 DEF CallPairsAreFrozen
<1>2. ASSUME NEW p \in Proc, NEW c, call' = [call EXCEPT ![p] = c],
             UNCHANGED frozen, c.pair \in frozen \cup {NoPair}
      PROVE  CallPairsAreFrozen'
  BY <1>0, <1>2 DEF CallPairsAreFrozen
<1>3. ASSUME NEW p \in Proc, NEW c, call' = [call EXCEPT ![p] = c],
             UNCHANGED frozen, c.pair = call[p].pair
      PROVE  CallPairsAreFrozen'
  BY <1>2, <1>3 DEF CallPairsAreFrozen
<1>4. ASSUME NEW p \in Proc, NEW pc, GoTo(p, pc), UNCHANGED frozen
      PROVE  CallPairsAreFrozen'
  <2>1. call' = [call EXCEPT ![p] = [call[p] EXCEPT !.pc = pc]]
    BY <1>4 DEF GoTo
  <2>2. [call[p] EXCEPT !.pc = pc].pair = call[p].pair
    BY <1>0 DEF CallRecord
  <2> QED BY <1>3, <1>4, <2>1, <2>2
<1>5. ASSUME NEW p \in Proc, NEW pc, Finish(p, pc), UNCHANGED frozen
      PROVE  CallPairsAreFrozen'
  <2>1. [NoCall EXCEPT !.pc = pc].pair = NoPair
    BY DEF NoCall
  <2> QED BY <1>2, <1>5, <2>1 DEF Finish
<1>6. ASSUME NEW p \in Proc, Handshake(p) PROVE CallPairsAreFrozen'
  <2>1. UNCHANGED frozen
    BY <1>6 DEF Handshake, EnsureGrant, Prepare, PrepareEffect, Claim, ClaimEffect,
       Consume, ConsumeDispatchBudget, ConsumeDenied, Dispatch, MarkDispatched,
       Perform, PerformError, SettleSuccess, SettleError, SettleEffect, Fail, storeVars
  <2>2. CASE EnsureGrant(p)
    <3>1. [call[p] EXCEPT !.pc = "Ensured", !.seen = NoGrant].pair = call[p].pair
      BY <1>0 DEF CallRecord
    <3>2. CASE call' = [call EXCEPT ![p] = [@ EXCEPT !.pc = "Ensured", !.seen = NoGrant]]
      BY <1>3, <2>1, <3>1, <3>2
    <3>3. CASE Finish(p, "Failed")
      BY <1>5, <2>1, <3>3
    <3> QED BY <2>2, <3>2, <3>3 DEF EnsureGrant
  <2>3. CASE Prepare(p)
    <3>1. PICK e \in EffectId :
            call' = [call EXCEPT ![p] = [@ EXCEPT !.pc = "Prepared", !.effect = e]]
      BY <2>3 DEF Prepare
    <3>2. [call[p] EXCEPT !.pc = "Prepared", !.effect = e].pair = call[p].pair
      BY <1>0 DEF CallRecord
    <3> QED BY <1>3, <2>1, <3>1, <3>2
  <2>4. (\E pc : GoTo(p, pc) \/ Finish(p, pc)) \/ EnsureGrant(p) \/ Prepare(p)
    BY <1>6 DEF Handshake, Claim, Consume, ConsumeDenied, Dispatch, Perform,
       PerformError, SettleSuccess, SettleError, Fail
  <2> QED BY <1>4, <1>5, <2>1, <2>2, <2>3, <2>4
<1>7. ASSUME NEW p \in Proc, Return(p) \/ EndProcess(p) PROVE CallPairsAreFrozen'
  BY <1>0, <1>2, <1>7 DEF Return, EndProcess, storeVars
<1>8. ASSUME NEW p \in Proc, NEW op \in Ops, NEW g \in GrantId, NEW s \in Scope,
             NEW pr \in frozen \cup {NoPair}, NEW now \in Time, NEW seen,
             CallBroker(p, op, g, seen, s, pr, now)
      PROVE  CallPairsAreFrozen'
  <2> DEFINE c == [pc |-> "Found", op |-> op, grant |-> g, scope |-> s,
                   pair |-> pr, now |-> now, seen |-> seen, effect |-> 0]
  <2>1. call' = [call EXCEPT ![p] = c] /\ UNCHANGED frozen /\ c.pair = pr
    BY <1>8 DEF CallBroker, storeVars
  <2> HIDE DEF c
  <2> QED BY <1>2, <2>1
<1>9. ASSUME NEW now \in Time, OtherUseCase(Ops, now), UNCHANGED brokerVars
      PROVE  CallPairsAreFrozen'
  BY <1>1, <1>9 DEF OtherUseCase, FreezePair, ApprovePair, CompleteRun, IssueGrant,
     RevokeGrant, CheckpointRun, ValidateRun, PauseRun, CancelRun, brokerVars
<1>10. CASE UNCHANGED vars \/ Tick \/ \E e \in EffectId, probe \in Probe : Reconcile(e, probe)
  BY <1>1, <1>10 DEF vars, storeVars, Tick, Reconcile, ReconcileEffect, brokerVars
<1> QED BY <1>6, <1>7, <1>8, <1>9, <1>10 DEF Next

(* Every step of a handshake is one use case of the store or none *)
LEMMA BrokerStoreStep ==
  ASSUME BrokerInv, CallPairsAreFrozen, [Next]_vars
  PROVE  [StoreNext]_storeVars
<1>0. call \in [Proc -> CallRecord]
  BY DEF BrokerInv, TypeOK
<1>1. ASSUME NEW p \in Proc, Prepare(p) PROVE StoreNext
  <2>1. call[p].op \in Capability /\ call[p].grant \in GrantId
    BY <1>0, <1>1 DEF BrokerInv, CallKnows, Prepare, CallRecord
  <2>2. PICK e \in EffectId :
          PrepareEffect(e, call[p].op, call[p].pair, call[p].grant)
    BY <1>1 DEF Prepare
  <2> QED BY <2>1, <2>2 DEF StoreNext, CallPairsAreFrozen
<1>2. ASSUME NEW p \in Proc,
             Claim(p) \/ Consume(p) \/ Dispatch(p) \/ SettleSuccess(p) \/ SettleError(p)
      PROVE  StoreNext
  <2>1. /\ call[p].effect \in EffectId /\ call[p].grant \in GrantId
        /\ call[p].now \in Time
    BY <1>0, <1>2 DEF BrokerInv, CallKnows, CallRecord, Claim, Consume, Dispatch,
       SettleSuccess, SettleError
  <2>2. CASE Claim(p)
    BY <2>1, <2>2, ClaimantAssumption DEF Claim, StoreNext
  <2>3. CASE Consume(p)
    BY <2>1, <2>3 DEF Consume, StoreNext
  <2>4. CASE Dispatch(p)
    BY <2>1, <2>4, ClaimantAssumption DEF Dispatch, StoreNext
  <2>5. CASE SettleSuccess(p)
    BY <2>1, <2>5, ClaimantAssumption DEF SettleSuccess, StoreNext, OperationResult,
       EffectCertainty
  <2>6. CASE SettleError(p)
    BY <2>1, <2>6, ClaimantAssumption DEF SettleError, StoreNext, OperationResult,
       EffectCertainty
  <2> QED BY <1>2, <2>2, <2>3, <2>4, <2>5, <2>6
<1>3. ASSUME NEW now \in Time, OtherUseCase(Ops, now) PROVE StoreNext
  <2>1. OtherUseCase(Capability, now)
    BY <1>3, BrokerAssumption DEF OtherUseCase
  <2> QED BY <2>1 DEF StoreNext
<1>4. ASSUME NEW e \in EffectId, NEW probe \in Probe, Reconcile(e, probe)
      PROVE  StoreNext
  BY <1>4 DEF Reconcile, StoreNext
<1>5. ASSUME NEW p \in Proc, EnsureGrant(p) \/ ConsumeDenied(p) \/ Perform(p)
                                \/ PerformError(p) \/ Fail(p) \/ Return(p) \/ EndProcess(p)
      PROVE  UNCHANGED storeVars
  BY <1>5 DEF EnsureGrant, ConsumeDenied, Perform, PerformError, Fail, Return, EndProcess
<1>6. CASE UNCHANGED vars \/ Tick
             \/ \E p, g, seen, op, s, pr, now : CallBroker(p, op, g, seen, s, pr, now)
  BY <1>6 DEF vars, Tick, CallBroker
<1> QED BY <1>1, <1>2, <1>3, <1>4, <1>5, <1>6 DEF Next, Handshake

(* operation_broker.rs over run_use_cases.rs: what the handshakes of any   *)
(* number of processes do to the record is a behaviour of its use cases.   *)
THEOREM BrokerImplementsStore == Spec => StoreSpec
<1>1. Init => StoreInit /\ CallPairsAreFrozen
  BY DEF Init, BrokerInit, CallPairsAreFrozen, NoCall
<1>2. BrokerInv /\ CallPairsAreFrozen /\ [Next]_vars => CallPairsAreFrozen'
  BY CallPairStep
<1>3. BrokerInv /\ CallPairsAreFrozen /\ [Next]_vars => [StoreNext]_storeVars
  BY BrokerStoreStep
<1> QED BY <1>1, <1>2, <1>3, BrokerInvariant, PTL DEF Spec, StoreSpec

(* run.rs:907 derive_lifecycle: in every interleaving the fold says        *)
(* Blocked only while an effect is unknown.                                *)
THEOREM BlockedHasReason == Spec => []BlockedIsJustified
<1>1. StoreInv => BlockedIsJustified
  BY DEF StoreInv
<1> QED BY <1>1, BrokerImplementsStore, StoreInvariant, PTL

(* run.rs:2194-2254: no interleaving of handshakes moves an effect back.   *)
THEOREM JournalForward == Spec => JournalIsForwardOnly
BY BrokerImplementsStore, StoreJournalForward, PTL
=============================================================================
