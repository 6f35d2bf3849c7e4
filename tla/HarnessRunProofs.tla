--------------------------- MODULE HarnessRunProofs ---------------------------
(***************************************************************************)
(* The host's commands implement the broker's specification, and what they *)
(* do with it: replacements are of approved pairs, results are earned, and *)
(* pairs are frozen from what was disclosed, for any number of processes.  *)
(***************************************************************************)
EXTENDS HarnessRun, OperationBrokerProofs, DataLemmas

CmdPc ==
  {"None", "ReadGranted", "Reading", "Bound", "DiscloseGranted", "Disclosing",
   "Disclosed", "Approving", "Granting", "Granting2", "Started", "Leased",
   "Replacing", "Checked", "Rechecked", "Replaced", "Planned", "Checkpointed",
   "Inspecting", "Inspected", "Validated", "OwnerGone"}

CmdRecord ==
  [pc: CmdPc, now: Time, pair: PairId \cup {NoPair}, plan: PairId \cup {NoPair},
   graph: PairId \cup {NoPair}, grant: GrantId \cup {0}, content: Maybe,
   ident: 0 .. MaxIdent]

(* The types of what the host keeps and the proofs need *)
HostTypeOK ==
  /\ file \in [content: Maybe, ident: 0 .. MaxIdent]
  /\ pairs \in [PairId -> [pre: Maybe, ident: 0 .. MaxIdent, at: Time]]
  /\ cmd \in [Proc -> CmdRecord]

(* The steps of a command at which its pair is an approved one, at which   *)
(* its replacement is confirmed, and at which its inspection is            *)
Executing == {"Granting", "Granting2", "Started", "Leased", "Replacing", "Checked",
              "Rechecked", "Replaced", "Planned", "Checkpointed", "Inspecting",
              "Inspected", "Validated"}
AfterReplace == {"Replaced", "Planned", "Checkpointed", "Inspecting", "Inspected",
                 "Validated"}
AfterInspect == {"Inspected", "Validated"}

(* A disclosure of this content is confirmed *)
Disclosed(c) ==
  \E e \in EffectId : /\ effects[e].op = "ProviderDisclose"
                       /\ effects[e].certainty = "ConfirmedCommitted"
                       /\ grants[effects[e].grant].scope = c

(* The broker call of a process is under way *)
Active(p) == call[p].pc \notin {"Idle", "Done", "Failed"}

(* What a command knows at each of its steps of the record that other      *)
(* processes change meanwhile                                              *)
BootstrapKnows(p) ==
  LET c == cmd[p] k == call[p] IN
    /\ c.pc = "ReadGranted" => c.grant \in GrantId
    /\ c.pc = "Reading" /\ k.pc \in {"Performed", "Done"} => c.content \in Content
    /\ c.pc \in {"Bound", "DiscloseGranted", "Disclosing"} => c.content \in Content
    /\ c.pc = "DiscloseGranted" =>
         c.grant \in GrantId /\ Issued(c.grant) /\ grants[c.grant].scope = c.content
    /\ c.pc = "Disclosing" /\ Active(p) =>
         /\ k.op = "ProviderDisclose" /\ k.grant \in GrantId /\ Issued(k.grant)
         /\ grants[k.grant].scope = c.content
    /\ c.pc = "Disclosing" /\ k.pc = "Done" => Disclosed(c.content)
    /\ c.pc = "Disclosed" => Disclosed(c.content)

ExecuteKnows(p) ==
  LET c == cmd[p] k == call[p] IN
    /\ c.pc = "Approving" => c.pair \in frozen
    /\ c.pc \in Executing => c.pair \in approved
    /\ c.pc \in {"Replacing", "Checked", "Rechecked"} /\ Active(p) =>
         k.op = "CreateOrReplace" /\ k.pair = c.pair
    /\ c.pc = "Rechecked" /\ k.pc = "Done" => Confirmed("CreateOrReplace", c.pair)
    /\ c.pc \in AfterReplace => Confirmed("CreateOrReplace", c.pair)
    /\ c.pc = "Inspecting" /\ Active(p) =>
         k.op = "NativeInspection" /\ k.pair = c.pair
    /\ c.pc = "Inspecting" /\ k.pc = "Done" => Confirmed("NativeInspection", c.pair)
    /\ c.pc \in AfterInspect => Confirmed("NativeInspection", c.pair)

CmdKnows(p) ==
  /\ cmd[p].now <= clock
  /\ call[p].pc = "Idle" <=> cmd[p].pc \notin Waiting
  /\ BootstrapKnows(p)
  /\ ExecuteKnows(p)

(* A grant to replace is for an approved pair and its preimage *)
ReplaceGrantsAreBound ==
  \A g \in GrantId : grants[g].cap = "CreateOrReplace" =>
    /\ grants[g].pair \in approved
    /\ grants[g].scope = pairs[grants[g].pair].pre

(* The inductive invariant *)
HarnessInv ==
  /\ BrokerInv
  /\ StoreInv
  /\ CallPairsAreFrozen
  /\ HostTypeOK
  /\ \A k \in frozen : pairs[k].pre \in DOMAIN Review
  /\ FrozenWasDisclosed
  /\ ReplaceGrantsAreBound
  /\ \A p \in Proc : CmdKnows(p)
  /\ CompletionIsEarned

---------------------------------------------------------------------------
(* Both selections the host makes are of an existing record *)

(* latest_plan_graph finds a plan when there is one *)
LEMMA LatestIsFrozen ==
  ASSUME BrokerInv, HostTypeOK, frozen # {}
  PROVE  Latest \in frozen
<1>1. frozen \in SUBSET (0 .. MaxPairs) /\ MaxPairs \in Nat /\ MaxTime \in Nat
  BY StoreAssumption DEF BrokerInv, TypeOK, StoreTypeOK, PairId
<1>2. \A k \in frozen : pairs[k].at \in 0 .. MaxTime
  BY DEF BrokerInv, TypeOK, StoreTypeOK, HostTypeOK, Time
<1> DEFINE A == {pairs[k].at : k \in frozen}
<1>3. PICK a \in A : \A b \in A : b <= a
  <2>1. A \in SUBSET (0 .. MaxTime) /\ A # {}
    BY <1>2
  <2> HIDE DEF A
  <2> QED BY <1>1, <2>1, GreatestExists
<1> DEFINE T == {k \in frozen : pairs[k].at = a}
<1>4. PICK k \in T : \A j \in T : j <= k
  BY <1>1, <1>3, GreatestExists
<1>5. ASSUME NEW j \in frozen \ {k}
      PROVE  pairs[j].at < pairs[k].at \/ (pairs[j].at = pairs[k].at /\ j < k)
  <2>1. pairs[j].at <= pairs[k].at /\ (pairs[j].at = pairs[k].at => j <= k)
    BY <1>3, <1>4
  <2>2. pairs[j].at \in Nat /\ pairs[k].at \in Nat /\ j \in Nat /\ k \in Nat
    BY <1>1, <1>2, <1>4
  <2> QED BY <2>1, <2>2
<1>6. k \in frozen
  BY <1>4
<1> QED BY <1>5, <1>6 DEF Latest

(* find_grant finds a candidate when there is one *)
LEMMA FirstIsCandidate ==
  ASSUME BrokerInv, NEW cap, Candidates(cap) # {}
  PROVE  FirstGrant(cap) \in Candidates(cap)
<1> DEFINE C == Candidates(cap)
<1>1. C \in SUBSET Nat /\ C # {}
  BY DEF Candidates, GrantId
<1>2. \A g \in C : grants[g].issued \in Nat
  BY DEF Candidates, BrokerInv, TypeOK, StoreTypeOK, GrantRecord, Time
<1> HIDE DEF C
<1> DEFINE A == {grants[g].issued : g \in C}
<1>3. PICK a \in A : \A b \in A : a <= b
  <2>1. A \in SUBSET Nat /\ A # {}
    BY <1>1, <1>2
  <2> HIDE DEF A
  <2> QED BY <2>1, LeastExists
<1> DEFINE T == {g \in C : grants[g].issued = a}
<1>4. PICK g \in T : \A j \in T : g <= j
  <2>1. T \in SUBSET Nat /\ T # {}
    BY <1>1, <1>3
  <2> HIDE DEF T
  <2> QED BY <2>1, LeastExists
<1>5. ASSUME NEW j \in C \ {g}
      PROVE  grants[g].issued < grants[j].issued
               \/ (grants[g].issued = grants[j].issued /\ g < j)
  <2>1. grants[g].issued <= grants[j].issued
          /\ (grants[g].issued = grants[j].issued => g <= j)
    BY <1>3, <1>4
  <2>2. grants[j].issued \in Nat /\ grants[g].issued \in Nat /\ j \in Nat /\ g \in Nat
    BY <1>1, <1>2, <1>4
  <2> QED BY <2>1, <2>2
<1>6. g \in C
  BY <1>4
<1> QED BY <1>5, <1>6 DEF FirstGrant, C

---------------------------------------------------------------------------
(* Every step of the host is a step of the broker's specification *)

LEMMA HostOps == /\ Target \in Scope /\ Content \subseteq Scope
                 /\ DOMAIN Review \subseteq Scope
                 /\ {"LocalRead", "ProviderDisclose", "CreateOrReplace",
                     "NativeInspection"} \subseteq Ops
BY HarnessAssumption DEF Capability

(* The commands that issue a grant *)
LEMMA IssueIsBrokerStep ==
  ASSUME HarnessInv, NEW p \in Proc,
         BootstrapStart(p) \/ BootstrapGrantDisclose(p) \/ GrantReplace(p)
           \/ GrantInspect(p)
  PROVE  Next
<1>0. /\ cmd[p] \in CmdRecord /\ cmd[p].now \in Time /\ cmd[p].now <= clock
      /\ clock \in Time /\ clock <= clock /\ CmdKnows(p)
  BY DEF HarnessInv, HostTypeOK, CmdRecord, CmdKnows, BrokerInv, TypeOK, Time
<1>1. ASSUME NEW g \in GrantId, NEW cap \in Ops, NEW s \in Scope,
             NEW pr \in frozen \cup {NoPair}, NEW now \in Time, now <= clock,
             IssueGrant(g, cap, s, pr, now), UNCHANGED brokerVars
      PROVE  Next
  BY <1>1 DEF Next, OtherUseCase
<1>2. CASE BootstrapStart(p)
  BY <1>0, <1>1, <1>2, HostOps DEF BootstrapStart
<1>3. CASE BootstrapGrantDisclose(p)
  <2>1. cmd[p].content \in Scope
    BY <1>0, <1>3, HostOps DEF BootstrapGrantDisclose, CmdKnows, BootstrapKnows
  <2> QED BY <1>0, <1>1, <1>3, <2>1, HostOps DEF BootstrapGrantDisclose
<1>4. CASE GrantReplace(p)
  <2>1. cmd[p].pair \in frozen
    BY <1>0, <1>4 DEF GrantReplace, CmdKnows, ExecuteKnows, Executing, HarnessInv,
       BrokerInv, TypeOK, StoreTypeOK
  <2>2. pairs[cmd[p].pair].pre \in Scope
    BY <2>1, HostOps DEF HarnessInv
  <2> QED BY <1>0, <1>1, <1>4, <2>1, <2>2, HostOps DEF GrantReplace
<1>5. CASE GrantInspect(p)
  <2>1. cmd[p].pair \in frozen
    BY <1>0, <1>5 DEF GrantInspect, CmdKnows, ExecuteKnows, Executing, HarnessInv,
       BrokerInv, TypeOK, StoreTypeOK
  <2> QED BY <1>0, <1>1, <1>5, <2>1, HostOps DEF GrantInspect
<1> QED BY <1>2, <1>3, <1>4, <1>5

(* The commands that call the broker *)
LEMMA CallIsBrokerStep ==
  ASSUME HarnessInv, NEW p \in Proc,
         BootstrapRead(p) \/ BootstrapDisclose(p) \/ ExecuteReplace(p)
           \/ ExecuteInspect(p)
  PROVE  Next
<1>0. cmd[p] \in CmdRecord /\ cmd[p].now \in Time /\ CmdKnows(p) /\ BrokerInv
  BY DEF HarnessInv, HostTypeOK, CmdRecord
<1>1. ASSUME NEW op \in Ops, NEW g \in GrantId, NEW seen \in {grants[g], AsIssued(g)},
             NEW s \in Scope, NEW pr \in frozen \cup {NoPair}, NEW now \in Time,
             CallBroker(p, op, g, seen, s, pr, now)
      PROVE  Next
  BY <1>1 DEF Next
<1>2. CASE BootstrapRead(p)
  <2>1. cmd[p].grant \in GrantId
    BY <1>0, <1>2 DEF BootstrapRead, CmdKnows, BootstrapKnows
  <2> QED BY <1>0, <1>1, <1>2, <2>1, HostOps DEF BootstrapRead
<1>3. CASE BootstrapDisclose(p)
  <2>1. cmd[p].grant \in GrantId /\ cmd[p].content \in Scope
    BY <1>0, <1>3, HostOps DEF BootstrapDisclose, CmdKnows, BootstrapKnows
  <2> QED BY <1>0, <1>1, <1>3, <2>1, HostOps DEF BootstrapDisclose
<1>4. CASE ExecuteReplace(p)
  <2>1. cmd[p].pair \in frozen /\ cmd[p].grant \in GrantId
    BY <1>0, <1>4 DEF ExecuteReplace, CmdKnows, ExecuteKnows, Executing, CmdRecord,
       BrokerInv, TypeOK, StoreTypeOK
  <2>2. pairs[cmd[p].pair].pre \in Scope
    BY <2>1, HostOps DEF HarnessInv
  <2> QED BY <1>0, <1>1, <1>4, <2>1, <2>2, HostOps DEF ExecuteReplace
<1>5. CASE ExecuteInspect(p)
  <2>1. cmd[p].pair \in frozen
    BY <1>0, <1>5 DEF ExecuteInspect, CmdKnows, ExecuteKnows, Executing,
       BrokerInv, TypeOK, StoreTypeOK
  <2> DEFINE g == FirstGrant("NativeInspection")
  <2>2. g \in GrantId
    <3>1. Candidates("NativeInspection") # {}
      BY <1>5 DEF ExecuteInspect
    <3>2. g \in Candidates("NativeInspection")
      BY <1>0, <3>1, FirstIsCandidate
    <3> QED BY <3>2 DEF Candidates
  <2>3. CallBroker(p, "NativeInspection", g, grants[g], Target, cmd[p].pair, cmd[p].now)
    BY <1>5 DEF ExecuteInspect
  <2> HIDE DEF g
  <2> QED BY <1>0, <1>1, <2>1, <2>2, <2>3, HostOps
<1> QED BY <1>2, <1>3, <1>4, <1>5

(* The other commands that call one use case *)
LEMMA UseCaseIsBrokerStep ==
  ASSUME HarnessInv, NEW p \in Proc,
         BootstrapFreeze(p) \/ ApproveCommit(p) \/ ExecuteCheckpoint(p)
           \/ ExecuteValidate(p) \/ ExecuteComplete(p) \/ UserCommand(p)
  PROVE  Next
<1>0. clock \in Time /\ clock <= clock /\ frozen \subseteq PairId
  BY DEF HarnessInv, BrokerInv, TypeOK, StoreTypeOK, Time
<1>1. \/ \E k \in PairId : FreezePair(k) \/ ApprovePair(k) \/ CompleteRun(k)
      \/ CheckpointRun \/ ValidateRun \/ PauseRun \/ CancelRun
      \/ \E g \in GrantId : RevokeGrant(g)
  BY <1>0 DEF BootstrapFreeze, ApproveCommit, ExecuteCheckpoint, ExecuteValidate,
     ExecuteComplete, UserCommand, ApprovePair, CompleteRun
<1>2. UNCHANGED brokerVars
  BY DEF BootstrapFreeze, ApproveCommit, ExecuteCheckpoint, ExecuteValidate,
     ExecuteComplete, UserCommand
<1>3. OtherUseCase(Ops, clock)
  BY <1>1 DEF OtherUseCase
<1> QED BY <1>0, <1>2, <1>3 DEF Next

(* The steps of a command in a broker call, and the end of the process *)
LEMMA HandshakeIsBrokerStep ==
  ASSUME NEW p \in Proc,
         BrokerStep(p) \/ Operate(p) \/ MoveTarget(p) \/ SettleOk(p) \/ AfterCall(p)
           \/ OperateError(p) \/ ReplaceError(p) \/ CallFails(p) \/ Crash(p)
  PROVE  [Next]_vars
<1>1. Handshake(p) \/ Return(p) \/ EndProcess(p) \/ UNCHANGED vars
  BY DEF BrokerStep, Operate, MoveTarget, SettleOk, AfterCall, OperateError,
     ReplaceError, CallFails, Crash, Handshake
<1> QED BY <1>1 DEF Next

LEMMA HostIsBrokerStep ==
  ASSUME HarnessInv, [HarnessNext]_harnessVars
  PROVE  [Next]_vars
<1>1. ASSUME NEW p \in Proc, Command(p) PROVE [Next]_vars
  BY <1>1, IssueIsBrokerStep, CallIsBrokerStep, UseCaseIsBrokerStep,
     HandshakeIsBrokerStep
     DEF Command, Rebind, ApproveStart, GrantsStart, ExecuteStart, ExecuteLease,
         ExecuteReadGraph, CheckTarget, RecheckTarget, TakeoverCommit
<1>2. ASSUME NEW p \in Proc, Fault(p) PROVE [Next]_vars
  BY <1>2, HandshakeIsBrokerStep DEF Fault, CommandFails
<1>3. CASE Environment
  BY <1>3, UseCaseIsBrokerStep DEF Environment, TakeoverProbe, EditTarget, ClockTick, Next
<1> QED BY <1>1, <1>2, <1>3 DEF HarnessNext, harnessVars

---------------------------------------------------------------------------
(* What no step takes back *)

(* An issued grant keeps its capability, its scope and its pair; a         *)
(* confirmed effect keeps everything; pairs and approvals only accumulate. *)
RecordKept ==
  /\ frozen \subseteq frozen' /\ approved \subseteq approved'
  /\ \A g \in GrantId : Issued(g) => /\ grants'[g].cap = grants[g].cap
                                      /\ grants'[g].scope = grants[g].scope
                                      /\ grants'[g].pair = grants[g].pair
  /\ \A e \in EffectId : effects[e].certainty = "ConfirmedCommitted" =>
       effects'[e] = effects[e]

LEMMA StoreKeeps ==
  ASSUME StoreInv, [StoreNext]_storeVars
  PROVE  RecordKept
<1>0. grants \in [GrantId -> GrantRecord] /\ JournalMoves /\ JournalShape
  BY StoreStep DEF StoreInv, StoreTypeOK
<1>1. frozen \subseteq frozen' /\ approved \subseteq approved'
  BY DEF StoreNext, OtherUseCase, FreezePair, ApprovePair, CompleteRun, IssueGrant,
     RevokeGrant, CheckpointRun, ValidateRun, PauseRun, CancelRun, ReconcileEffect,
     PrepareEffect, ClaimEffect, ConsumeDispatchBudget, MarkDispatched, SettleEffect,
     storeVars
<1>2. ASSUME NEW e \in EffectId, effects[e].certainty = "ConfirmedCommitted"
      PROVE  effects'[e] = effects[e]
  BY <1>0, <1>2 DEF JournalMoves, EffectStep, JournalShape
<1> DEFINE Kept(g) == Issued(g) => /\ grants'[g].cap = grants[g].cap
                                   /\ grants'[g].scope = grants[g].scope
                                   /\ grants'[g].pair = grants[g].pair
<1>3. ASSUME grants' = grants PROVE \A g \in GrantId : Kept(g)
  BY <1>3
<1>4. ASSUME NEW h \in GrantId, NEW cap, NEW s, NEW pr, NEW now,
             IssueGrant(h, cap, s, pr, now)
      PROVE  \A g \in GrantId : Kept(g)
  <2>1. ~ Issued(h) /\ \A g \in GrantId : g # h => grants'[g] = grants[g]
    BY <1>0, <1>4 DEF IssueGrant, NextGrant, GrantId
  <2> QED BY <2>1
<1>5. ASSUME NEW h \in GrantId, RevokeGrant(h) PROVE \A g \in GrantId : Kept(g)
  <2>1. PICK stale : grants' = [grants EXCEPT ![h].revoked = TRUE, ![h].left = stale]
    BY <1>5 DEF RevokeGrant
  <2> QED BY <1>0, <2>1 DEF GrantRecord
<1>6. ASSUME NEW h \in GrantId, NEW now, ConsumeDispatchBudget(h, now)
      PROVE  \A g \in GrantId : Kept(g)
  <2>1. grants' = [grants EXCEPT ![h].left = @ - 1]
    BY <1>6 DEF ConsumeDispatchBudget
  <2> QED BY <1>0, <2>1 DEF GrantRecord
<1>7. \/ grants' = grants
      \/ \E h \in GrantId : RevokeGrant(h)
      \/ \E h \in GrantId, now \in Time : ConsumeDispatchBudget(h, now)
      \/ \E now \in Time, h \in GrantId, cap \in Capability, s \in Scope,
            pr \in frozen \cup {NoPair} : IssueGrant(h, cap, s, pr, now)
  BY DEF StoreNext, OtherUseCase, FreezePair, ApprovePair, CompleteRun,
     CheckpointRun, ValidateRun, PauseRun, CancelRun, ReconcileEffect,
     PrepareEffect, ClaimEffect, MarkDispatched, SettleEffect, storeVars
<1>8. \A g \in GrantId : Kept(g)
  BY <1>3, <1>4, <1>5, <1>6, <1>7
<1> QED BY <1>1, <1>2, <1>8 DEF RecordKept

(* The grant of a confirmed effect is an issued one *)
LEMMA ConfirmedGrant ==
  ASSUME BrokerInv, NEW e \in EffectId, effects[e].certainty = "ConfirmedCommitted",
         effects[e].op # "None"
  PROVE  effects[e].grant \in GrantId /\ Issued(effects[e].grant)
BY DEF BrokerInv, CertaintyIsTruthful, EveryEffectIsAuthorised, Issued

(* What a step of the host keeps *)
HostKept ==
  /\ RecordKept
  /\ clock <= clock'
  /\ \A k \in frozen : pairs'[k] = pairs[k]

LEMMA BrokerKeeps ==
  ASSUME HarnessInv, [Next]_vars
  PROVE  /\ RecordKept /\ clock <= clock' /\ clock' \in Time
         /\ BrokerInv' /\ StoreInv' /\ CallPairsAreFrozen'
<1>1. BrokerInv' /\ CallPairsAreFrozen' /\ [StoreNext]_storeVars
  BY InvStep, CallPairStep, BrokerStoreStep DEF HarnessInv
<1>2. StoreInv' /\ RecordKept
  BY <1>1, StoreStep, StoreKeeps DEF HarnessInv
<1>3. clock' = clock \/ clock' = clock + 1
  BY DEF Next, vars, brokerVars, Handshake, Return, EndProcess, EnsureGrant, Prepare,
     Claim, Consume, ConsumeDenied, Dispatch, Perform, PerformError, SettleSuccess,
     SettleError, Fail, Tick, CallBroker, Reconcile
<1>4. clock \in Nat /\ clock' \in Time
  BY <1>1 DEF HarnessInv, BrokerInv, TypeOK, Time
<1> QED BY <1>1, <1>2, <1>3, <1>4

(* A process that does not step keeps what its command knows *)
LEMMA OthersKnow ==
  ASSUME HarnessInv, HostKept, clock' \in Time, NEW q \in Proc,
         cmd'[q] = cmd[q], call'[q] = call[q]
  PROVE  CmdKnows(q)'
<1>0. /\ CmdKnows(q) /\ cmd[q] \in CmdRecord /\ clock \in Nat /\ clock' \in Nat
      /\ cmd[q].now \in Nat
  BY DEF HarnessInv, HostTypeOK, CmdRecord, BrokerInv, TypeOK, Time
<1>1. cmd'[q].now <= clock' /\ (call'[q].pc = "Idle" <=> cmd'[q].pc \notin Waiting)
  BY <1>0 DEF CmdKnows, HostKept
<1>2. BootstrapKnows(q)'
  <2>1. \A g \in GrantId : Issued(g) => Issued(g)' /\ grants'[g].scope = grants[g].scope
    BY DEF HostKept, RecordKept, Issued
  <2>2. Disclosed(cmd[q].content) => Disclosed(cmd[q].content)'
    <3> SUFFICES ASSUME NEW e \in EffectId, effects[e].op = "ProviderDisclose",
                        effects[e].certainty = "ConfirmedCommitted",
                        grants[effects[e].grant].scope = cmd[q].content
                 PROVE  Disclosed(cmd[q].content)'
      BY DEF Disclosed
    <3>1. effects[e].grant \in GrantId /\ Issued(effects[e].grant)
      BY ConfirmedGrant DEF HarnessInv
    <3>2. effects'[e] = effects[e]
      BY DEF HostKept, RecordKept
    <3> QED BY <2>1, <3>1, <3>2 DEF Disclosed
  <2> QED BY <1>0, <2>1, <2>2 DEF CmdKnows, BootstrapKnows, Active
<1>3. ExecuteKnows(q)'
  <2>1. \A op : Confirmed(op, cmd[q].pair) => Confirmed(op, cmd[q].pair)'
    BY DEF HostKept, RecordKept, Confirmed
  <2> QED BY <1>0, <2>1 DEF CmdKnows, ExecuteKnows, Active, HostKept, RecordKept
<1> QED BY <1>1, <1>2, <1>3 DEF CmdKnows

(* What the invariant says of the record and the pairs *)
Bound ==
  /\ \A k \in frozen : pairs[k].pre \in DOMAIN Review
  /\ FrozenWasDisclosed
  /\ ReplaceGrantsAreBound

(* A step that freezes no pair and issues no grant to replace *)
LEMMA BoundStays ==
  ASSUME HarnessInv, HostKept, frozen' = frozen,
         \A g \in GrantId : Issued(g) \/ grants'[g].cap # "CreateOrReplace"
  PROVE  Bound'
<1>1. \A k \in frozen' : pairs'[k].pre \in DOMAIN Review
  BY DEF HarnessInv, HostKept
<1>2. FrozenWasDisclosed'
  <2> SUFFICES ASSUME NEW k \in frozen
               PROVE  \E e \in EffectId :
                        /\ effects'[e].op = "ProviderDisclose"
                        /\ effects'[e].certainty = "ConfirmedCommitted"
                        /\ grants'[effects'[e].grant].scope = pairs'[k].pre
    BY DEF FrozenWasDisclosed
  <2>1. PICK e \in EffectId : /\ effects[e].op = "ProviderDisclose"
                              /\ effects[e].certainty = "ConfirmedCommitted"
                              /\ grants[effects[e].grant].scope = pairs[k].pre
    BY DEF HarnessInv, FrozenWasDisclosed
  <2>2. effects[e].grant \in GrantId /\ Issued(effects[e].grant)
    BY <2>1, ConfirmedGrant DEF HarnessInv
  <2> QED BY <2>1, <2>2 DEF HostKept, RecordKept
<1>3. ReplaceGrantsAreBound'
  <2> SUFFICES ASSUME NEW g \in GrantId, grants'[g].cap = "CreateOrReplace"
               PROVE  /\ grants'[g].pair \in approved'
                      /\ grants'[g].scope = pairs'[grants'[g].pair].pre
    BY DEF ReplaceGrantsAreBound
  <2>1. /\ grants[g].cap = "CreateOrReplace" /\ grants'[g].pair = grants[g].pair
        /\ grants'[g].scope = grants[g].scope
    BY DEF HostKept, RecordKept
  <2>2. grants[g].pair \in approved /\ grants[g].scope = pairs[grants[g].pair].pre
    BY <2>1 DEF HarnessInv, ReplaceGrantsAreBound
  <2>3. grants[g].pair \in frozen /\ approved \subseteq approved'
    BY <2>2 DEF HarnessInv, BrokerInv, TypeOK, StoreTypeOK, HostKept, RecordKept
  <2> QED BY <2>1, <2>2, <2>3 DEF HostKept
<1> QED BY <1>1, <1>2, <1>3 DEF Bound

(* A step that records no final result *)
LEMMA EarnedStays ==
  ASSUME HarnessInv, HostKept, result' = result
  PROVE  CompletionIsEarned'
<1>1. \A op, k : Confirmed(op, k) => Confirmed(op, k)'
  BY DEF HostKept, RecordKept, Confirmed
<1> QED BY <1>1 DEF HarnessInv, CompletionIsEarned, HostKept, RecordKept

(* What is left to show of a step of one process *)
LEMMA HostStep ==
  ASSUME HarnessInv, [Next]_vars, HostTypeOK', Bound', CompletionIsEarned',
         \A k \in frozen : pairs'[k] = pairs[k],
         NEW p \in Proc, CmdKnows(p)',
         \A q \in Proc : q # p => cmd'[q] = cmd[q] /\ call'[q] = call[q]
  PROVE  HarnessInv'
<1>1. HostKept /\ clock' \in Time /\ BrokerInv' /\ StoreInv' /\ CallPairsAreFrozen'
  BY BrokerKeeps DEF HostKept
<1>2. \A q \in Proc : CmdKnows(q)'
  BY <1>1, OthersKnow
<1> QED BY <1>1, <1>2 DEF HarnessInv, Bound

(* A step that freezes no pair, issues no grant to replace and records no  *)
(* result                                                                  *)
LEMMA QuietHostStep ==
  ASSUME HarnessInv, [Next]_vars, HostTypeOK', pairs' = pairs,
         frozen' = frozen, result' = result,
         \A g \in GrantId : Issued(g) \/ grants'[g].cap # "CreateOrReplace",
         NEW p \in Proc, CmdKnows(p)',
         \A q \in Proc : q # p => cmd'[q] = cmd[q] /\ call'[q] = call[q]
  PROVE  HarnessInv'
<1>1. HostKept
  BY BrokerKeeps DEF HostKept
<1> QED BY <1>1, BoundStays, EarnedStays, HostStep

(* A command that has ended knows nothing *)
LEMMA EndedKnows ==
  ASSUME NEW p \in Proc, cmd'[p] = NoCmd, call'[p].pc = "Idle", clock' \in Time
  PROVE  CmdKnows(p)'
<1>1. cmd'[p].pc = "None" /\ cmd'[p].now = 0 /\ 0 <= clock'
  BY DEF NoCmd, Time
<1>2. "None" \notin Waiting \cup Executing \cup AfterReplace \cup AfterInspect
  BY DEF Waiting, Executing, AfterReplace, AfterInspect
<1> QED BY <1>1, <1>2 DEF CmdKnows, BootstrapKnows, ExecuteKnows

LEMMA NoCmdType == NoCmd \in CmdRecord
<1>1. 0 \in Time /\ 0 \in 0 .. MaxIdent
  BY StoreAssumption, HarnessAssumption DEF Time
<1> QED BY <1>1 DEF NoCmd, CmdRecord, CmdPc, Maybe

(* A command moves on and the target, the pairs and the others stay *)
LEMMA CmdType ==
  ASSUME HostTypeOK, UNCHANGED <<file, pairs>>, NEW p \in Proc, NEW c \in CmdRecord,
         SetCmd(p, c)
  PROVE  HostTypeOK' /\ cmd'[p] = c /\ \A q \in Proc : q # p => cmd'[q] = cmd[q]
BY DEF HostTypeOK, SetCmd

---------------------------------------------------------------------------
(* One step per action of the host.  First the steps that only move a      *)
(* command on.                                                             *)
LEMMA LocalStep ==
  ASSUME HarnessInv, UNCHANGED vars, UNCHANGED <<file, pairs>>, NEW p \in Proc,
         NEW c \in CmdRecord, SetCmd(p, c), CmdKnows(p)'
  PROVE  HarnessInv'
<1>1. /\ HostTypeOK' /\ pairs' = pairs
      /\ \A q \in Proc : q # p => cmd'[q] = cmd[q]
  BY CmdType DEF HarnessInv
<1>2. /\ [Next]_vars /\ frozen' = frozen /\ result' = result /\ grants' = grants
      /\ call' = call
  BY DEF vars, storeVars, brokerVars
<1>3. \A g \in GrantId : Issued(g) \/ grants'[g].cap # "CreateOrReplace"
  BY <1>2 DEF Issued
<1> QED BY <1>1, <1>2, <1>3, QuietHostStep

(* approve_harness_pair and issue_harness_execution_grants read the latest *)
(* pair                                                                    *)
LEMMA ReadPairStep ==
  ASSUME HarnessInv, NEW p \in Proc, ApproveStart(p) \/ GrantsStart(p)
  PROVE  HarnessInv'
<1>0. /\ cmd[p].pc = "None" /\ frozen # {} /\ UNCHANGED vars
      /\ UNCHANGED <<file, pairs>> /\ HostTypeOK /\ clock \in Time
  BY DEF ApproveStart, GrantsStart, Steady, HarnessInv, BrokerInv, TypeOK
<1>1. Latest \in frozen /\ frozen \subseteq PairId
  BY <1>0, LatestIsFrozen DEF HarnessInv, BrokerInv, TypeOK, StoreTypeOK
<1>2. call[p].pc = "Idle"
  BY <1>0 DEF HarnessInv, CmdKnows, Waiting
<1>3. UNCHANGED <<call, frozen, approved, clock>> /\ clock \in Nat
  BY <1>0 DEF vars, storeVars, brokerVars, Time
<1>4. CASE ApproveStart(p)
  <2> DEFINE c == [NoCmd EXCEPT !.pc = "Approving", !.pair = Latest]
  <2>1. c \in CmdRecord
    BY <1>1, NoCmdType DEF CmdRecord, CmdPc
  <2>2. SetCmd(p, c) /\ c.pc = "Approving" /\ c.pair = Latest /\ c.now = 0
    BY <1>4 DEF ApproveStart, NoCmd
  <2> HIDE DEF c
  <2>3. cmd'[p] = c
    BY <1>0, <2>1, <2>2, CmdType
  <2>4. CmdKnows(p)'
    BY <1>1, <1>2, <1>3, <2>2, <2>3 DEF CmdKnows, BootstrapKnows, ExecuteKnows, Waiting,
       Executing, AfterReplace, AfterInspect
  <2> QED BY <1>0, <2>1, <2>2, <2>4, LocalStep
<1>5. CASE GrantsStart(p)
  <2> DEFINE c == [NoCmd EXCEPT !.pc = "Granting", !.pair = Latest, !.now = clock]
  <2>1. c \in CmdRecord
    BY <1>0, <1>1, NoCmdType DEF CmdRecord, CmdPc
  <2>2. SetCmd(p, c) /\ c.pc = "Granting" /\ c.pair = Latest /\ c.now = clock
    BY <1>5 DEF GrantsStart, NoCmd
  <2> HIDE DEF c
  <2>3. cmd'[p] = c /\ Latest \in approved
    BY <1>0, <1>5, <2>1, <2>2, CmdType DEF GrantsStart, IsApproved
  <2>4. CmdKnows(p)'
    BY <1>1, <1>2, <1>3, <2>2, <2>3 DEF CmdKnows, BootstrapKnows, ExecuteKnows, Waiting,
       Executing, AfterReplace, AfterInspect
  <2> QED BY <1>0, <2>1, <2>2, <2>4, LocalStep
<1> QED BY <1>4, <1>5

(* execute_harness_run reads the latest pair and a grant *)
LEMMA ExecuteStartStep ==
  ASSUME HarnessInv, NEW p \in Proc, ExecuteStart(p)
  PROVE  HarnessInv'
<1>0. /\ cmd[p].pc = "None" /\ frozen # {} /\ UNCHANGED vars
      /\ UNCHANGED <<file, pairs>> /\ HostTypeOK /\ clock \in Time /\ BrokerInv
  BY DEF ExecuteStart, Steady, HarnessInv, BrokerInv, TypeOK
<1>1. Latest \in approved /\ approved \subseteq PairId
  BY <1>0, LatestIsFrozen
     DEF ExecuteStart, IsApproved, HarnessInv, BrokerInv, TypeOK, StoreTypeOK
<1>2. call[p].pc = "Idle"
  BY <1>0 DEF HarnessInv, CmdKnows, Waiting
<1>3. UNCHANGED <<call, frozen, approved, clock>> /\ clock \in Nat
  BY <1>0 DEF vars, storeVars, brokerVars, Time
<1> DEFINE g == IF Candidates("CreateOrReplace") = {} THEN 0
                ELSE FirstGrant("CreateOrReplace")
           c == [NoCmd EXCEPT !.pc = "Started", !.pair = Latest, !.grant = g]
<1>4. g \in GrantId \cup {0}
  <2>1. \A h \in Candidates("CreateOrReplace") : h \in GrantId
    BY DEF Candidates
  <2> QED BY <1>0, <2>1, FirstIsCandidate
<1>5. SetCmd(p, c)
  BY DEF ExecuteStart
<1> HIDE DEF g
<1>6. c \in CmdRecord /\ c.pc = "Started" /\ c.pair = Latest /\ c.now = 0
  BY <1>1, <1>4, NoCmdType DEF CmdRecord, CmdPc, NoCmd
<1> HIDE DEF c
<1>7. cmd'[p] = c
  BY <1>0, <1>5, <1>6, CmdType
<1>8. CmdKnows(p)'
  BY <1>1, <1>2, <1>3, <1>6, <1>7 DEF CmdKnows, BootstrapKnows, ExecuteKnows, Waiting,
     Executing, AfterReplace, AfterInspect
<1> QED BY <1>0, <1>5, <1>6, <1>8, LocalStep

(* The steps of an execution that leave the record alone *)
LEMMA ExecuteLocalStep ==
  ASSUME HarnessInv, NEW p \in Proc,
         ExecuteLease(p) \/ ExecuteReadGraph(p) \/ CheckTarget(p) \/ RecheckTarget(p)
  PROVE  HarnessInv'
<1>0. /\ UNCHANGED vars /\ UNCHANGED <<file, pairs>> /\ HostTypeOK /\ BrokerInv
      /\ clock \in Time /\ cmd[p] \in CmdRecord /\ CmdKnows(p)
  BY DEF ExecuteLease, ExecuteReadGraph, CheckTarget, RecheckTarget, Steady,
     HarnessInv, HostTypeOK, BrokerInv, TypeOK
<1>1. /\ UNCHANGED <<call, frozen, approved, clock, effects>>
      /\ clock \in Nat
  BY <1>0 DEF vars, storeVars, brokerVars, Time
<1>2. CASE ExecuteLease(p)
  <2> DEFINE c == [cmd[p] EXCEPT !.pc = "Leased", !.now = clock]
  <2>1. /\ SetCmd(p, c) /\ c \in CmdRecord /\ c.pc = "Leased" /\ c.now = clock
        /\ c.pair = cmd[p].pair
    BY <1>0, <1>2 DEF ExecuteLease, CmdRecord, CmdPc
  <2> HIDE DEF c
  <2>2. cmd'[p] = c /\ cmd[p].pc = "Started"
    BY <1>0, <1>2, <2>1, CmdType DEF ExecuteLease
  <2>3. CmdKnows(p)'
    BY <1>0, <1>1, <2>1, <2>2 DEF CmdKnows, BootstrapKnows, ExecuteKnows, Waiting,
       Executing, AfterReplace, AfterInspect
  <2> QED BY <1>0, <2>1, <2>3, LocalStep
<1>3. CASE ExecuteReadGraph(p)
  <2> DEFINE c == [cmd[p] EXCEPT !.pc = "Planned", !.graph = Latest]
  <2>0. cmd[p].pc = "Replaced" /\ cmd[p].pair \in frozen
    BY <1>0, <1>3 DEF ExecuteReadGraph, CmdKnows, ExecuteKnows, Executing,
       BrokerInv, TypeOK, StoreTypeOK
  <2>1. Latest \in PairId
    BY <1>0, <2>0, LatestIsFrozen DEF BrokerInv, TypeOK, StoreTypeOK
  <2>2. /\ SetCmd(p, c) /\ c \in CmdRecord /\ c.pc = "Planned" /\ c.now = cmd[p].now
        /\ c.pair = cmd[p].pair
    BY <1>0, <1>3, <2>1 DEF ExecuteReadGraph, CmdRecord, CmdPc
  <2> HIDE DEF c
  <2>3. cmd'[p] = c
    BY <1>0, <2>2, CmdType
  <2>4. CmdKnows(p)'
    BY <1>0, <1>1, <2>0, <2>2, <2>3 DEF CmdKnows, BootstrapKnows, ExecuteKnows, Waiting,
       Executing, AfterReplace, AfterInspect, Confirmed
  <2> QED BY <1>0, <2>2, <2>4, LocalStep
<1>4. ASSUME NEW pc \in {"Checked", "Rechecked"}, call[p].pc = "Dispatched",
             cmd[p].pc \in {"Replacing", "Checked"}, SetCmd(p, [cmd[p] EXCEPT !.pc = pc])
      PROVE  HarnessInv'
  <2> DEFINE c == [cmd[p] EXCEPT !.pc = pc]
  <2>1. /\ SetCmd(p, c) /\ c \in CmdRecord /\ c.pc = pc /\ c.now = cmd[p].now
        /\ c.pair = cmd[p].pair
    BY <1>0, <1>4 DEF CmdRecord, CmdPc
  <2> HIDE DEF c
  <2>2. cmd'[p] = c
    BY <1>0, <2>1, CmdType
  <2>3. CmdKnows(p)'
    BY <1>0, <1>1, <1>4, <2>1, <2>2 DEF CmdKnows, BootstrapKnows, ExecuteKnows, Waiting,
       Executing, AfterReplace, AfterInspect, Active
  <2> QED BY <1>0, <2>1, <2>3, LocalStep
<1>5. CASE CheckTarget(p) \/ RecheckTarget(p)
  BY <1>4, <1>5 DEF CheckTarget, RecheckTarget
<1> QED BY <1>2, <1>3, <1>5

(* A lease is probed, taken over, or a command ends outside the broker *)
LEMMA OutsideStep ==
  ASSUME HarnessInv, NEW p \in Proc,
         TakeoverProbe(p) \/ TakeoverCommit(p) \/ CommandFails(p)
  PROVE  HarnessInv'
<1>0. /\ UNCHANGED vars /\ UNCHANGED <<file, pairs>> /\ HostTypeOK /\ clock \in Time
      /\ CmdKnows(p) /\ cmd[p].pc \notin Waiting
  BY DEF TakeoverProbe, TakeoverCommit, CommandFails, Steady, HarnessInv, BrokerInv,
     TypeOK, Waiting
<1>1. UNCHANGED <<call, clock>> /\ clock \in Nat /\ call[p].pc = "Idle"
  BY <1>0 DEF vars, brokerVars, Time, CmdKnows
<1>2. CASE SetCmd(p, NoCmd)
  <2>1. cmd'[p] = NoCmd
    BY <1>0, <1>2, NoCmdType, CmdType
  <2>2. CmdKnows(p)'
    BY <1>0, <1>1, <2>1, EndedKnows
  <2> QED BY <1>0, <1>2, <2>2, NoCmdType, LocalStep
<1>3. CASE TakeoverProbe(p)
  <2> DEFINE c == [NoCmd EXCEPT !.pc = "OwnerGone", !.now = clock]
  <2>1. SetCmd(p, c) /\ c \in CmdRecord /\ c.pc = "OwnerGone" /\ c.now = clock
    BY <1>0, <1>3, NoCmdType DEF TakeoverProbe, CmdRecord, CmdPc, NoCmd
  <2> HIDE DEF c
  <2>2. cmd'[p] = c
    BY <1>0, <2>1, CmdType
  <2>3. CmdKnows(p)'
    BY <1>1, <2>1, <2>2 DEF CmdKnows, BootstrapKnows, ExecuteKnows, Waiting,
       Executing, AfterReplace, AfterInspect
  <2> QED BY <1>0, <2>1, <2>3, LocalStep
<1> QED BY <1>2, <1>3 DEF TakeoverCommit, CommandFails, EndCmd

(* A step of nobody's command and nobody's call *)
LEMMA NobodyStep ==
  ASSUME HarnessInv, [Next]_vars, HostTypeOK', UNCHANGED <<pairs, frozen, result>>,
         \A g \in GrantId : Issued(g) \/ grants'[g].cap # "CreateOrReplace",
         UNCHANGED <<cmd, call>>
  PROVE  HarnessInv'
<1>1. HostKept /\ clock' \in Time /\ BrokerInv' /\ StoreInv' /\ CallPairsAreFrozen'
  BY BrokerKeeps DEF HostKept
<1>2. \A q \in Proc : CmdKnows(q)'
  BY <1>1, OthersKnow
<1>3. Bound' /\ CompletionIsEarned'
  BY <1>1, BoundStays, EarnedStays
<1> QED BY <1>1, <1>2, <1>3 DEF HarnessInv, Bound

(* The user, the clock, a root that is bound again, and no step at all *)
LEMMA AmbientStep ==
  ASSUME HarnessInv,
         \/ \E p \in Proc : Rebind(p) \/ UserCommand(p)
         \/ EditTarget \/ ClockTick \/ UNCHANGED harnessVars
  PROVE  HarnessInv'
<1>0. HostTypeOK /\ grants \in [GrantId -> GrantRecord]
  BY DEF HarnessInv, BrokerInv, TypeOK, StoreTypeOK
<1>1. [Next]_vars
  BY UseCaseIsBrokerStep DEF Rebind, EditTarget, ClockTick, harnessVars, Next
<1>2. UNCHANGED <<pairs, frozen, result, cmd, call>>
  BY DEF Rebind, UserCommand, EditTarget, ClockTick, harnessVars, hostVars, vars,
     storeVars, brokerVars, PauseRun, CancelRun, RevokeGrant, Tick
<1>3. file' \in [content: Maybe, ident: 0 .. MaxIdent]
  <2>1. CASE EditTarget
    <3>1. file \in [content: Maybe, ident: 0 .. MaxIdent] /\ MaxIdent \in Nat
      BY <1>0, HarnessAssumption DEF HostTypeOK
    <3> QED BY <2>1, <3>1 DEF EditTarget, Maybe
  <2>2. CASE UNCHANGED file
    BY <1>0, <2>2 DEF HostTypeOK
  <2> QED BY <2>1, <2>2 DEF Rebind, UserCommand, ClockTick, harnessVars, hostVars
<1>4. HostTypeOK'
  BY <1>0, <1>2, <1>3 DEF HostTypeOK
<1>5. \A g \in GrantId : Issued(g) \/ grants'[g].cap # "CreateOrReplace"
  <2>1. CASE \E h \in GrantId : RevokeGrant(h)
    <3>1. PICK h \in GrantId : RevokeGrant(h)
      BY <2>1
    <3>2. PICK stale : grants' = [grants EXCEPT ![h].revoked = TRUE, ![h].left = stale]
      BY <3>1 DEF RevokeGrant
    <3> QED BY <1>0, <3>2 DEF GrantRecord, Issued
  <2>2. CASE grants' = grants
    BY <2>2 DEF Issued
  <2> QED BY <2>1, <2>2 DEF Rebind, UserCommand, EditTarget, ClockTick, harnessVars, vars,
       storeVars, PauseRun, CancelRun, Tick
<1> QED BY <1>1, <1>2, <1>4, <1>5, NobodyStep

(* What issuing a grant leaves *)
LEMMA IssueLeaves ==
  ASSUME HarnessInv, NEW g \in GrantId, NEW cap, NEW s, NEW pr, NEW now,
         IssueGrant(g, cap, s, pr, now), UNCHANGED brokerVars
  PROVE  /\ grants'[g].cap = cap /\ grants'[g].scope = s /\ grants'[g].pair = pr
         /\ \A h \in GrantId : h # g => grants'[h] = grants[h]
         /\ UNCHANGED <<frozen, approved, effects, result, call, clock>>
BY DEF HarnessInv, BrokerInv, TypeOK, StoreTypeOK, IssueGrant, brokerVars

(* The grants of the bootstrap and of the inspection *)
LEMMA IssueStep ==
  ASSUME HarnessInv, NEW p \in Proc,
         BootstrapStart(p) \/ BootstrapGrantDisclose(p) \/ GrantInspect(p)
  PROVE  HarnessInv'
<1>0. /\ [Next]_vars /\ HostTypeOK /\ UNCHANGED <<file, pairs>> /\ UNCHANGED brokerVars
      /\ CmdKnows(p) /\ cmd[p] \in CmdRecord /\ clock \in Time /\ clock \in Nat
      /\ cmd[p].now \in Time /\ cmd[p].now <= clock /\ call[p].pc = "Idle"
  <2>1. Next
    BY IssueIsBrokerStep
  <2>2. /\ UNCHANGED <<file, pairs>> /\ UNCHANGED brokerVars
        /\ cmd[p].pc \in {"None", "Bound", "Granting2"}
    BY DEF BootstrapStart, BootstrapGrantDisclose, GrantInspect, Steady
  <2>3. /\ HostTypeOK /\ CmdKnows(p) /\ cmd[p] \in CmdRecord /\ clock \in Time
        /\ cmd[p].now \in Time
    BY DEF HarnessInv, HostTypeOK, BrokerInv, TypeOK, CmdRecord
  <2>4. cmd[p].now <= clock /\ call[p].pc = "Idle" /\ clock \in Nat
    BY <2>2, <2>3 DEF CmdKnows, Waiting, Time
  <2> QED BY <2>1, <2>2, <2>3, <2>4
<1>1. ASSUME NEW g \in GrantId, NEW cap, cap \notin {"None", "CreateOrReplace"},
             NEW s, NEW pr, NEW now, IssueGrant(g, cap, s, pr, now),
             NEW c \in CmdRecord, SetCmd(p, c), c.now <= clock,
             \/ c = NoCmd
             \/ c.pc = "ReadGranted" /\ c.grant = g
             \/ c.pc = "DiscloseGranted" /\ c.grant = g /\ c.content = s
                  /\ c.content \in Content
      PROVE  HarnessInv'
  <2>1. /\ HostTypeOK' /\ cmd'[p] = c
        /\ \A q \in Proc : q # p => cmd'[q] = cmd[q]
    BY <1>0, <1>1, CmdType
  <2>2. /\ grants'[g].cap = cap /\ grants'[g].scope = s
        /\ \A h \in GrantId : h # g => grants'[h] = grants[h]
        /\ UNCHANGED <<frozen, result, call, clock>>
    BY <1>0, <1>1, IssueLeaves
  <2>3. \A h \in GrantId : Issued(h) \/ grants'[h].cap # "CreateOrReplace"
    BY <1>1, <2>2 DEF Issued
  <2>4. Issued(g)'
    BY <1>1, <2>2 DEF Issued
  <2>5. CmdKnows(p)'
    <3>1. CASE c = NoCmd
      BY <1>0, <2>1, <2>2, <3>1, EndedKnows
    <3>2. CASE c.pc = "ReadGranted" /\ c.grant = g
      BY <1>0, <1>1, <2>1, <2>2, <3>2 DEF CmdKnows, BootstrapKnows, ExecuteKnows, Waiting,
         Executing, AfterReplace, AfterInspect
    <3>3. CASE c.pc = "DiscloseGranted" /\ c.grant = g /\ c.content = s
                 /\ c.content \in Content
      BY <1>0, <1>1, <2>1, <2>2, <2>4, <3>3 DEF CmdKnows, BootstrapKnows, ExecuteKnows,
         Waiting, Executing, AfterReplace, AfterInspect
    <3> QED BY <1>1, <3>1, <3>2, <3>3
  <2> QED BY <1>0, <2>1, <2>2, <2>3, <2>5, QuietHostStep
<1>2. CASE BootstrapStart(p)
  <2>1. PICK g \in GrantId :
          /\ IssueGrant(g, "LocalRead", Target, NoPair, clock)
          /\ SetCmd(p, [NoCmd EXCEPT !.pc = "ReadGranted", !.now = clock, !.grant = g])
    BY <1>2 DEF BootstrapStart
  <2> DEFINE c == [NoCmd EXCEPT !.pc = "ReadGranted", !.now = clock, !.grant = g]
             cap == "LocalRead"
  <2>2. c \in CmdRecord /\ c.pc = "ReadGranted" /\ c.grant = g /\ c.now <= clock
    <3>1. c \in CmdRecord
      BY <1>0, NoCmdType DEF CmdRecord, CmdPc
    <3>2. c.pc = "ReadGranted" /\ c.grant = g /\ c.now = clock
      BY DEF NoCmd
    <3> HIDE DEF c
    <3> QED BY <1>0, <3>1, <3>2
  <2>3. /\ SetCmd(p, c) /\ IssueGrant(g, cap, Target, NoPair, clock)
        /\ cap \notin {"None", "CreateOrReplace"}
    BY <2>1
  <2> HIDE DEF c, cap
  <2> QED BY <1>1, <2>2, <2>3
<1>3. CASE BootstrapGrantDisclose(p)
  <2>1. PICK g \in GrantId :
          /\ IssueGrant(g, "ProviderDisclose", cmd[p].content, NoPair, cmd[p].now)
          /\ SetCmd(p, [cmd[p] EXCEPT !.pc = "DiscloseGranted", !.grant = g])
    BY <1>3 DEF BootstrapGrantDisclose
  <2> DEFINE c == [cmd[p] EXCEPT !.pc = "DiscloseGranted", !.grant = g]
             cap == "ProviderDisclose"
  <2>2. /\ c \in CmdRecord /\ c.pc = "DiscloseGranted" /\ c.grant = g
        /\ c.now <= clock /\ c.content = cmd[p].content
    BY <1>0 DEF CmdRecord, CmdPc
  <2>3. /\ SetCmd(p, c) /\ IssueGrant(g, cap, cmd[p].content, NoPair, cmd[p].now)
        /\ cap \notin {"None", "CreateOrReplace"}
    BY <2>1
  <2>4. cmd[p].content \in Content
    BY <1>0, <1>3 DEF BootstrapGrantDisclose, CmdKnows, BootstrapKnows
  <2> HIDE DEF c, cap
  <2> QED BY <1>1, <2>2, <2>3, <2>4
<1>4. CASE GrantInspect(p)
  <2> DEFINE cap == "NativeInspection"
  <2>1. PICK g \in GrantId : IssueGrant(g, cap, Target, cmd[p].pair, cmd[p].now)
    BY <1>4 DEF GrantInspect
  <2>2. cap \notin {"None", "CreateOrReplace"}
    OBVIOUS
  <2>3. SetCmd(p, NoCmd) /\ NoCmd.now <= clock
    BY <1>0, <1>4 DEF GrantInspect, EndCmd, NoCmd
  <2> HIDE DEF cap
  <2> QED BY <1>1, <2>1, <2>2, <2>3, NoCmdType
<1> QED BY <1>2, <1>3, <1>4

(* The grant to replace is for the approved pair of the command *)
LEMMA GrantReplaceStep ==
  ASSUME HarnessInv, NEW p \in Proc, GrantReplace(p)
  PROVE  HarnessInv'
<1> DEFINE pr == cmd[p].pair
           pre == pairs[pr].pre
           cap == "CreateOrReplace"
           c == [cmd[p] EXCEPT !.pc = "Granting2"]
<1>0. /\ Next /\ HostTypeOK /\ UNCHANGED <<file, pairs>> /\ UNCHANGED brokerVars
      /\ cmd[p].pc = "Granting" /\ CmdKnows(p) /\ cmd[p] \in CmdRecord
  BY IssueIsBrokerStep DEF GrantReplace, Steady, HarnessInv, HostTypeOK
<1>1. pr \in approved /\ pr \in frozen /\ call[p].pc = "Idle"
  BY <1>0 DEF CmdKnows, ExecuteKnows, Executing, Waiting, HarnessInv, BrokerInv, TypeOK,
     StoreTypeOK
<1>2. /\ c \in CmdRecord /\ c.pc = "Granting2" /\ c.pair = pr /\ c.now = cmd[p].now
      /\ SetCmd(p, c)
  BY <1>0 DEF CmdRecord, CmdPc, GrantReplace
<1>3. PICK g \in GrantId : IssueGrant(g, cap, pre, pr, cmd[p].now)
  BY DEF GrantReplace
<1> HIDE DEF c, cap
<1>4. /\ HostTypeOK' /\ cmd'[p] = c /\ \A q \in Proc : q # p => cmd'[q] = cmd[q]
  BY <1>0, <1>2, CmdType
<1>5. /\ grants'[g].cap = cap /\ grants'[g].scope = pre /\ grants'[g].pair = pr
      /\ \A h \in GrantId : h # g => grants'[h] = grants[h]
      /\ UNCHANGED <<frozen, approved, effects, result, call, clock>>
  <2> HIDE DEF pre, pr
  <2> QED BY <1>0, <1>3, IssueLeaves
<1>6. HostKept
  BY <1>0, BrokerKeeps DEF HostKept
<1>7. CmdKnows(p)'
  BY <1>0, <1>1, <1>2, <1>4, <1>5 DEF CmdKnows, BootstrapKnows, ExecuteKnows, Waiting,
     Executing, AfterReplace, AfterInspect
<1>8. Bound'
  <2>1. (\A k \in frozen' : pairs'[k].pre \in DOMAIN Review)
    BY <1>0, <1>5 DEF HarnessInv
  <2>2. FrozenWasDisclosed'
    <3> SUFFICES ASSUME NEW k \in frozen
                 PROVE  \E e \in EffectId :
                          /\ effects'[e].op = "ProviderDisclose"
                          /\ effects'[e].certainty = "ConfirmedCommitted"
                          /\ grants'[effects'[e].grant].scope = pairs'[k].pre
      BY <1>5 DEF FrozenWasDisclosed
    <3>1. PICK e \in EffectId : /\ effects[e].op = "ProviderDisclose"
                                /\ effects[e].certainty = "ConfirmedCommitted"
                                /\ grants[effects[e].grant].scope = pairs[k].pre
      BY DEF HarnessInv, FrozenWasDisclosed
    <3>2. effects[e].grant \in GrantId /\ Issued(effects[e].grant)
      BY <3>1, ConfirmedGrant DEF HarnessInv
    <3> QED BY <1>6, <3>1, <3>2 DEF HostKept, RecordKept
  <2>3. ReplaceGrantsAreBound'
    BY <1>0, <1>1, <1>5 DEF HarnessInv, ReplaceGrantsAreBound
  <2> QED BY <2>1, <2>2, <2>3 DEF Bound
<1>9. CompletionIsEarned'
  BY <1>5, <1>6, EarnedStays
<1> QED BY <1>0, <1>4, <1>5, <1>7, <1>8, <1>9, HostStep

(* bootstrap_harness_plan freezes a new pair from what it disclosed *)
LEMMA FreezeStep ==
  ASSUME HarnessInv, NEW p \in Proc, BootstrapFreeze(p)
  PROVE  HarnessInv'
<1> DEFINE pre == cmd[p].content
<1>0. /\ Next /\ HostTypeOK /\ UNCHANGED <<file, clock, call>> /\ SetCmd(p, NoCmd)
      /\ cmd[p].pc = "Disclosed" /\ CmdKnows(p) /\ cmd[p] \in CmdRecord
      /\ clock \in Time
  BY UseCaseIsBrokerStep DEF BootstrapFreeze, HarnessInv, HostTypeOK, EndCmd,
     brokerVars, BrokerInv, TypeOK
<1>1. PICK n \in PairId :
        /\ FreezePair(n)
        /\ pairs' = [pairs EXCEPT ![n] =
                       [pre |-> pre, ident |-> cmd[p].ident, at |-> cmd[p].now]]
  BY DEF BootstrapFreeze
<1>2. /\ n \notin frozen /\ frozen' = frozen \cup {n}
      /\ UNCHANGED <<approved, grants, effects, result>>
  BY <1>1 DEF FreezePair, NextPair, PairId
<1>3. pre \in DOMAIN Review /\ Disclosed(pre) /\ call[p].pc = "Idle"
  BY <1>0, HarnessAssumption DEF BootstrapFreeze, ProposalAccepted, CmdKnows,
     BootstrapKnows, Waiting
<1>4. [pre |-> pre, ident |-> cmd[p].ident, at |-> cmd[p].now]
        \in [pre: Maybe, ident: 0 .. MaxIdent, at: Time]
  BY <1>0 DEF CmdRecord
<1>5. /\ pairs' \in [PairId -> [pre: Maybe, ident: 0 .. MaxIdent, at: Time]]
      /\ pairs'[n].pre = pre /\ \A k \in PairId : k # n => pairs'[k] = pairs[k]
  BY <1>0, <1>1, <1>4 DEF HostTypeOK
<1>6. /\ HostTypeOK' /\ cmd'[p] = NoCmd /\ \A q \in Proc : q # p => cmd'[q] = cmd[q]
  BY <1>0, <1>5, NoCmdType DEF HostTypeOK, SetCmd
<1>7. CmdKnows(p)'
  BY <1>0, <1>3, <1>6, EndedKnows
<1>8. frozen \subseteq PairId /\ \A k \in frozen : pairs'[k] = pairs[k]
  BY <1>2, <1>5 DEF HarnessInv, BrokerInv, TypeOK, StoreTypeOK
<1>9. Bound'
  <2>1. \A k \in frozen' : pairs'[k].pre \in DOMAIN Review
    BY <1>2, <1>3, <1>5, <1>8 DEF HarnessInv
  <2>2. FrozenWasDisclosed'
    BY <1>2, <1>3, <1>5, <1>8 DEF HarnessInv, FrozenWasDisclosed, Disclosed
  <2>3. ReplaceGrantsAreBound'
    BY <1>2, <1>8 DEF HarnessInv, ReplaceGrantsAreBound, BrokerInv, TypeOK, StoreTypeOK
  <2> QED BY <2>1, <2>2, <2>3 DEF Bound
<1>10. CompletionIsEarned'
  BY <1>2 DEF HarnessInv, CompletionIsEarned, Confirmed
<1> QED BY <1>0, <1>6, <1>7, <1>8, <1>9, <1>10, HostStep

(* The use cases of a command that issue nothing and freeze nothing *)
LEMMA UseCaseStep ==
  ASSUME HarnessInv, NEW p \in Proc,
         ApproveCommit(p) \/ ExecuteCheckpoint(p) \/ ExecuteValidate(p)
           \/ ExecuteComplete(p)
  PROVE  HarnessInv'
<1>0. /\ Next /\ UNCHANGED <<file, pairs, clock, call, frozen, grants, effects>>
  BY UseCaseIsBrokerStep DEF ApproveCommit, ExecuteCheckpoint, ExecuteValidate,
     ExecuteComplete, Steady, ApprovePair, CheckpointRun, ValidateRun, CompleteRun,
     brokerVars
<1>1. /\ HostTypeOK /\ CmdKnows(p) /\ cmd[p] \in CmdRecord /\ clock \in Time
      /\ clock \in Nat /\ cmd[p].pc \notin Waiting /\ call[p].pc = "Idle"
      /\ cmd[p].now <= clock
  <2>1. HostTypeOK /\ CmdKnows(p) /\ cmd[p] \in CmdRecord /\ clock \in Time
    BY DEF HarnessInv, HostTypeOK, BrokerInv, TypeOK
  <2>2. cmd[p].pc \notin Waiting
    BY DEF ApproveCommit, ExecuteCheckpoint, ExecuteValidate, ExecuteComplete, Waiting
  <2> QED BY <2>1, <2>2 DEF CmdKnows, Time
<1>2. HostKept /\ \A g \in GrantId : Issued(g) \/ grants'[g].cap # "CreateOrReplace"
  BY <1>0, BrokerKeeps DEF HostKept, Issued
<1>3. Bound'
  BY <1>0, <1>2, BoundStays
<1>4. ASSUME NEW c \in CmdRecord, SetCmd(p, c), CompletionIsEarned', CmdKnows(p)'
      PROVE  HarnessInv'
  BY <1>0, <1>1, <1>3, <1>4, CmdType, HostStep
<1>5. CASE SetCmd(p, NoCmd) /\ CompletionIsEarned'
  <2>1. cmd'[p] = NoCmd
    BY <1>0, <1>1, <1>5, NoCmdType, CmdType
  <2>2. CmdKnows(p)'
    BY <1>0, <1>1, <2>1, EndedKnows
  <2> QED BY <1>4, <1>5, <2>2, NoCmdType
<1>6. CASE ApproveCommit(p)
  <2>1. CompletionIsEarned' /\ SetCmd(p, NoCmd)
    BY <1>2, <1>6, EarnedStays DEF ApproveCommit, ApprovePair, EndCmd
  <2> QED BY <1>5, <2>1
<1>7. CASE ExecuteComplete(p)
  <2>1. cmd[p].pair \in approved /\ approved' = approved
    BY <1>1, <1>7 DEF ExecuteComplete, CmdKnows, ExecuteKnows, Executing, CompleteRun
  <2>2. /\ Confirmed("CreateOrReplace", cmd[p].pair)
        /\ Confirmed("NativeInspection", cmd[p].pair)
    BY <1>1, <1>7 DEF ExecuteComplete, CmdKnows, ExecuteKnows, AfterReplace, AfterInspect
  <2>3. CompletionIsEarned'
    BY <1>0, <2>1, <2>2 DEF CompletionIsEarned, Confirmed
  <2> QED BY <1>5, <1>7, <2>3 DEF ExecuteComplete, EndCmd
<1>8. ASSUME NEW pc \in {"Checkpointed", "Validated"},
             SetCmd(p, [cmd[p] EXCEPT !.pc = pc]), UNCHANGED <<approved, result>>,
             cmd[p].pc \in {"Planned", "Inspected"},
             pc = "Validated" => cmd[p].pc = "Inspected"
      PROVE  HarnessInv'
  <2> DEFINE c == [cmd[p] EXCEPT !.pc = pc]
  <2>1. /\ c \in CmdRecord /\ c.pc = pc /\ c.now = cmd[p].now /\ c.pair = cmd[p].pair
        /\ SetCmd(p, c)
    BY <1>1, <1>8 DEF CmdRecord, CmdPc
  <2> HIDE DEF c
  <2>2. cmd'[p] = c
    BY <1>0, <1>1, <2>1, CmdType
  <2>3. CmdKnows(p)'
    BY <1>0, <1>1, <1>8, <2>1, <2>2 DEF CmdKnows, BootstrapKnows, ExecuteKnows, Waiting,
       Executing, AfterReplace, AfterInspect, Confirmed
  <2>4. CompletionIsEarned'
    BY <1>2, <1>8, EarnedStays
  <2> QED BY <1>4, <2>1, <2>3, <2>4
<1>9. CASE ExecuteCheckpoint(p) \/ ExecuteValidate(p)
  BY <1>8, <1>9 DEF ExecuteCheckpoint, ExecuteValidate, CheckpointRun, ValidateRun
<1> QED BY <1>6, <1>7, <1>9

---------------------------------------------------------------------------
(* A command calls the broker *)
LEMMA CallStarts ==
  ASSUME HarnessInv, NEW p \in Proc, NEW op, NEW g, NEW seen, NEW s, NEW pr, NEW now,
         CallBroker(p, op, g, seen, s, pr, now), Steady,
         NEW pc \in Waiting, cmd[p].pc \in CmdPc \ Waiting,
         SetCmd(p, [cmd[p] EXCEPT !.pc = pc]), Next,
         \/ pc = "Reading"
         \/ /\ pc = "Disclosing" /\ cmd[p].pc = "DiscloseGranted"
            /\ op = "ProviderDisclose" /\ g = cmd[p].grant
         \/ /\ pc = "Replacing" /\ cmd[p].pc = "Leased"
            /\ op = "CreateOrReplace" /\ pr = cmd[p].pair
         \/ /\ pc = "Inspecting" /\ cmd[p].pc = "Checkpointed"
            /\ op = "NativeInspection" /\ pr = cmd[p].pair
  PROVE  HarnessInv'
<1> DEFINE c == [cmd[p] EXCEPT !.pc = pc]
<1>0. /\ HostTypeOK /\ CmdKnows(p) /\ cmd[p] \in CmdRecord /\ clock \in Nat
      /\ call \in [Proc -> CallRecord]
  BY DEF HarnessInv, HostTypeOK, BrokerInv, TypeOK, Time
<1>1. /\ c \in CmdRecord /\ c.pc = pc /\ c.pair = cmd[p].pair
      /\ c.now = cmd[p].now /\ c.content = cmd[p].content /\ SetCmd(p, c)
  BY <1>0 DEF CmdRecord, CmdPc, Waiting
<1> HIDE DEF c
<1>2. /\ HostTypeOK' /\ cmd'[p] = c /\ pairs' = pairs
      /\ \A q \in Proc : q # p => cmd'[q] = cmd[q]
  BY <1>0, <1>1, CmdType DEF Steady
<1>3. /\ call'[p].pc = "Found" /\ call'[p].op = op /\ call'[p].grant = g
      /\ call'[p].pair = pr
      /\ \A q \in Proc : q # p => call'[q] = call[q]
  BY <1>0 DEF CallBroker
<1>4. /\ UNCHANGED <<frozen, approved, result, grants, effects, clock>>
      /\ \A f \in GrantId : Issued(f) \/ grants'[f].cap # "CreateOrReplace"
  BY DEF CallBroker, storeVars, Issued
<1>5. BootstrapKnows(p)'
  BY <1>0, <1>1, <1>2, <1>3, <1>4
     DEF CmdKnows, BootstrapKnows, Active, Issued, Waiting
<1>6. ExecuteKnows(p)'
  BY <1>0, <1>1, <1>2, <1>3, <1>4
     DEF CmdKnows, ExecuteKnows, Active, Confirmed, Waiting, Executing, AfterReplace,
         AfterInspect
<1>7. CmdKnows(p)'
  BY <1>0, <1>1, <1>2, <1>3, <1>4, <1>5, <1>6 DEF CmdKnows
<1> QED BY <1>2, <1>3, <1>4, <1>7, QuietHostStep

LEMMA CallBrokersStep ==
  ASSUME HarnessInv, NEW p \in Proc,
         BootstrapRead(p) \/ BootstrapDisclose(p) \/ ExecuteReplace(p)
           \/ ExecuteInspect(p)
  PROVE  HarnessInv'
<1>0. Next /\ Steady
  BY CallIsBrokerStep DEF BootstrapRead, BootstrapDisclose, ExecuteReplace,
     ExecuteInspect
<1>1. CASE BootstrapRead(p)
  <2> DEFINE pc == "Reading"
             op == "LocalRead"
  <2>1. /\ CallBroker(p, op, cmd[p].grant, AsIssued(cmd[p].grant), Target, NoPair,
                      cmd[p].now)
        /\ SetCmd(p, [cmd[p] EXCEPT !.pc = pc])
        /\ cmd[p].pc \in CmdPc \ Waiting /\ pc \in Waiting /\ pc = "Reading"
    BY <1>1 DEF BootstrapRead, CmdPc, Waiting
  <2> HIDE DEF pc, op
  <2> QED BY <1>0, <2>1, CallStarts
<1>2. CASE BootstrapDisclose(p)
  <2> DEFINE pc == "Disclosing"
             op == "ProviderDisclose"
  <2>1. /\ CallBroker(p, op, cmd[p].grant, AsIssued(cmd[p].grant), cmd[p].content,
                      NoPair, cmd[p].now)
        /\ SetCmd(p, [cmd[p] EXCEPT !.pc = pc])
        /\ cmd[p].pc \in CmdPc \ Waiting /\ pc \in Waiting /\ pc = "Disclosing"
        /\ op = "ProviderDisclose" /\ cmd[p].pc = "DiscloseGranted"
    BY <1>2 DEF BootstrapDisclose, CmdPc, Waiting
  <2> HIDE DEF pc, op
  <2> QED BY <1>0, <2>1, CallStarts
<1>3. CASE ExecuteReplace(p)
  <2> DEFINE pc == "Replacing"
             op == "CreateOrReplace"
  <2>1. /\ CallBroker(p, op, cmd[p].grant, grants[cmd[p].grant], pairs[cmd[p].pair].pre,
                      cmd[p].pair, cmd[p].now)
        /\ SetCmd(p, [cmd[p] EXCEPT !.pc = pc])
        /\ cmd[p].pc \in CmdPc \ Waiting /\ pc \in Waiting /\ pc = "Replacing"
        /\ op = "CreateOrReplace" /\ cmd[p].pc = "Leased"
    BY <1>3 DEF ExecuteReplace, CmdPc, Waiting
  <2> HIDE DEF pc, op
  <2> QED BY <1>0, <2>1, CallStarts
<1>4. CASE ExecuteInspect(p)
  <2> DEFINE pc == "Inspecting"
             op == "NativeInspection"
             g == FirstGrant("NativeInspection")
  <2>1. /\ CallBroker(p, op, g, grants[g], Target, cmd[p].pair, cmd[p].now)
        /\ SetCmd(p, [cmd[p] EXCEPT !.pc = pc])
        /\ cmd[p].pc \in CmdPc \ Waiting /\ pc \in Waiting /\ pc = "Inspecting"
        /\ op = "NativeInspection" /\ cmd[p].pc = "Checkpointed"
    BY <1>4 DEF ExecuteInspect, CmdPc, Waiting
  <2> HIDE DEF pc, op, g
  <2> QED BY <1>0, <2>1, CallStarts
<1> QED BY <1>1, <1>2, <1>3, <1>4

---------------------------------------------------------------------------
(* What a step of the handshake leaves alone *)
LEMMA HandshakeLeaves ==
  ASSUME HarnessInv, NEW p \in Proc, Handshake(p) \/ Return(p) \/ EndProcess(p)
  PROVE  /\ UNCHANGED <<frozen, approved, result, clock>>
         /\ \A g \in GrantId : Issued(g) \/ grants'[g].cap # "CreateOrReplace"
         /\ \A q \in Proc : q # p => call'[q] = call[q]
<1>0. call \in [Proc -> CallRecord] /\ grants \in [GrantId -> GrantRecord]
  BY DEF HarnessInv, BrokerInv, TypeOK, StoreTypeOK
<1>1. UNCHANGED <<frozen, approved, result, clock>>
  BY DEF Handshake, Return, EndProcess, EnsureGrant, Prepare, Claim, Consume,
     ConsumeDenied, Dispatch, Perform, PerformError, SettleSuccess, SettleError, Fail,
     PrepareEffect, ClaimEffect, ConsumeDispatchBudget, MarkDispatched, SettleEffect,
     storeVars
<1>2. \A q \in Proc : q # p => call'[q] = call[q]
  BY <1>0 DEF Handshake, Return, EndProcess, EnsureGrant, Prepare, Claim, Consume,
     ConsumeDenied, Dispatch, Perform, PerformError, SettleSuccess, SettleError, Fail,
     Finish, GoTo
<1>3. grants' = grants \/ \E h : grants' = [grants EXCEPT ![h].left = @ - 1]
  BY DEF Handshake, Return, EndProcess, EnsureGrant, Prepare, Claim, Consume,
     ConsumeDenied, Dispatch, Perform, PerformError, SettleSuccess, SettleError, Fail,
     PrepareEffect, ClaimEffect, ConsumeDispatchBudget, MarkDispatched, SettleEffect,
     storeVars
<1>4. \A g \in GrantId : grants'[g].cap = grants[g].cap
  BY <1>0, <1>3 DEF GrantRecord
<1> QED BY <1>1, <1>2, <1>4 DEF Issued

(* The call moves on, or fails, and the command waits *)
LEMMA CallMovesOn ==
  ASSUME HarnessInv, HostKept, clock' \in Time, NEW p \in Proc,
         cmd[p].pc \in Waiting, Active(p),
         cmd'[p].pc = cmd[p].pc, cmd'[p].pair = cmd[p].pair, cmd'[p].now = cmd[p].now,
         \/ cmd'[p].content = cmd[p].content
         \/ /\ cmd[p].pc \in {"Reading", "Inspecting"}
            /\ cmd'[p].content \in Content,
         call'[p].pc \notin {"Idle", "Done"},
         call'[p].pc = "Performed" /\ cmd[p].pc = "Reading" => cmd'[p].content \in Content,
         Active(p)' => /\ call'[p].op = call[p].op /\ call'[p].grant = call[p].grant
                       /\ call'[p].pair = call[p].pair
  PROVE  CmdKnows(p)'
<1>0. /\ CmdKnows(p) /\ cmd[p] \in CmdRecord /\ clock \in Nat /\ clock' \in Nat
      /\ cmd[p].now \in Nat
  BY DEF HarnessInv, HostTypeOK, CmdRecord, BrokerInv, TypeOK, Time
<1>1. cmd'[p].now <= clock' /\ (call'[p].pc = "Idle" <=> cmd'[p].pc \notin Waiting)
  BY <1>0 DEF CmdKnows, HostKept
<1>2. \A g \in GrantId : Issued(g) => Issued(g)' /\ grants'[g].scope = grants[g].scope
  BY DEF HostKept, RecordKept, Issued
<1>4. BootstrapKnows(p)'
  BY <1>0, <1>2 DEF CmdKnows, BootstrapKnows, Active, Waiting
<1>5. ExecuteKnows(p)'
  <2>1. cmd[p].pc \in AfterReplace => Confirmed("CreateOrReplace", cmd[p].pair)'
    BY <1>0 DEF CmdKnows, ExecuteKnows, HostKept, RecordKept, Confirmed
  <2> QED BY <1>0, <2>1 DEF CmdKnows, ExecuteKnows, Active, HostKept, RecordKept, Waiting,
     Executing, AfterReplace, AfterInspect
<1> QED BY <1>1, <1>4, <1>5 DEF CmdKnows

(* A handshake step whose command waits on *)
LEMMA WaitingStep ==
  ASSUME HarnessInv, NEW p \in Proc, Handshake(p), HostTypeOK', pairs' = pairs,
         cmd[p].pc \in Waiting, Active(p), CmdKnows(p)',
         \A q \in Proc : q # p => cmd'[q] = cmd[q]
  PROVE  HarnessInv'
<1>1. [Next]_vars
  BY DEF Next
<1>2. /\ UNCHANGED <<frozen, approved, result, clock>>
      /\ \A g \in GrantId : Issued(g) \/ grants'[g].cap # "CreateOrReplace"
      /\ \A q \in Proc : q # p => call'[q] = call[q]
  BY HandshakeLeaves
<1> QED BY <1>1, <1>2, QuietHostStep

(* What a handshake step that is not a settlement of success makes of the  *)
(* call                                                                    *)
LEMMA CallAfter ==
  ASSUME HarnessInv, NEW p \in Proc,
         \/ EnsureGrant(p) \/ Prepare(p) \/ Claim(p) \/ Consume(p) \/ ConsumeDenied(p)
         \/ Dispatch(p) \/ SettleError(p) \/ Fail(p) \/ Perform(p) \/ PerformError(p)
  PROVE  /\ Active(p) /\ call'[p].pc \notin {"Idle", "Done"}
         /\ call'[p].pc = "Performed" => Perform(p)
         /\ Active(p)' => /\ call'[p].op = call[p].op /\ call'[p].grant = call[p].grant
                          /\ call'[p].pair = call[p].pair
<1>0. call \in [Proc -> CallRecord] /\ call[p] \in CallRecord
  BY DEF HarnessInv, BrokerInv, TypeOK
<1>1. ASSUME Finish(p, "Failed") PROVE call'[p].pc = "Failed"
  BY <1>0, <1>1 DEF Finish, NoCall
<1>2. ASSUME NEW pc, GoTo(p, pc)
      PROVE  /\ call'[p].pc = pc /\ call'[p].op = call[p].op
             /\ call'[p].grant = call[p].grant /\ call'[p].pair = call[p].pair
  BY <1>0, <1>2 DEF GoTo, CallRecord
<1>3. CASE EnsureGrant(p)
  <2>1. CASE Finish(p, "Failed")
    BY <1>1, <1>3, <2>1 DEF EnsureGrant, Active
  <2>2. CASE call' = [call EXCEPT ![p] = [@ EXCEPT !.pc = "Ensured", !.seen = NoGrant]]
    BY <1>0, <1>3, <2>2 DEF EnsureGrant, Active, CallRecord
  <2> QED BY <1>3, <2>1, <2>2 DEF EnsureGrant
<1>4. CASE Prepare(p)
  <2>1. PICK e : call' = [call EXCEPT ![p] = [@ EXCEPT !.pc = "Prepared", !.effect = e]]
    BY <1>4 DEF Prepare
  <2>2. call[p].pc = "Ensured"
    BY <1>4 DEF Prepare
  <2> QED BY <1>0, <2>1, <2>2 DEF Active, CallRecord
<1>5. CASE Claim(p) \/ Consume(p) \/ Dispatch(p) \/ Perform(p)
  BY <1>2, <1>5 DEF Claim, Consume, Dispatch, Perform, Active
<1>6. CASE ConsumeDenied(p) \/ SettleError(p) \/ Fail(p)
  BY <1>1, <1>6 DEF ConsumeDenied, SettleError, Fail, Active
<1>7. CASE PerformError(p)
  BY <1>1, <1>2, <1>7 DEF PerformError, Active
<1> QED BY <1>3, <1>4, <1>5, <1>6, <1>7

(* The store calls of the handshake, its failures, and the disclosure *)
LEMMA SilentStep ==
  ASSUME HarnessInv, NEW p \in Proc,
         \/ BrokerStep(p) \/ CallFails(p) \/ OperateError(p)
         \/ MoveTarget(p) \/ ReplaceError(p)
         \/ (Operate(p) /\ cmd[p].pc = "Disclosing")
  PROVE  HarnessInv'
<1>0. /\ HostTypeOK /\ cmd[p] \in CmdRecord /\ CmdKnows(p) /\ BrokerInv
  BY DEF HarnessInv, HostTypeOK
<1>1. /\ cmd[p].pc \in Waiting /\ UNCHANGED <<cmd, pairs>> /\ Handshake(p)
      /\ \/ EnsureGrant(p) \/ Prepare(p) \/ Claim(p) \/ Consume(p) \/ ConsumeDenied(p)
         \/ Dispatch(p) \/ SettleError(p) \/ Fail(p) \/ PerformError(p)
         \/ (Perform(p) /\ cmd[p].pc \in {"Disclosing", "Rechecked"})
  BY DEF BrokerStep, CallFails, OperateError, MoveTarget, ReplaceError, Operate,
     NewTarget, hostVars, Waiting, Handshake, Steady
<1>2. file' \in [content: Maybe, ident: 0 .. MaxIdent]
  <2>1. CASE NewTarget(p)
    <3>1. cmd[p].pair \in frozen
      BY <1>0, <2>1 DEF NewTarget, CmdKnows, ExecuteKnows, Executing, BrokerInv, TypeOK,
         StoreTypeOK
    <3>2. Review[pairs[cmd[p].pair].pre] \in Maybe
      BY <3>1, HarnessAssumption DEF HarnessInv, Maybe
    <3>3. file.ident + 1 \in 0 .. MaxIdent
      BY <1>0, <2>1, HarnessAssumption DEF NewTarget, HostTypeOK
    <3> QED BY <2>1, <3>2, <3>3 DEF NewTarget
  <2>2. CASE UNCHANGED file
    BY <1>0, <2>2 DEF HostTypeOK
  <2> QED BY <2>1, <2>2 DEF BrokerStep, CallFails, OperateError, MoveTarget, ReplaceError,
       Operate, hostVars, Steady
<1>3. HostTypeOK'
  BY <1>0, <1>1, <1>2 DEF HostTypeOK
<1>4. [Next]_vars
  BY <1>1 DEF Next
<1>5. HostKept /\ clock' \in Time
  BY <1>1, <1>4, BrokerKeeps DEF HostKept
<1>6. /\ Active(p) /\ call'[p].pc \notin {"Idle", "Done"}
      /\ call'[p].pc = "Performed" => Perform(p)
      /\ Active(p)' => /\ call'[p].op = call[p].op /\ call'[p].grant = call[p].grant
                       /\ call'[p].pair = call[p].pair
  BY <1>1, CallAfter
<1>7. call'[p].pc = "Performed" => cmd[p].pc # "Reading"
  <2>1. ASSUME Perform(p), cmd[p].pc = "Reading" PROVE FALSE
    <3>1. call'[p].pc = "Performed" /\ call[p].pc = "Dispatched"
      BY <2>1 DEF Perform, GoTo, HarnessInv, BrokerInv, TypeOK, CallRecord
    <3>2. call'[p].pc # "Performed"
      <4>0. call \in [Proc -> CallRecord] /\ call[p] \in CallRecord
        BY DEF HarnessInv, BrokerInv, TypeOK
      <4>1. \/ Finish(p, "Failed") \/ GoTo(p, "Errored")
        BY <1>1, <2>1, <3>1 DEF EnsureGrant, Prepare, Claim, Consume, ConsumeDenied,
           Dispatch, SettleError, Fail, PerformError
      <4> QED BY <4>0, <4>1 DEF Finish, GoTo, NoCall, CallRecord
    <3> QED BY <3>1, <3>2
  <2> QED BY <1>6, <2>1
<1>8. CmdKnows(p)'
  BY <1>1, <1>5, <1>6, <1>7, CallMovesOn
<1> QED BY <1>1, <1>3, <1>6, <1>8, WaitingStep

(* The read and the inspection return what the target holds *)
LEMMA OperateStep ==
  ASSUME HarnessInv, NEW p \in Proc, Operate(p)
  PROVE  HarnessInv'
<1>1. CASE cmd[p].pc = "Disclosing"
  BY <1>1, SilentStep
<1>2. CASE cmd[p].pc # "Disclosing"
  <2> DEFINE c == [cmd[p] EXCEPT !.content = file.content]
  <2>0. /\ cmd[p].pc \in {"Reading", "Inspecting"} /\ Perform(p) /\ SetCmd(p, c)
        /\ file.content # NoContent /\ Steady
    BY <1>2 DEF Operate
  <2>1. HostTypeOK /\ cmd[p] \in CmdRecord /\ cmd[p].pc \in Waiting /\ Handshake(p)
    BY <2>0 DEF HarnessInv, HostTypeOK, Waiting, Handshake
  <2>2. file.content \in Content /\ file.content \in Maybe
    BY <2>0, <2>1 DEF HostTypeOK, Maybe
  <2>3. /\ c \in CmdRecord /\ c.pc = cmd[p].pc /\ c.pair = cmd[p].pair
        /\ c.now = cmd[p].now /\ c.content = file.content
    BY <2>1, <2>2 DEF CmdRecord
  <2> HIDE DEF c
  <2>4. /\ HostTypeOK' /\ cmd'[p] = c /\ pairs' = pairs
        /\ \A q \in Proc : q # p => cmd'[q] = cmd[q]
    BY <2>0, <2>1, <2>3, CmdType DEF Steady
  <2>5. HostKept /\ clock' \in Time
    BY <2>1, <2>4, BrokerKeeps DEF HostKept, Next
  <2>6. /\ Active(p) /\ call'[p].pc \notin {"Idle", "Done"}
        /\ Active(p)' => /\ call'[p].op = call[p].op /\ call'[p].grant = call[p].grant
                         /\ call'[p].pair = call[p].pair
    BY <2>0, CallAfter
  <2>7. CmdKnows(p)'
    BY <2>0, <2>1, <2>2, <2>3, <2>4, <2>5, <2>6, CallMovesOn
  <2> QED BY <2>1, <2>4, <2>6, <2>7, WaitingStep
<1> QED BY <1>1, <1>2

(* A settled success is what the command finds confirmed *)
LEMMA SettleOkStep ==
  ASSUME HarnessInv, NEW p \in Proc, SettleOk(p)
  PROVE  HarnessInv'
<1> DEFINE c == IF cmd[p].pc = "Reading"
                THEN [cmd[p] EXCEPT !.ident = file.ident] ELSE cmd[p]
           e == call[p].effect
<1>0. /\ HostTypeOK /\ cmd[p] \in CmdRecord /\ cmd[p].pc \in Waiting /\ CmdKnows(p)
      /\ Handshake(p) /\ SettleSuccess(p) /\ Steady /\ SetCmd(p, c)
      /\ BrokerInv /\ CallKnows(p) /\ call[p] \in CallRecord
      /\ call \in [Proc -> CallRecord] /\ effects \in [EffectId -> EffectEntry]
  BY DEF SettleOk, HarnessInv, HostTypeOK, Handshake, BrokerInv, TypeOK, StoreTypeOK
<1>1. /\ c \in CmdRecord /\ c.pc = cmd[p].pc /\ c.pair = cmd[p].pair
      /\ c.now = cmd[p].now /\ c.content = cmd[p].content
  BY <1>0 DEF CmdRecord, HostTypeOK
<1> HIDE DEF c
<1>2. /\ HostTypeOK' /\ cmd'[p] = c /\ pairs' = pairs
      /\ \A q \in Proc : q # p => cmd'[q] = cmd[q]
  BY <1>0, <1>1, CmdType DEF Steady
<1>3. /\ call[p].pc = "Performed" /\ call'[p].pc = "Done" /\ clock' = clock
      /\ clock \in Nat /\ UNCHANGED <<grants, approved, frozen>>
  BY <1>0 DEF SettleSuccess, Finish, NoCall, SettleEffect, BrokerInv, TypeOK, Time
<1>4. /\ e \in EffectId /\ effects[e].op = call[p].op
      /\ effects[e].grant = call[p].grant /\ effects[e].pair = call[p].pair
  BY <1>0, <1>3 DEF CallKnows, CallRecord
<1>5. /\ effects'[e].op = call[p].op /\ effects'[e].grant = call[p].grant
      /\ effects'[e].pair = call[p].pair
      /\ effects'[e].certainty = "ConfirmedCommitted"
  BY <1>0, <1>4 DEF SettleSuccess, SettleEffect, EffectEntry
<1>6. HostKept
  BY <1>0, <1>2, BrokerKeeps DEF HostKept, Next
<1>7. Active(p)
  BY <1>3 DEF Active
<1>8. BootstrapKnows(p)'
  <2>1. cmd[p].pc = "Disclosing" => Disclosed(cmd[p].content)'
    BY <1>0, <1>1, <1>2, <1>3, <1>4, <1>5, <1>7 DEF CmdKnows, BootstrapKnows, Disclosed
  <2> QED BY <1>0, <1>1, <1>2, <1>3, <2>1 DEF CmdKnows, BootstrapKnows, Active, Waiting
<1>9. ExecuteKnows(p)'
  <2>1. cmd[p].pc = "Rechecked" => Confirmed("CreateOrReplace", cmd[p].pair)'
    BY <1>0, <1>1, <1>2, <1>4, <1>5, <1>7 DEF CmdKnows, ExecuteKnows, Confirmed
  <2>2. cmd[p].pc = "Inspecting" => Confirmed("NativeInspection", cmd[p].pair)'
    BY <1>0, <1>1, <1>2, <1>4, <1>5, <1>7 DEF CmdKnows, ExecuteKnows, Confirmed
  <2>3. cmd[p].pc \in AfterReplace => Confirmed("CreateOrReplace", cmd[p].pair)'
    BY <1>0, <1>1, <1>2, <1>6
       DEF CmdKnows, ExecuteKnows, HostKept, RecordKept, Confirmed
  <2> QED BY <1>0, <1>1, <1>2, <1>3, <2>1, <2>2, <2>3
          DEF CmdKnows, ExecuteKnows, Active, Waiting, Executing, AfterReplace, AfterInspect
<1>10. CmdKnows(p)'
  BY <1>0, <1>1, <1>2, <1>3, <1>8, <1>9 DEF CmdKnows
<1> QED BY <1>0, <1>2, <1>7, <1>10, WaitingStep

(* The broker returns to the command *)
LEMMA AfterCallStep ==
  ASSUME HarnessInv, NEW p \in Proc, AfterCall(p)
  PROVE  HarnessInv'
<1>0. /\ HostTypeOK /\ cmd[p] \in CmdRecord /\ CmdKnows(p) /\ Return(p) /\ BrokerInv
      /\ UNCHANGED <<file, pairs>> /\ call \in [Proc -> CallRecord]
      /\ clock \in Nat /\ clock \in Time
  BY DEF AfterCall, HarnessInv, HostTypeOK, BrokerInv, TypeOK, Time
<1>1. /\ call[p].pc \in {"Done", "Failed"} /\ call'[p].pc = "Idle"
      /\ UNCHANGED <<grants, effects, approved, frozen, clock, result>>
      /\ cmd[p].pc \in Waiting
  BY <1>0 DEF Return, NoCall, storeVars, CmdKnows
<1>2. [Next]_vars
  BY <1>0 DEF Next
<1>3. /\ \A g \in GrantId : Issued(g) \/ grants'[g].cap # "CreateOrReplace"
      /\ \A q \in Proc : q # p => call'[q] = call[q]
  BY <1>0, HandshakeLeaves
<1>4. ASSUME NEW c \in CmdRecord, SetCmd(p, c), CmdKnows(p)' PROVE HarnessInv'
  <2>1. HostTypeOK' /\ \A q \in Proc : q # p => cmd'[q] = cmd[q]
    BY <1>0, <1>4, CmdType
  <2> QED BY <1>0, <1>1, <1>2, <1>3, <1>4, <2>1, QuietHostStep
<1>5. CASE SetCmd(p, NoCmd)
  <2>1. cmd'[p] = NoCmd
    BY <1>0, <1>5, NoCmdType, CmdType
  <2> QED BY <1>0, <1>1, <1>4, <1>5, <2>1, NoCmdType, EndedKnows
<1>6. ASSUME call[p].pc = "Done",
             NEW c \in CmdRecord, SetCmd(p, c), c.pair = cmd[p].pair,
             c.now = cmd[p].now, c.content = cmd[p].content,
             \/ cmd[p].pc = "Reading" /\ c.pc = "Bound"
             \/ cmd[p].pc = "Disclosing" /\ c.pc = "Disclosed"
             \/ cmd[p].pc = "Rechecked" /\ c.pc = "Replaced"
             \/ cmd[p].pc = "Inspecting" /\ c.pc = "Inspected"
      PROVE  HarnessInv'
  <2>1. cmd'[p] = c
    BY <1>0, <1>6, CmdType
  <2>2. BootstrapKnows(p)'
    BY <1>0, <1>1, <1>6, <2>1 DEF CmdKnows, BootstrapKnows, Active, Disclosed
  <2>3. ExecuteKnows(p)'
    BY <1>0, <1>1, <1>6, <2>1 DEF CmdKnows, ExecuteKnows, Active, Confirmed, Executing,
       AfterReplace, AfterInspect
  <2>4. CmdKnows(p)'
    BY <1>0, <1>1, <1>6, <2>1, <2>2, <2>3 DEF CmdKnows, Waiting
  <2> QED BY <1>4, <1>6, <2>4
<1>7. CASE call[p].pc = "Done" /\ cmd[p].pc = "Rechecked"
  <2> DEFINE c == [cmd[p] EXCEPT !.pc = "Replaced", !.plan = Latest]
  <2>1. cmd[p].pair \in frozen
    BY <1>0, <1>7 DEF CmdKnows, ExecuteKnows, Executing, BrokerInv, TypeOK, StoreTypeOK
  <2>2. Latest \in PairId
    BY <1>0, <2>1, LatestIsFrozen DEF BrokerInv, TypeOK, StoreTypeOK
  <2>3. /\ c \in CmdRecord /\ c.pair = cmd[p].pair /\ c.now = cmd[p].now
        /\ c.content = cmd[p].content /\ c.pc = "Replaced" /\ SetCmd(p, c)
    BY <1>0, <1>7, <2>2 DEF AfterCall, CmdRecord, CmdPc
  <2> HIDE DEF c
  <2> QED BY <1>6, <1>7, <2>3
<1>8. ASSUME NEW pc \in {"Bound", "Disclosed", "Inspected"}, call[p].pc = "Done",
             SetCmd(p, [cmd[p] EXCEPT !.pc = pc]),
             \/ cmd[p].pc = "Reading" /\ pc = "Bound"
             \/ cmd[p].pc = "Disclosing" /\ pc = "Disclosed"
             \/ cmd[p].pc = "Inspecting" /\ pc = "Inspected"
      PROVE  HarnessInv'
  <2> DEFINE c == [cmd[p] EXCEPT !.pc = pc]
  <2>1. /\ c \in CmdRecord /\ c.pair = cmd[p].pair /\ c.now = cmd[p].now
        /\ c.content = cmd[p].content /\ c.pc = pc /\ SetCmd(p, c)
    BY <1>0, <1>8 DEF CmdRecord, CmdPc
  <2> HIDE DEF c
  <2> QED BY <1>6, <1>8, <2>1
<1>9. CASE call[p].pc = "Done" /\ cmd[p].pc \in {"Reading", "Disclosing", "Inspecting"}
  BY <1>8, <1>9 DEF AfterCall
<1>10. CASE call[p].pc # "Done" \/ cmd[p].pc \in {"Replacing", "Checked"}
  BY <1>5, <1>10 DEF AfterCall
<1> QED BY <1>1, <1>7, <1>9, <1>10 DEF Waiting

(* A process that ends forgets its command and its call *)
LEMMA CrashStep ==
  ASSUME HarnessInv, NEW p \in Proc, Crash(p)
  PROVE  HarnessInv'
<1>0. /\ HostTypeOK /\ UNCHANGED <<file, pairs>> /\ SetCmd(p, NoCmd)
      /\ call \in [Proc -> CallRecord] /\ clock \in Time
  BY DEF Crash, EndCmd, HarnessInv, HostTypeOK, BrokerInv, TypeOK
<1>1. HostTypeOK' /\ cmd'[p] = NoCmd /\ \A q \in Proc : q # p => cmd'[q] = cmd[q]
  BY <1>0, NoCmdType, CmdType
<1>2. CASE EndProcess(p)
  <2>1. call'[p].pc = "Idle" /\ clock' = clock
    BY <1>0, <1>2 DEF EndProcess, NoCall
  <2>2. CmdKnows(p)'
    BY <1>0, <1>1, <2>1, EndedKnows
  <2>3. [Next]_vars
    BY <1>2 DEF Next
  <2>4. /\ UNCHANGED <<frozen, result>>
        /\ \A g \in GrantId : Issued(g) \/ grants'[g].cap # "CreateOrReplace"
        /\ \A q \in Proc : q # p => call'[q] = call[q]
    BY <1>2, HandshakeLeaves
  <2> QED BY <1>0, <1>1, <2>2, <2>3, <2>4, QuietHostStep
<1>3. CASE call[p].pc = "Idle" /\ UNCHANGED vars
  <2>1. CmdKnows(p)'
    BY <1>0, <1>1, <1>3, EndedKnows DEF vars, brokerVars
  <2> QED BY <1>0, <1>3, <2>1, NoCmdType, LocalStep
<1> QED BY <1>2, <1>3 DEF Crash

LEMMA HarnessStep ==
  ASSUME HarnessInv, [HarnessNext]_harnessVars
  PROVE  HarnessInv'
<1>1. ASSUME NEW p \in Proc, Command(p) PROVE HarnessInv'
  BY <1>1, AmbientStep, IssueStep, GrantReplaceStep, FreezeStep, UseCaseStep,
     ReadPairStep, ExecuteStartStep, ExecuteLocalStep, OutsideStep, CallBrokersStep,
     SilentStep, OperateStep, SettleOkStep, AfterCallStep
     DEF Command
<1>2. ASSUME NEW p \in Proc, Fault(p) PROVE HarnessInv'
  BY <1>2, SilentStep, OutsideStep, CrashStep DEF Fault
<1>3. CASE Environment
  BY <1>3, AmbientStep, OutsideStep DEF Environment
<1> QED BY <1>1, <1>2, <1>3, AmbientStep DEF HarnessNext

(* A Run before its first command *)
LEMMA HarnessInitInv == ASSUME HarnessInit PROVE HarnessInv
<1>1. BrokerInv /\ StoreInv /\ CallPairsAreFrozen
  BY InitInv, StoreInitInv
     DEF HarnessInit, Init, BrokerInit, CallPairsAreFrozen, NoCall
<1>2. HostTypeOK
  <2>1. 0 \in 0 .. MaxIdent /\ 0 \in Time
    BY HarnessAssumption, StoreAssumption DEF Time
  <2>2. file \in [content: Maybe, ident: 0 .. MaxIdent]
    BY <2>1 DEF HarnessInit, Maybe
  <2>3. pairs \in [PairId -> [pre: Maybe, ident: 0 .. MaxIdent, at: Time]]
    BY <2>1 DEF HarnessInit, Maybe
  <2> QED BY <2>2, <2>3, NoCmdType DEF HarnessInit, HostTypeOK
<1>3. frozen = {} /\ result = NoPair /\ \A g \in GrantId : grants[g].cap = "None"
  BY DEF HarnessInit, Init, StoreInit, NoGrant
<1>4. ASSUME NEW p \in Proc PROVE CmdKnows(p)
  <2>1. /\ cmd[p].pc = "None" /\ cmd[p].now = 0 /\ clock = 0 /\ call[p].pc = "Idle"
    BY DEF HarnessInit, Init, BrokerInit, NoCmd, NoCall
  <2> QED BY <2>1 DEF CmdKnows, BootstrapKnows, ExecuteKnows, Waiting, Executing,
       AfterReplace, AfterInspect
<1> QED BY <1>1, <1>2, <1>3, <1>4
     DEF HarnessInv, FrozenWasDisclosed, ReplaceGrantsAreBound, CompletionIsEarned

---------------------------------------------------------------------------
(* harness.rs: whatever the host's processes do, in whatever order, what   *)
(* their commands know of the record stays true.                           *)
THEOREM HarnessInvariant == HarnessSpec => []HarnessInv
<1>1. HarnessInit => HarnessInv
  BY HarnessInitInv
<1>2. HarnessInv /\ [HarnessNext]_harnessVars => HarnessInv'
  BY HarnessStep
<1> QED BY <1>1, <1>2, PTL DEF HarnessSpec

(* harness.rs, operation_broker.rs: every command of every process is a    *)
(* behaviour of the broker's specification, so all that is proved of the   *)
(* handshake holds of the host.                                            *)
THEOREM HostImplementsBroker == HarnessSpec => ImplementsBroker
<1>1. HarnessInit => Init
  BY DEF HarnessInit
<1>2. HarnessInv /\ [HarnessNext]_harnessVars => [Next]_vars
  BY HostIsBrokerStep
<1> QED BY <1>1, <1>2, HarnessInvariant, PTL DEF HarnessSpec, ImplementsBroker, Spec

(* harness.rs:1095, 1034: the target is replaced only for an approved pair *)
(* under a grant for its preimage, for any number of processes: grants to  *)
(* replace are issued for approved pairs only, and the broker lets an      *)
(* effect through for the pair of its grant only.                          *)
THEOREM ReplacementApproved == HarnessSpec => []ReplacementIsApproved
<1>1. HarnessInv => ReplacementIsApproved
  BY DEF HarnessInv, ReplacementIsApproved, ReplaceGrantsAreBound, BrokerInv,
     EveryEffectIsAuthorised
<1> QED BY <1>1, HarnessInvariant, PTL

(* harness.rs:1075: a final result follows a confirmed replacement and a   *)
(* confirmed inspection of one approved pair, whatever other processes do. *)
THEOREM CompletionEarned == HarnessSpec => []CompletionIsEarned
<1>1. HarnessInv => CompletionIsEarned
  BY DEF HarnessInv
<1> QED BY <1>1, HarnessInvariant, PTL

(* harness.rs:850: what a pair is frozen from was disclosed under a grant  *)
(* for that very content.                                                  *)
THEOREM FrozenDisclosed == HarnessSpec => []FrozenWasDisclosed
<1>1. HarnessInv => FrozenWasDisclosed
  BY DEF HarnessInv
<1> QED BY <1>1, HarnessInvariant, PTL

---------------------------------------------------------------------------
(* With one process the latest pair stays the one an execution started     *)
(* with.                                                                   *)
Alone == \A p, q \in Proc : p = q

AfterGraph == AfterReplace \ {"Replaced"}

SoleKnows(p) ==
  /\ cmd[p].pc \in Executing => cmd[p].pair = Latest
  /\ cmd[p].pc \in AfterReplace => cmd[p].plan = cmd[p].pair
  /\ cmd[p].pc \in AfterGraph => cmd[p].graph = cmd[p].pair

ResultIsConfirmed ==
  result # NoPair => result \in approved /\ Confirmed("CreateOrReplace", result)

SoleInv == (\A p \in Proc : SoleKnows(p)) /\ ResultIsConfirmed

(* What a step does to the pair, the plan and the graph of its command *)
CmdMoves(p) ==
  \/ cmd'[p].pc \notin Executing
  \/ cmd'[p].pc \notin AfterReplace /\ cmd'[p].pair = Latest
  \/ /\ cmd'[p].pair = cmd[p].pair /\ cmd[p].pc \in Executing
     /\ \/ /\ cmd'[p].plan = cmd[p].plan /\ cmd'[p].graph = cmd[p].graph
           /\ cmd'[p].pc \in AfterReplace => cmd[p].pc \in AfterReplace
           /\ cmd'[p].pc \in AfterGraph => cmd[p].pc \in AfterGraph
        \/ cmd'[p].pc = "Replaced" /\ cmd'[p].plan = Latest
        \/ /\ cmd'[p].graph = Latest /\ cmd'[p].plan = cmd[p].plan
           /\ cmd[p].pc = "Replaced"

LEMMA MovesOn ==
  ASSUME HarnessInv, NEW p \in Proc, Command(p) \/ Fault(p)
  PROVE  CmdMoves(p)
<1>0. cmd \in [Proc -> CmdRecord] /\ cmd[p] \in CmdRecord
  BY DEF HarnessInv, HostTypeOK
<1>1. ASSUME cmd' = cmd PROVE CmdMoves(p)
  BY <1>0, <1>1 DEF CmdMoves
<1>2. ASSUME SetCmd(p, NoCmd) PROVE CmdMoves(p)
  BY <1>0, <1>2 DEF SetCmd, NoCmd, CmdMoves, Executing
<1>3. ASSUME NEW pc \in CmdPc, SetCmd(p, [cmd[p] EXCEPT !.pc = pc]),
             pc \in Executing => cmd[p].pc \in Executing,
             pc \in AfterReplace => cmd[p].pc \in AfterReplace,
             pc \in AfterGraph => cmd[p].pc \in AfterGraph
      PROVE  CmdMoves(p)
  <2>1. /\ cmd'[p].pc = pc /\ cmd'[p].pair = cmd[p].pair /\ cmd'[p].plan = cmd[p].plan
        /\ cmd'[p].graph = cmd[p].graph
    BY <1>0, <1>3 DEF SetCmd, CmdRecord
  <2> QED BY <1>3, <2>1 DEF CmdMoves
<1>4. CASE BootstrapRead(p) \/ BootstrapDisclose(p) \/ GrantReplace(p)
             \/ ExecuteReplace(p) \/ ExecuteCheckpoint(p) \/ ExecuteInspect(p)
             \/ ExecuteValidate(p) \/ CheckTarget(p) \/ RecheckTarget(p)
  BY <1>3, <1>4
     DEF BootstrapRead, BootstrapDisclose, GrantReplace, ExecuteReplace,
         ExecuteCheckpoint, ExecuteInspect, ExecuteValidate, CheckTarget, RecheckTarget,
         CmdPc, Executing, AfterReplace, AfterGraph
<1>5. CASE BootstrapFreeze(p) \/ ApproveCommit(p) \/ GrantInspect(p) \/ ExecuteComplete(p)
             \/ TakeoverCommit(p) \/ CommandFails(p) \/ Crash(p)
  BY <1>2, <1>5 DEF BootstrapFreeze, ApproveCommit, GrantInspect, ExecuteComplete,
     TakeoverCommit, CommandFails, Crash, EndCmd
<1>6. CASE Rebind(p) \/ BrokerStep(p) \/ MoveTarget(p) \/ OperateError(p)
             \/ ReplaceError(p) \/ CallFails(p)
  BY <1>1, <1>6 DEF Rebind, BrokerStep, MoveTarget, NewTarget, OperateError, ReplaceError,
     CallFails, hostVars
<1>7. CASE BootstrapStart(p) \/ BootstrapGrantDisclose(p) \/ ApproveStart(p)
  <2>1. CASE BootstrapStart(p)
    <3>1. PICK g : SetCmd(p, [NoCmd EXCEPT !.pc = "ReadGranted", !.now = clock, !.grant = g])
      BY <2>1 DEF BootstrapStart
    <3>2. cmd'[p].pc = "ReadGranted"
      BY <1>0, <3>1 DEF SetCmd, NoCmd
    <3> QED BY <3>2 DEF CmdMoves, Executing
  <2>2. CASE BootstrapGrantDisclose(p)
    <3>1. PICK g : SetCmd(p, [cmd[p] EXCEPT !.pc = "DiscloseGranted", !.grant = g])
      BY <2>2 DEF BootstrapGrantDisclose
    <3>2. cmd'[p].pc = "DiscloseGranted"
      BY <1>0, <3>1 DEF SetCmd, CmdRecord
    <3> QED BY <3>2 DEF CmdMoves, Executing
  <2>3. CASE ApproveStart(p)
    <3>1. cmd'[p].pc = "Approving"
      BY <1>0, <2>3 DEF ApproveStart, SetCmd, NoCmd
    <3> QED BY <3>1 DEF CmdMoves, Executing
  <2> QED BY <1>7, <2>1, <2>2, <2>3
<1>8. CASE GrantsStart(p)
  <2>1. cmd'[p].pc = "Granting" /\ cmd'[p].pair = Latest
    BY <1>0, <1>8 DEF GrantsStart, SetCmd, NoCmd
  <2> QED BY <2>1 DEF CmdMoves, AfterReplace
<1>9. CASE ExecuteStart(p)
  <2>1. PICK g : SetCmd(p, [NoCmd EXCEPT !.pc = "Started", !.pair = Latest, !.grant = g])
    BY <1>9 DEF ExecuteStart
  <2>2. cmd'[p].pc = "Started" /\ cmd'[p].pair = Latest
    BY <1>0, <2>1 DEF SetCmd, NoCmd
  <2> QED BY <2>2 DEF CmdMoves, AfterReplace
<1>10. CASE ExecuteLease(p)
  <2>1. /\ cmd'[p].pc = "Leased" /\ cmd'[p].pair = cmd[p].pair
        /\ cmd'[p].plan = cmd[p].plan /\ cmd'[p].graph = cmd[p].graph
        /\ cmd[p].pc = "Started"
    BY <1>0, <1>10 DEF ExecuteLease, SetCmd, CmdRecord
  <2> QED BY <2>1 DEF CmdMoves, Executing, AfterReplace, AfterGraph
<1>11. CASE ExecuteReadGraph(p)
  <2>1. /\ cmd'[p].pc = "Planned" /\ cmd'[p].pair = cmd[p].pair
        /\ cmd'[p].plan = cmd[p].plan /\ cmd'[p].graph = Latest
        /\ cmd[p].pc = "Replaced"
    BY <1>0, <1>11 DEF ExecuteReadGraph, SetCmd, CmdRecord
  <2> QED BY <2>1 DEF CmdMoves, Executing
<1>12. CASE Operate(p) \/ SettleOk(p)
  <2>1. /\ cmd'[p].pc = cmd[p].pc /\ cmd'[p].pair = cmd[p].pair
        /\ cmd'[p].plan = cmd[p].plan /\ cmd'[p].graph = cmd[p].graph
    BY <1>0, <1>12 DEF Operate, SettleOk, SetCmd, CmdRecord
  <2> QED BY <2>1 DEF CmdMoves
<1>13. CASE AfterCall(p)
  <2>1. \/ SetCmd(p, NoCmd)
        \/ \E pc \in {"Bound", "Disclosed"} : SetCmd(p, [cmd[p] EXCEPT !.pc = pc])
        \/ SetCmd(p, [cmd[p] EXCEPT !.pc = "Inspected"]) /\ cmd[p].pc = "Inspecting"
        \/ /\ SetCmd(p, [cmd[p] EXCEPT !.pc = "Replaced", !.plan = Latest])
           /\ cmd[p].pc = "Rechecked"
    BY <1>13 DEF AfterCall
  <2>2. CASE \E pc \in {"Bound", "Disclosed"} : SetCmd(p, [cmd[p] EXCEPT !.pc = pc])
    BY <1>0, <2>2 DEF SetCmd, CmdRecord, CmdMoves, Executing
  <2>3. CASE SetCmd(p, [cmd[p] EXCEPT !.pc = "Inspected"]) /\ cmd[p].pc = "Inspecting"
    BY <1>3, <2>3 DEF CmdPc, Executing, AfterReplace, AfterGraph
  <2>4. CASE /\ SetCmd(p, [cmd[p] EXCEPT !.pc = "Replaced", !.plan = Latest])
             /\ cmd[p].pc = "Rechecked"
    <3>1. /\ cmd'[p].pc = "Replaced" /\ cmd'[p].pair = cmd[p].pair
          /\ cmd'[p].plan = Latest
      BY <1>0, <2>4 DEF SetCmd, CmdRecord
    <3> QED BY <2>4, <3>1 DEF CmdMoves, Executing
  <2> QED BY <1>2, <2>1, <2>2, <2>3, <2>4
<1> QED BY <1>4, <1>5, <1>6, <1>7, <1>8, <1>9, <1>10, <1>11, <1>12, <1>13
     DEF Command, Fault

(* Only the end of a bootstrap freezes a pair, and only the end of an      *)
(* execution records a result                                              *)
LEMMA FreezeEnds ==
  ASSUME HarnessInv, NEW p \in Proc, Command(p) \/ Fault(p)
  PROVE  /\ UNCHANGED <<frozen, pairs>> \/ SetCmd(p, NoCmd)
         /\ result' = result \/ ExecuteComplete(p)
<1>1. CASE BootstrapFreeze(p) \/ ExecuteComplete(p)
  BY <1>1 DEF BootstrapFreeze, FreezePair, ExecuteComplete, EndCmd
<1>2. CASE \/ BrokerStep(p) \/ Operate(p) \/ MoveTarget(p) \/ SettleOk(p)
           \/ AfterCall(p) \/ OperateError(p) \/ ReplaceError(p) \/ CallFails(p)
  <2>1. Handshake(p) \/ Return(p)
    BY <1>2 DEF BrokerStep, Operate, MoveTarget, SettleOk, AfterCall, OperateError,
       ReplaceError, CallFails, Handshake
  <2>2. pairs' = pairs
    BY <1>2 DEF BrokerStep, Operate, MoveTarget, SettleOk, AfterCall, OperateError,
       ReplaceError, CallFails, NewTarget, Steady, hostVars
  <2> QED BY <2>1, <2>2, HandshakeLeaves
<1>3. CASE Crash(p)
  <2>1. EndProcess(p) => UNCHANGED <<frozen, result>>
    BY HandshakeLeaves
  <2> QED BY <1>3, <2>1 DEF Crash, vars, storeVars
<1>4. CASE \/ Rebind(p) \/ ApproveStart(p) \/ GrantsStart(p) \/ ExecuteStart(p)
           \/ ExecuteLease(p) \/ ExecuteReadGraph(p) \/ CheckTarget(p)
           \/ RecheckTarget(p) \/ TakeoverCommit(p) \/ CommandFails(p)
  BY <1>4 DEF Rebind, ApproveStart, GrantsStart, ExecuteStart, ExecuteLease,
     ExecuteReadGraph, CheckTarget, RecheckTarget, TakeoverCommit, CommandFails,
     Steady, vars, storeVars
<1>5. CASE \/ BootstrapStart(p) \/ BootstrapGrantDisclose(p) \/ ApproveCommit(p)
           \/ GrantReplace(p) \/ GrantInspect(p) \/ ExecuteCheckpoint(p)
           \/ ExecuteValidate(p)
  BY <1>5 DEF BootstrapStart, BootstrapGrantDisclose, ApproveCommit, GrantReplace,
     GrantInspect, ExecuteCheckpoint, ExecuteValidate, IssueGrant, ApprovePair,
     CheckpointRun, ValidateRun, Steady
<1>6. CASE \/ BootstrapRead(p) \/ BootstrapDisclose(p) \/ ExecuteReplace(p)
           \/ ExecuteInspect(p)
  BY <1>6 DEF BootstrapRead, BootstrapDisclose, ExecuteReplace, ExecuteInspect,
     CallBroker, Steady, storeVars
<1> QED BY <1>1, <1>2, <1>3, <1>4, <1>5, <1>6 DEF Command, Fault

LEMMA SoleStep ==
  ASSUME Alone, HarnessInv, SoleInv, [HarnessNext]_harnessVars
  PROVE  SoleInv'
<1>0. cmd \in [Proc -> CmdRecord] /\ RecordKept
  BY HostIsBrokerStep, BrokerKeeps DEF HarnessInv, HostTypeOK
<1>1. ASSUME result' = result
      PROVE  ResultIsConfirmed'
  BY <1>0, <1>1 DEF SoleInv, ResultIsConfirmed, RecordKept, Confirmed
<1>2. ASSUME NEW p \in Proc, Command(p) \/ Fault(p) PROVE SoleInv'
  <2>1. SoleKnows(p) /\ CmdMoves(p) /\ CmdKnows(p) /\ cmd[p] \in CmdRecord
    BY <1>0, <1>2, MovesOn DEF SoleInv, HarnessInv
  <2>2. SoleKnows(p)'
    <3>1. CASE SetCmd(p, NoCmd)
      BY <1>0, <3>1 DEF SetCmd, NoCmd, SoleKnows, Executing, AfterReplace, AfterGraph
    <3>2. CASE UNCHANGED <<frozen, pairs>>
      <4>1. Latest' = Latest
        BY <3>2 DEF Latest
      <4> HIDE DEF Latest
      <4> QED BY <2>1, <4>1 DEF SoleKnows, CmdMoves, Executing, AfterReplace, AfterGraph
    <3> QED BY <1>2, <3>1, <3>2, FreezeEnds
  <2>3. \A q \in Proc : SoleKnows(q)'
    BY <2>2 DEF Alone
  <2>4. ResultIsConfirmed'
    <3>1. CASE ExecuteComplete(p)
      <4>1. /\ cmd[p].pc = "Validated" /\ result' = cmd[p].plan
            /\ approved' = approved /\ effects' = effects
        BY <3>1 DEF ExecuteComplete, CompleteRun
      <4>2. /\ cmd[p].plan = cmd[p].pair /\ cmd[p].pair \in approved
            /\ Confirmed("CreateOrReplace", cmd[p].pair)
        BY <2>1, <4>1 DEF SoleKnows, CmdKnows, ExecuteKnows, Executing, AfterReplace
      <4> QED BY <4>1, <4>2 DEF ResultIsConfirmed, Confirmed
    <3> QED BY <1>1, <1>2, <3>1, FreezeEnds
  <2> QED BY <2>3, <2>4 DEF SoleInv
<1>3. ASSUME UNCHANGED <<frozen, pairs, result>>,
             cmd' = cmd \/ \E p \in Proc : TakeoverProbe(p)
      PROVE  SoleInv'
  <2>1. Latest' = Latest
    BY <1>3 DEF Latest
  <2> HIDE DEF Latest
  <2>2. CASE cmd' = cmd
    BY <1>1, <1>3, <2>1, <2>2 DEF SoleInv, SoleKnows
  <2>3. ASSUME NEW p \in Proc, TakeoverProbe(p) PROVE SoleInv'
    <3>1. cmd'[p].pc = "OwnerGone"
      BY <1>0, <2>3 DEF TakeoverProbe, SetCmd, NoCmd
    <3>2. \A q \in Proc : SoleKnows(q)'
      BY <3>1 DEF Alone, SoleKnows, Executing, AfterReplace, AfterGraph
    <3> QED BY <1>1, <1>3, <3>2 DEF SoleInv
  <2> QED BY <1>3, <2>2, <2>3
<1>4. CASE Environment
  <2>1. UNCHANGED <<frozen, pairs, result>>
    BY <1>4 DEF Environment, UserCommand, TakeoverProbe, EditTarget, ClockTick, Tick,
       PauseRun, CancelRun, RevokeGrant, Steady, hostVars, vars, storeVars
  <2>2. cmd' = cmd \/ \E p \in Proc : TakeoverProbe(p)
    BY <1>4 DEF Environment, UserCommand, EditTarget, ClockTick, hostVars
  <2> QED BY <1>3, <2>1, <2>2
<1>5. CASE UNCHANGED harnessVars
  BY <1>3, <1>5 DEF harnessVars, hostVars, vars, storeVars
<1> QED BY <1>2, <1>4, <1>5 DEF HarnessNext

(* harness.rs:1145: with one process the final result names the approved   *)
(* pair whose replacement is confirmed, and the graph that was validated   *)
(* belongs to the plan that was.  With more processes it need not, since   *)
(* the plan and the graph are read again after the replacement.            *)
THEOREM ResultNamed ==
  ASSUME Alone
  PROVE  HarnessSpec => []ResultIsTheReplacement
<1>1. HarnessInit => SoleInv
  <2> SUFFICES ASSUME HarnessInit PROVE SoleInv
    OBVIOUS
  <2>1. result = NoPair
    BY DEF HarnessInit, Init, StoreInit
  <2>2. \A p \in Proc : cmd[p].pc = "None"
    BY DEF HarnessInit, NoCmd
  <2> QED BY <2>1, <2>2 DEF SoleInv, ResultIsConfirmed, SoleKnows, Executing, AfterReplace,
       AfterGraph
<1>2. HarnessInv /\ SoleInv /\ [HarnessNext]_harnessVars => SoleInv'
  BY SoleStep
<1>3. SoleInv => ResultIsTheReplacement
  BY DEF SoleInv, ResultIsConfirmed, SoleKnows, ResultIsTheReplacement, AfterReplace,
     AfterGraph
<1> QED BY <1>1, <1>2, <1>3, HarnessInvariant, PTL DEF HarnessSpec
=============================================================================
