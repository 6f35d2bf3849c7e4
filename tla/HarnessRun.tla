------------------------------ MODULE HarnessRun ------------------------------
(***************************************************************************)
(* The host's Harness commands (apps/desktop/src-tauri/src/harness.rs) on  *)
(* one Run, composed with the broker handshake, the root lease and the     *)
(* target file (windows_fs.rs).                                            *)
(*                                                                         *)
(* A process runs its commands one at a time.  A command is a sequence of  *)
(* store calls and broker calls; between any two of them other processes   *)
(* run theirs, the user edits the target, time passes, or the process      *)
(* ends.  Every step of a command is a step of OperationBroker or leaves   *)
(* its variables alone, so what is proved there holds here.                *)
(*                                                                         *)
(* File contents are members of Content; the reviewed heading change is    *)
(* the function Review, defined on the contents that hold the one heading  *)
(* validate_bootstrap_proposal asks for.  Hashes are modelled by what they *)
(* hash.                                                                   *)
(***************************************************************************)
EXTENDS OperationBroker, RootLease

CONSTANTS
  Content,      \* what the target file may hold
  NoContent,    \* no file, or no preimage bound
  Review,       \* preimage -> its only acceptable postimage
  Target,       \* the scope of a grant on the relative target
  MaxIdent,     \* file identities (bound on replacements of the file)
  MaxCrash      \* times a process may end and be started again (bound)

ASSUME HarnessAssumption ==
  /\ DOMAIN Review \subseteq Content /\ NoContent \notin Content
  /\ \A c \in DOMAIN Review : Review[c] \in Content \ DOMAIN Review
  /\ Scope = Content \cup {Target} /\ Target \notin Content
  /\ MaxIdent \in Nat /\ MaxCrash \in Nat
  /\ Owner = Proc \X (0 .. MaxCrash)
  /\ Ops = Capability       \* the host's commands use all four

VARIABLES
  file,         \* the target: its content and its identity
  pairs,        \* what each frozen pair was frozen from, and when
  binding,      \* per process: HarnessState.bindings for this Run
  cmd,          \* per process: the command it is in
  instance,     \* per process: how many times it was started again
  validations   \* harness_validations: <<plan, passed>>

hostVars == <<file, pairs, binding, cmd, instance, validations, lease>>
harnessVars == <<vars, hostVars>>

Maybe  == Content \cup {NoContent}

NoBinding == [bound |-> FALSE, pre |-> NoContent, ident |-> 0]
NoCmd == [pc |-> "None", now |-> 0, pair |-> NoPair, plan |-> NoPair,
          graph |-> NoPair, grant |-> 0, content |-> NoContent, ident |-> 0]

(* The owner string of a process, and whether the process it names runs *)
owner(p) == <<p, instance[p]>>
Alive(o) == o = owner(o[1])

(* latest_plan_graph: plans are ordered by the time the bootstrap captured *)
(* at its start, then by id (time-ordered, so in order of insertion).      *)
Latest ==
  CHOOSE k \in frozen :
    \A j \in frozen \ {k} :
      pairs[j].at < pairs[k].at \/ (pairs[j].at = pairs[k].at /\ j < k)

(* Mutant: any frozen pair will do *)
IsApproved_Frozen(k) == k \in frozen

(* An approval record carries the approval hash of the pair *)
IsApproved(k) == k \in approved

(* The first grant of a capability that is neither revoked nor exhausted,  *)
(* in the order of issue; its expiry and its pair are not looked at.       *)
Candidates(cap) ==
  {g \in GrantId : grants[g].cap = cap /\ ~ grants[g].revoked
                   /\ grants[g].left > 0}
FirstGrant(cap) ==
  CHOOSE g \in Candidates(cap) :
    \A k \in Candidates(cap) \ {g} :
      grants[g].issued < grants[k].issued
        \/ (grants[g].issued = grants[k].issued /\ g < k)

SetCmd(p, c) == cmd' = [cmd EXCEPT ![p] = c]
EndCmd(p)    == SetCmd(p, NoCmd)

HarnessInit ==
  /\ Init /\ LeaseInit
  /\ \E c \in Content : file = [content |-> c, ident |-> 0]
  /\ pairs = [k \in PairId |-> [pre |-> NoContent, ident |-> 0, at |-> 0]]
  /\ binding = [p \in Proc |-> NoBinding]
  /\ cmd = [p \in Proc |-> NoCmd]
  /\ instance = [p \in Proc |-> 0]
  /\ validations = {}

---------------------------------------------------------------------------
(* create_harness_run_with_root and rebind_harness_run_root: a fresh       *)
(* binding without preimage or identity                                    *)
Rebind(p) ==
  /\ cmd[p].pc = "None" /\ file.content # NoContent
  /\ binding' = [binding EXCEPT ![p] = [NoBinding EXCEPT !.bound = TRUE]]
  /\ UNCHANGED <<vars, file, pairs, cmd, instance, validations, lease>>

(* A step of the command that calls one store use case *)
Steady == UNCHANGED <<file, pairs, binding, instance, validations, lease>>

(* bootstrap_harness_plan: issues the read grant ... *)
BootstrapStart(p) ==
  /\ cmd[p].pc = "None" /\ binding[p].bound
  /\ \E g \in GrantId :
       /\ IssueGrant(g, "LocalRead", Target, NoPair, clock)
       /\ SetCmd(p, [NoCmd EXCEPT !.pc = "ReadGranted", !.now = clock,
                                  !.grant = g])
  /\ UNCHANGED brokerVars /\ Steady

(* ... reads the target through the broker ... *)
BootstrapRead(p) ==
  /\ cmd[p].pc = "ReadGranted"
  /\ CallBroker(p, "LocalRead", cmd[p].grant, AsIssued(cmd[p].grant), Target,
                NoPair, cmd[p].now)
  /\ SetCmd(p, [cmd[p] EXCEPT !.pc = "Reading"])
  /\ Steady

(* ... issues the disclosure grant for the content it read ... *)
BootstrapGrantDisclose(p) ==
  /\ cmd[p].pc = "Bound"
  /\ \E g \in GrantId :
       /\ IssueGrant(g, "ProviderDisclose", cmd[p].content, NoPair,
                     cmd[p].now)
       /\ SetCmd(p, [cmd[p] EXCEPT !.pc = "DiscloseGranted", !.grant = g])
  /\ UNCHANGED brokerVars /\ Steady

(* ... discloses it ... *)
BootstrapDisclose(p) ==
  /\ cmd[p].pc = "DiscloseGranted"
  /\ CallBroker(p, "ProviderDisclose", cmd[p].grant, AsIssued(cmd[p].grant),
                cmd[p].content, NoPair, cmd[p].now)
  /\ SetCmd(p, [cmd[p] EXCEPT !.pc = "Disclosing"])
  /\ Steady

(* validate_bootstrap_proposal: the preimage holds the one heading, and    *)
(* the proposal changes that heading and nothing else                      *)
ProposalAccepted(pre) == pre \in DOMAIN Review

(* Mutant: the pair is frozen from the target as it is now *)
BootstrapFreeze_Current(p) ==
  /\ cmd[p].pc = "Disclosed" /\ file.content \in Content
  /\ \E k \in PairId :
       /\ FreezePair(k)
       /\ pairs' = [pairs EXCEPT ![k] =
                      [pre |-> file.content, ident |-> cmd[p].ident,
                       at |-> cmd[p].now]]
  /\ EndCmd(p)
  /\ UNCHANGED <<brokerVars, file, binding, instance, validations, lease>>

(* ... and freezes the pair, if the proposal is the one change allowed *)
BootstrapFreeze(p) ==
  /\ cmd[p].pc = "Disclosed" /\ ProposalAccepted(cmd[p].content)
  /\ \E k \in PairId :
       /\ FreezePair(k)
       /\ pairs' = [pairs EXCEPT ![k] =
                      [pre |-> cmd[p].content, ident |-> cmd[p].ident,
                       at |-> cmd[p].now]]
  /\ EndCmd(p)
  /\ UNCHANGED <<brokerVars, file, binding, instance, validations, lease>>

(* approve_harness_pair: reads the latest pair, then records its approval *)
ApproveStart(p) ==
  /\ cmd[p].pc = "None" /\ frozen # {}
  /\ SetCmd(p, [NoCmd EXCEPT !.pc = "Approving", !.pair = Latest])
  /\ UNCHANGED vars /\ Steady

ApproveCommit(p) ==
  /\ cmd[p].pc = "Approving"
  /\ ApprovePair(cmd[p].pair)
  /\ EndCmd(p)
  /\ UNCHANGED brokerVars /\ Steady

(* issue_harness_execution_grants: two grants, in two transactions *)
GrantsStart(p) ==
  /\ cmd[p].pc = "None" /\ frozen # {} /\ IsApproved(Latest)
  /\ SetCmd(p, [NoCmd EXCEPT !.pc = "Granting", !.pair = Latest,
                             !.now = clock])
  /\ UNCHANGED vars /\ Steady

GrantReplace(p) ==
  /\ cmd[p].pc = "Granting"
  /\ \E g \in GrantId :
       IssueGrant(g, "CreateOrReplace", pairs[cmd[p].pair].pre, cmd[p].pair,
                  cmd[p].now)
  /\ SetCmd(p, [cmd[p] EXCEPT !.pc = "Granting2"])
  /\ UNCHANGED brokerVars /\ Steady

GrantInspect(p) ==
  /\ cmd[p].pc = "Granting2"
  /\ \E g \in GrantId :
       IssueGrant(g, "NativeInspection", Target, cmd[p].pair, cmd[p].now)
  /\ EndCmd(p)
  /\ UNCHANGED brokerVars /\ Steady

---------------------------------------------------------------------------
(* execute_harness_run: refuses a Blocked Run and an unapproved latest     *)
(* pair, and picks the replacement grant ...                               *)
ExecuteStart(p) ==
  /\ cmd[p].pc = "None" /\ binding[p].bound
  /\ Derived # "Blocked"
  /\ frozen # {} /\ IsApproved(Latest)
  /\ SetCmd(p, [NoCmd EXCEPT
       !.pc = "Started", !.pair = Latest,
       !.grant = IF Candidates("CreateOrReplace") = {} THEN 0
                 ELSE FirstGrant("CreateOrReplace")])
  /\ UNCHANGED vars /\ Steady

(* ... captures the time and takes the lease, before it knows that it has  *)
(* a grant ...                                                             *)
ExecuteLease(p) ==
  /\ cmd[p].pc = "Started"
  /\ AcquireLease(owner(p), clock)
  /\ SetCmd(p, [cmd[p] EXCEPT !.pc = "Leased", !.now = clock])
  /\ UNCHANGED <<vars, file, pairs, binding, instance, validations>>

(* ... reloads the grant and calls the broker ... *)
ExecuteReplace(p) ==
  LET c == cmd[p] IN
    /\ c.pc = "Leased" /\ c.grant # 0 /\ binding[p].pre # NoContent
    /\ CallBroker(p, "CreateOrReplace", c.grant, grants[c.grant],
                  pairs[c.pair].pre, c.pair, c.now)
    /\ SetCmd(p, [c EXCEPT !.pc = "Replacing"])
    /\ Steady

(* Mutant: the first graph instead of the latest *)
ExecuteReadGraph_First(p) ==
  /\ cmd[p].pc = "Replaced"
  /\ SetCmd(p, [cmd[p] EXCEPT !.pc = "Planned", !.graph = 1])
  /\ UNCHANGED vars /\ Steady

(* ... reads the latest plan again (AfterCall) and then the latest graph   *)
ExecuteReadGraph(p) ==
  /\ cmd[p].pc = "Replaced"
  /\ SetCmd(p, [cmd[p] EXCEPT !.pc = "Planned", !.graph = Latest])
  /\ UNCHANGED vars /\ Steady

ExecuteCheckpoint(p) ==
  /\ cmd[p].pc = "Planned"
  /\ CheckpointRun
  /\ SetCmd(p, [cmd[p] EXCEPT !.pc = "Checkpointed"])
  /\ UNCHANGED brokerVars /\ Steady

ExecuteInspect(p) ==
  LET c == cmd[p] g == FirstGrant("NativeInspection") IN
    /\ c.pc = "Checkpointed" /\ Candidates("NativeInspection") # {}
    /\ CallBroker(p, "NativeInspection", g, grants[g], Target, c.pair, c.now)
    /\ SetCmd(p, [c EXCEPT !.pc = "Inspecting"])
    /\ Steady

(* validate_native_structural records whether the file is as approved *)
ExecuteValidate(p) ==
  LET c == cmd[p] IN
    /\ c.pc = "Inspected"
    /\ ValidateRun
    /\ validations' = validations \cup
         {<<c.plan, c.content = Review[pairs[c.plan].pre]>>}
    /\ SetCmd(p, [c EXCEPT !.pc = "Validated"])
    /\ UNCHANGED <<brokerVars, file, pairs, binding, instance, lease>>

(* complete_run follows whatever the validation said *)
ExecuteComplete(p) ==
  /\ cmd[p].pc = "Validated"
  /\ CompleteRun(cmd[p].plan)
  /\ EndCmd(p)
  /\ UNCHANGED brokerVars /\ Steady

---------------------------------------------------------------------------
(* The broker calls that a command is waiting for *)
Waiting == {"Reading", "Disclosing", "Replacing", "Checked", "Rechecked",
            "Inspecting"}

(* Store calls of the handshake *)
BrokerStep(p) ==
  /\ cmd[p].pc \in Waiting
  /\ \/ EnsureGrant(p) \/ Prepare(p) \/ Claim(p) \/ Consume(p)
     \/ ConsumeDenied(p) \/ Dispatch(p) \/ SettleError(p)
  /\ UNCHANGED hostVars

(* revalidate_harness_disclosure: the stored effect and grant are those of *)
(* this disclosure.  Revocation and expiry are not looked at again.        *)
Revalidated(p) ==
  LET e == effects[call[p].effect] g == call[p].grant IN
    /\ e.phase = "Dispatched" /\ e.grant = g /\ e.op = "ProviderDisclose"
    /\ grants[g].cap = "ProviderDisclose"
    /\ grants[g].scope = cmd[p].content

(* The disclosure, and the read or the inspection, which return what the   *)
(* target holds now                                                        *)
Operate(p) ==
  /\ \/ /\ cmd[p].pc = "Disclosing" /\ call[p].pc = "Dispatched"
        /\ Revalidated(p) /\ Perform(p)
        /\ UNCHANGED cmd
     \/ /\ cmd[p].pc \in {"Reading", "Inspecting"}
        /\ file.content # NoContent /\ Perform(p)
        /\ SetCmd(p, [cmd[p] EXCEPT !.content = file.content])
  /\ Steady

(* It fails: no file, no answer, or a disclosure that is not revalidated *)
OperateError(p) ==
  /\ cmd[p].pc \in {"Reading", "Disclosing", "Inspecting"}
  /\ PerformError(p)
  /\ UNCHANGED hostVars

(* exact_create_or_replace: identity and preimage as bound and as frozen   *)
AsExpected(p) ==
  /\ file.ident = binding[p].ident
  /\ file.content = pairs[cmd[p].pair].pre

CheckTarget(p) ==
  /\ cmd[p].pc = "Replacing" /\ call[p].pc = "Dispatched"
  /\ AsExpected(p)
  /\ SetCmd(p, [cmd[p] EXCEPT !.pc = "Checked"])
  /\ UNCHANGED vars /\ Steady

(* The second check, after the temporary file is written, is skipped when  *)
(* there is no target any more.                                            *)
RecheckTarget(p) ==
  /\ cmd[p].pc = "Checked" /\ call[p].pc = "Dispatched"
  /\ file.content = NoContent \/ AsExpected(p)
  /\ SetCmd(p, [cmd[p] EXCEPT !.pc = "Rechecked"])
  /\ UNCHANGED vars /\ Steady

(* MoveFileExW replaces whatever is there by then *)
NewTarget(p) ==
  /\ cmd[p].pc = "Rechecked" /\ call[p].pc = "Dispatched"
  /\ file.ident < MaxIdent
  /\ file' = [content |-> Review[pairs[cmd[p].pair].pre],
              ident |-> file.ident + 1]
  /\ UNCHANGED <<pairs, binding, cmd, instance, validations, lease>>

MoveTarget(p) == Perform(p) /\ NewTarget(p)

(* An error of the checks, of the temporary file or of the move, or of     *)
(* reading the new file's identity after the move                          *)
ReplaceError(p) ==
  /\ cmd[p].pc \in {"Replacing", "Checked", "Rechecked"}
  /\ PerformError(p)
  /\ IF performed'[call[p].effect] THEN NewTarget(p) ELSE UNCHANGED hostVars

(* Mutant: the effect is not settled *)
SettleOk_Unsettled(p) ==
  /\ cmd[p].pc \in Waiting /\ call[p].pc = "Performed"
  /\ Finish(p, "Done")
  /\ UNCHANGED <<storeVars, clock, performed, spentBy, hostVars>>

(* The identity of a file that was read is read after its content *)
SettleOk(p) ==
  /\ cmd[p].pc \in Waiting
  /\ cmd[p].pc = "Reading" => file.content # NoContent
  /\ SettleSuccess(p)
  /\ SetCmd(p, IF cmd[p].pc = "Reading"
               THEN [cmd[p] EXCEPT !.ident = file.ident] ELSE cmd[p])
  /\ Steady

(* The broker returns.  A failed call ends the command; a read updates the *)
(* binding; a replacement is followed by reading the latest plan again.    *)
AfterCall(p) ==
  LET c == cmd[p] ok == call[p].pc = "Done" IN
    /\ Return(p)
    /\ SetCmd(p,
         IF ~ ok THEN NoCmd
         ELSE IF c.pc = "Reading" THEN [c EXCEPT !.pc = "Bound"]
         ELSE IF c.pc = "Disclosing" THEN [c EXCEPT !.pc = "Disclosed"]
         ELSE IF c.pc = "Rechecked"
              THEN [c EXCEPT !.pc = "Replaced", !.plan = Latest]
         ELSE IF c.pc = "Inspecting" THEN [c EXCEPT !.pc = "Inspected"]
         ELSE NoCmd)
    /\ binding' = IF ok /\ c.pc = "Reading"
                  THEN [binding EXCEPT ![p] =
                          [@ EXCEPT !.pre = c.content, !.ident = c.ident]]
                  ELSE binding
    /\ UNCHANGED <<file, pairs, instance, validations, lease>>

(* A store call of the broker fails *)
CallFails(p) ==
  /\ cmd[p].pc \in Waiting /\ Fail(p)
  /\ UNCHANGED hostVars

(* A store call outside the broker fails, a guard refuses, a lease is held *)
CommandFails(p) ==
  /\ cmd[p].pc \notin Waiting \cup {"None"}
  /\ EndCmd(p)
  /\ UNCHANGED vars /\ Steady

---------------------------------------------------------------------------
(* pause_harness_run, cancel_harness_run, revoke_harness_grant *)
UserCommand(p) ==
  /\ cmd[p].pc = "None"
  /\ PauseRun \/ CancelRun \/ \E g \in GrantId : RevokeGrant(g)
  /\ UNCHANGED <<brokerVars, hostVars>>

(* takeover_harness_root_lease: the broker reads the lease and probes its  *)
(* owner, an absent lease counting as a gone owner ...                     *)
TakeoverProbe(p) ==
  /\ cmd[p].pc = "None"
  /\ ~ lease.held \/ ~ Alive(lease.owner)
  /\ SetCmd(p, [NoCmd EXCEPT !.pc = "OwnerGone", !.now = clock])
  /\ UNCHANGED vars /\ Steady

(* ... and takeover_root_lease reads the Run again, which may have another *)
(* lease by then                                                           *)
TakeoverCommit(p) ==
  /\ cmd[p].pc = "OwnerGone"
  /\ TakeoverLease(owner(p), TRUE, \E e \in EffectId : InDoubt(effects[e]),
                   cmd[p].now)
  /\ EndCmd(p)
  /\ UNCHANGED <<vars, file, pairs, binding, instance, validations>>

(* The process ends and is started again: the binding is lost *)
Crash(p) ==
  /\ instance[p] < MaxCrash
  /\ instance' = [instance EXCEPT ![p] = @ + 1]
  /\ EndCmd(p)
  /\ binding' = [binding EXCEPT ![p] = NoBinding]
  /\ EndProcess(p) \/ (call[p].pc = "Idle" /\ UNCHANGED vars)
  /\ UNCHANGED <<file, pairs, validations, lease>>

(* The user edits the target in place, replaces it or deletes it *)
EditTarget ==
  /\ \/ /\ file.content # NoContent
        /\ \E c \in Maybe \ {file.content} :
             file' = [file EXCEPT !.content = c]
     \/ /\ file.ident < MaxIdent
        /\ \E c \in Content :
             file' = [content |-> c, ident |-> file.ident + 1]
  /\ UNCHANGED <<vars, pairs, binding, cmd, instance, validations, lease>>

ClockTick == Tick /\ UNCHANGED hostVars

(* What a command does when nothing goes wrong *)
Command(p) ==
  \/ Rebind(p)
  \/ BootstrapStart(p) \/ BootstrapRead(p) \/ BootstrapGrantDisclose(p)
  \/ BootstrapDisclose(p) \/ BootstrapFreeze(p)
  \/ ApproveStart(p) \/ ApproveCommit(p)
  \/ GrantsStart(p) \/ GrantReplace(p) \/ GrantInspect(p)
  \/ ExecuteStart(p) \/ ExecuteLease(p) \/ ExecuteReplace(p)
  \/ ExecuteReadGraph(p) \/ ExecuteCheckpoint(p) \/ ExecuteInspect(p)
  \/ ExecuteValidate(p) \/ ExecuteComplete(p)
  \/ BrokerStep(p) \/ Operate(p)
  \/ CheckTarget(p) \/ RecheckTarget(p) \/ MoveTarget(p)
  \/ SettleOk(p) \/ AfterCall(p)
  \/ TakeoverCommit(p)

(* What can go wrong with it *)
Fault(p) ==
  OperateError(p) \/ ReplaceError(p) \/ CallFails(p) \/ CommandFails(p)
    \/ Crash(p)

(* What the user and the clock do meanwhile *)
Environment ==
  \/ \E p \in Proc : UserCommand(p) \/ TakeoverProbe(p)
  \/ EditTarget
  \/ ClockTick

HarnessNext ==
  \/ \E p \in Proc : Command(p) \/ Fault(p)
  \/ Environment

HarnessSpec == HarnessInit /\ [][HarnessNext]_harnessVars

---------------------------------------------------------------------------
(* Every step of a command is a step of the broker's specification, so the *)
(* theorems about the handshake hold of the host.                          *)
ImplementsBroker == Spec

(* An effect of this kind that is confirmed for the pair *)
Confirmed(op, k) ==
  \E e \in EffectId : /\ effects[e].op = op /\ effects[e].pair = k
                       /\ effects[e].certainty = "ConfirmedCommitted"

(* harness.rs:1095, 1034: the target is replaced only for a pair that was  *)
(* approved, under a grant for exactly its preimage and postimage, however *)
(* the bootstraps, approvals and grants of several processes interleave.   *)
ReplacementIsApproved ==
  \A e \in EffectId : performed[e] /\ effects[e].op = "CreateOrReplace" =>
    /\ effects[e].pair \in approved
    /\ grants[effects[e].grant].scope = pairs[effects[e].pair].pre

(* harness.rs:1075: a Run has a final result only after a replacement and  *)
(* an inspection of one approved pair were both confirmed.                 *)
CompletionIsEarned ==
  result # NoPair =>
    \E k \in approved : /\ Confirmed("CreateOrReplace", k)
                        /\ Confirmed("NativeInspection", k)

(* harness.rs:850: a pair is frozen only from content that was disclosed   *)
(* to the provider under a grant for that very content.                    *)
FrozenWasDisclosed ==
  \A k \in frozen :
    \E e \in EffectId : /\ effects[e].op = "ProviderDisclose"
                         /\ effects[e].certainty = "ConfirmedCommitted"
                         /\ grants[effects[e].grant].scope = pairs[k].pre

(* harness.rs:1145, with one process: the final result names an approved   *)
(* pair whose replacement is confirmed, and graph and plan are of one pair.*)
ResultIsTheReplacement ==
  /\ result # NoPair =>
       result \in approved /\ Confirmed("CreateOrReplace", result)
  /\ \A p \in Proc : cmd[p].pc = "Validated" => cmd[p].plan = cmd[p].graph

---------------------------------------------------------------------------
(* What the documentation and the comments say, and the code does not do.  *)

(* docs/architecture.md:252: while an effect's certainty is unknown the    *)
(* whole Run is Blocked.  A Run that was cancelled still executes, and its *)
(* unknown effects then leave it Cancelled (run.rs:934), free to execute   *)
(* again.                                                                  *)
UnknownBlocks ==
  (\E e \in EffectId : effects[e].certainty = "UnknownOrPartial")
    => Derived = "Blocked"

(* run.rs:515 "Terminal success with Final Work Result": a Run with a      *)
(* result has passed its protected validation.  execute_harness_run goes   *)
(* on to complete_run whatever the validation recorded.                    *)
CompletedMeansPassed == result # NoPair => <<result, TRUE>> \in validations

(* run_use_cases.rs:738 "Takes over a lease only when prior-owner absence  *)
(* and reconciliation are confirmed": no step changes an unexpired lease   *)
(* whose owner is alive.  The probe is of the owner that an earlier read   *)
(* found.                                                                  *)
LeaseIsRespected ==
  [][lease.held /\ ~ IsExpired(clock) /\ Alive(lease.owner)
       => lease' = lease]_harnessVars
=============================================================================
