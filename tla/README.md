# Tule: verification project

Tule is a desktop application (Tauri: a Rust host, a React interface, one
SQLite database) in which a user works with model providers and lets a
*Harness Run* change one file of a folder under explicit, single-use
capability grants. This directory holds TLA+ models of that program, TLC runs
that check them on small instances, and TLAPS proofs of nearly all of what the
runs check, for every value of the constants: the authority and the evidence of
a Run's effects, the host's commands on top of them, the Agent conversations,
and the credentials of the provider connection. What stays with TLC alone is
listed at the end of section 4.

`PROJECT.json` maps every definition to the source lines it stands for, lists
the hazards of the code and the property that covers each, and describes the
runs and theorems.

## 1. Inventory

| Component | Source | State | Operations | Hard behaviour | What makes it correct |
|---|---|---|---|---|---|
| Run policy | `crates/tule-core/src/run.rs`, `capability.rs` | none (pure) | derive the lifecycle, evaluate a grant, effect phases and certainty, reconcile, resume decision | the lifecycle is a fold of the log overridden by the journal | unknown effects are never shown as progress; certainty is never guessed |
| Run use cases | `crates/tule-core/src/run_use_cases.rs` | none of its own | create, freeze, approve, issue/revoke grant, prepare, claim, dispatch, settle, reconcile, checkpoint, validate, complete, pause, cancel, lease use cases | decide on what was read, commit later | read-decide-commit looks atomic |
| SQLite Run repository | `apps/desktop/src-tauri/src/sqlite/runs.rs` | Run, event, pair, approval, grant, effect, lease, validation, result tables | `reconstruct_run`, one transaction per use case | the read is several statements; budget consumption writes no event; writers and readers of each column are separate code | the sequence check turns a stale read into a refusal; a Run reads back as it was recorded |
| Operation broker | `apps/desktop/src-tauri/src/operation_broker.rs` | none between calls | local read, disclosure, replacement, inspection, takeover | six store calls around one effect, any may fail or be the last before the process ends; one claimant string for all processes | every effect is authorised, one per grant; the journal is truthful |
| Root lease | `run.rs` `RootLease`, lease use cases | one row per Run | acquire, take over (renew and release have no caller in the host) | expiry, a gone owner, evidence older than the lease | a live owner's lease is left alone |
| Host Harness commands | `apps/desktop/src-tauri/src/harness.rs` | folder bindings in memory | create/rebind, bootstrap, approve, grant, execute, pause, cancel, revoke, take over, detail | long commands over many transactions, two instances of the application, restarts | only approved replacements; only earned results |
| Windows file system | `windows_fs.rs` | the user's file | exact read, exact create-or-replace, owner probe | checks and the atomic move are apart; the user edits meanwhile | what is replaced is what was approved |
| Provider disclosure boundary | `provider.rs` and its Harness dispatch | none | revalidate, dispatch | revalidation reads again what the grant check read | only the granted content leaves |
| Agent sessions and turns | `crates/tule-core/src/agent*.rs`, `agents.rs` | sessions, turns, an operation gate, a cancellation slot | start, stream, cancel, complete, interrupt at start-up | streaming task against cancel, restart | exactly one outcome per turn; the gate is always released |
| xAI subscription adapter | `xai_subscription.rs`, `credentials.rs` | profile lock, connecting flag, cancel handle, tokens in the OS vault with a commit marker | connect by device code, refresh, disconnect, SSE stream | vault and database are written apart, refresh against disconnect | never a mix of two credentials |
| Provider model catalog | `provider_catalog.rs`, `provider.rs` | credential generations, sealed reads, rejected models, default selection | refresh, select, reject | an answer that belongs to an older credential | stale answers are discarded |
| Source drafts | `source_draft.rs`, `agent_source.rs` | scope, generation, handles | capture, bind, discard, send | a send races a scope change | a draft is bound to at most one turn |
| Artifacts | `artifact*.rs`, `sqlite/artifacts.rs` | rows | save a completed turn, list | copied without the operation gate | an Artifact is what the turn says for good |
| Projects | `project.rs`, `use_cases.rs`, `projects.rs` | rows | create, list, open, revise | none | plain persistence |
| SQLite store, migrations | `sqlite.rs`, `sqlite/` | schema version | open, migrate | serialised connection | linear migrations |
| Preferences, settings window | `preferences.rs`, `settings_window.rs` | one value | get, set | none | plain persistence |
| React interface | `apps/desktop/src` | view state | issues commands | may issue any command in any order | the host does not rely on it |

Interaction: the interface calls Tauri commands; the synchronous ones of one
process run one after the other. A command calls use cases and the broker. The
broker calls use cases around the operation itself. Use cases call the
repository port, whose SQLite implementation is the only durable state.
Nothing prevents a second instance of the application on the same database, so
the durable state is shared by processes that know nothing of each other. That
is why the store, the broker and the commands are modelled for several
processes. The commands of the Agent half are asynchronous: several are under
way in one process, kept apart by one operation gate, and each is a sequence of
separate repository calls.

## 2. Modules

```
RunPolicy            pure rules
   |        \
   |      RunRecords - RunEvidence     records, columns, and back again;
   |                                   RunEvidenceProofs
   |
RunStore             the record of one Run; every use case one atomic step
   |        \                                        RunStoreProofs
   |      RunStoreCAS      read - decide - commit;    RunStoreCASProofs
   |                       implements RunStore
   |
OperationBroker      the handshake, several           OperationBrokerProofs
   |                 processes; implements RunStore
   |
HarnessRun           the host's commands + RootLease  HarnessRunProofs
                     + the target file;
                     implements OperationBroker

AgentTurn            states, events, finalisation, drafts (pure)
   |
AgentHost            the Agent commands, one or       AgentHostProofs
                     more processes

Catalog              the stored catalog and its operations (pure)
   |
Credentials          connect, refresh, disconnect,    ServiceProofs
                     catalog fetch;
                     implements ProviderAccount

ProviderStream       decoding a streamed answer       ServiceProofs
SourceCapture        from a file, folder or link      ServiceProofs
                     to a stored Source

DataLemmas           lemmas about sets of numbers and about concatenations,
                     for the proofs
```

**RunPolicy** translates the pure functions. `derive_lifecycle` folds the
whole log on each call; the model keeps the fold (`life`) and advances it by
`FoldEvent`, which is the same function of the log. The part that looks at the
journal is `DeriveLifecycle`. `GrantAllows`, `SettleAllowed`,
`ReconciledCertainty` and `EvaluateResume` are the other rules.

**RunStore** has the tables as variables: `grants`, `effects`, `frozen`,
`approved`, `result`, plus the log as `life` and `cancelled`. One action per
use case, named after it. A refused use case leaves the record as it was, so
it is a step that is not taken. `RevokeGrant` is the one action whose effect
is not what one would write down first: the transaction writes back the
*remaining budget that was read*, and because consuming a budget appends no
event, the sequence check does not notice a consumption in between. The action
therefore may restore a spent budget. It cannot be used, because the grant is
revoked by the same write; the proof of `OneEffectPerGrant` has to argue this.

**RunStoreCAS** takes the use cases apart: `ReadLog` and `ReadRecords` are the
two halves of `reconstruct_run`, the `Commit...` actions the transactions. The
unconditional row update of `update_effect` (`UpdateEffect`) writes what was
read; only `assert_next_sequence` (in `Commit`) protects it. Its variables are
RunStore's, so the refinement is the identity and `ImplementsRunStore` is
RunStore's specification itself.

**RunRecords** has the values a Run is recorded with and their two encodings:
the canonical fields that hashes cover (`Field`, `Encode`, and what each
`hash_...` function puts in) and the tags and objects of the JSON columns. A
text is a sequence of words, so that a text can hold what the encoding itself
puts between two others. Each writer and each reader of the code keeps a table
of its own (`EventKindToParts`, `EventKindFromParts`, ...): a tag or a key
that one of them gets wrong is a difference between two definitions here as
well.

**RunEvidence** has all tables of one Run in `db`, and in `kept` the same
records as the use cases returned them. One action per use case builds its
record from what `reconstruct_run` reads back, never from `kept`, so an error
of a column travels on. `ResumeDecision` is the label shown for a Run that is
reopened without its folder. The order of rows in a table is left out (tables
are functions of ids), except for the log, whose order the hash chain covers.

**OperationBroker** has one action per store call of the handshake
(`EnsureGrant`, `Prepare`, `Claim`, `Consume`, `Dispatch`, `SettleSuccess`,
`SettleError`), the operation (`Perform`, `PerformError`) and `Fail`, which
stops a call anywhere; `EndProcess` is the end of its process, which takes the
call with it and leaves the record. The local variables of a call are its record in `call`;
in particular `seen`, the grant as the caller loaded it, which may be stale,
and `now`, the time the command captured. Two history variables, `performed`
(what happened in the world) and `spentBy` (which effect consumed a budget),
exist to state the properties and are never read by an action that models
code, except by the truthful probe of `Reconcile`. Callers are unrestricted:
any process, any grant, any request.

**RootLease** is the lease row and the two operations the host calls.

**HarnessRun** composes these with the target file. Each command is split at
its store and broker calls (`Bootstrap...`, `Approve...`, `Grant...`,
`Execute...`, `Takeover...`), with the locals that survive a call in `cmd`.
`CheckTarget`, `RecheckTarget` and `MoveTarget` are the steps of
`exact_create_or_replace`, between which the file may be edited. `Crash` loses
the binding, the command and the broker call it was in (`EndProcess`) and
changes the owner identity.

**AgentTurn** and **AgentHost**. A task is a Tauri command in progress; `pc`
names the repository call it makes next and `loc` holds what it has read so
far: the session, the history, the ordinal, the sequence number. Every such
call is a step, so anything may happen between `has_inflight_turn` and the
insertion, or between the reading of a session and its writing back. A task
ends through `Ends`, which is the `Drop` of both guards. `StoreFails` fails any
call; `ProcessEnds` loses gate, slot, drafts and tasks; `Start` is
`interrupt_inflight_turns`, in its listing, its reads and its one transaction.
A Source draft carries the composer scope of its capture. `SaveRead` and
`SaveWrite` copy a turn to an Artifact without the gate. The provider ends a
stream in any way the caller distinguishes; `revoked`, `assigned` and
`captured` are history.

**Catalog** and **Credentials**. The credential manager keeps three values,
each written by a call of its own; the handle in the provider profile (SQLite)
is the marker that they belong together; the catalog and its seal are SQLite
too. `Persist...` and `Remove...` are the calls of `persist_tokens` and
`remove_credentials_and_metadata` in order, `Undo...` their compensations,
each of which may fail (`Call`) or be the last before the process ends
(`ProcessRestarts`). `op` is the holder of `profile_lock` with its local
variables. A stored value is the account it was issued for, which is all that
the properties tell apart; `owner` is the account of the last committed
connect and `cut` records how a change of accounts was cut short.

**ProviderAccount** is what the user is promised of the connection: three
variables, the status, the account and the account on offer; it changes hands
only by a connect that was approved and not withdrawn. `ImplementsAccount`
shows `Credentials` to implement it, with the status read from the three
values, the marker and the flags as `connection_status_for_commit_marker` does.

**ProviderStream** cuts a response into events as bytes arrive. A line of
data is a symbol for what it decodes to, line endings are bytes of their own,
so fragments end inside them. `Whole` decodes the response at once and is the
reference. **SourceCapture** has the three captures, the framing of a folder
and the way back from the stored content; a file may hold what looks like the
header of a member.

Abstractions that are not visible in the definitions:

- one Run; Runs share no rows;
- a hash is modelled by what it hashes, file contents and the reviewed change
  by `Content` and the function `Review`;
- identifiers are numbered in order of insertion (the ids are time-ordered
  UUIDs);
- denials, attempts and lease events only append evidence to the log and leave
  the lifecycle alone, so they are no step of RunStore (they are of
  RunEvidence);
- the two selectors of a grant (resource and action scope) are one value;
- `reconcile_effect` has no caller in the host. It is an action of the broker
  module because the core offers it, and its probe is assumed to be truthful;
- a provider uses one way of ending lines in a whole response
  (`find_event_boundary` prefers CRLF CRLF anywhere over an earlier LF LF);
- the freshness of the catalog and its compatibility revision are one flag, and
  what a fetch yields is any set of models;
- an access token is fresh or not, whatever its expiry; the provider may accept
  or refuse it at any time.

## 3. Runs

| Run | Instance | Question | Result |
|---|---|---|---|
| `operation_broker` | 2 processes, 2 grants, 2 effects, 1 pair, 1 capability | Do authority and evidence survive any interleaving, failure or revocation? | holds; 3.3 million states |
| `run_store_cas` | 2 processes, 1 grant, 1 effect, 1 pair, 7 events; and one Run's tables, 5 to 7 events, 2 pairs | Does the sequence check make torn reads harmless? Does a Run read back as it was recorded? | holds; 0.86 million states |
| `harness_life` | 1 process, 7 grants, 7 effects, 2 pairs, 2 disturbances | Does a Run from creation to result keep its promises? | holds; 1.5 million states |
| `harness_hosts` | 2 processes from an approved and granted Run, 8 grants, 6 effects, 1 disturbance | Do they survive a second instance of the application? | holds; 3.7 million states |
| `harness_broker` | as `harness_life`, 1 disturbance | Is every command step a broker step? | holds; 57 thousand states |
| `agent_host` | 1 process, 2 commands at a time, 1 session, 2 turns, 1 draft, 1 Artifact, 1 fault | Does one process keep gate, history, Project, drafts and Artifacts right? | holds; 1.1 million states |
| `agent_hosts` | 2 processes started at any time, 1 session, 2 turns | Does a turn end once, in an ordered log, and does every send end? | holds; 96 thousand states |
| `services` | 2 accounts, 1 model, 1 failed call, 1 restart; responses of 3 events in fragments; folders of up to 3 entries and links with 2 redirects | Is what is connected, decoded and captured whole? | holds; 1.5 million states |
| `unknown_blocks`, `completed_passed`, `takeover_race`, `quarantine` | as the Harness runs; the account part of `services` | Does the code do what the quoted sentence says? | violated, see section 6 |

Properties, and what each would catch:

- `EveryEffectIsAuthorised`: nothing reaches the file or the provider without
  a durable dispatch under a grant for its capability and pair, whose budget
  was consumed for that effect.
- `OneEffectPerGrant`: two calls share a grant that both found valid; one gets
  through, also when a revocation restores the budget number.
- `CertaintyIsTruthful`: a confirmed certainty matches the world.
- `NoSilentEffect`: an effect that may have happened without a recorded
  certainty is never hidden behind a progressing or completed lifecycle.
- `CallsDoNotShareEffects`: the shared claimant string does not let two calls
  work on one effect.
- `RevocationIsFinal`: a durable revocation stops even a call that was allowed
  before it.
- `BlockedIsJustified`: the log alone says Blocked only while some effect is
  unknown, so reconciliation always unblocks.
- `JournalIsForwardOnly`: phases only advance, confirmed certainty is final.
- `BrokerInv`: the inductive invariant of section 4.
- `SnapshotIsCurrent`, `ImplementsRunStore`: whoever may still commit has read
  the current record; the split use cases implement the atomic ones.
- `EvidenceReloads`: the tables, read back, are the records that were made, and
  every checkpoint still verifies against its part of the log, policy included:
  a wrong tag, key, NULL or order anywhere makes a Run unreadable or different.
- `ApprovalNamesPlan`: the approval hash belongs to one plan, and a plan with
  other instructions, model or file would have another one.
- `ReplacementIsApproved`: a replacement belongs to an approved pair, under a
  grant for its very preimage, whichever process froze, approved or granted.
- `CompletionIsEarned`: a result needs a confirmed replacement and a confirmed
  inspection of one approved pair.
- `FrozenWasDisclosed`: a pair is frozen from disclosed content only.
- `ResultIsTheReplacement`: the result names the replaced pair. It holds for
  one process. With two, one process may freeze a newer pair while the other
  executes, and `execute_harness_run` reads the latest plan again after the
  replacement; the run with two processes therefore does not state it.
- `GateIsHeld`: no way out of a command, with an error or without, leaves the
  gate closed or the slot registered; never two commands under one gate.
- `OneInflightTurn`, `ContextIsComplete`, `ProjectIsKept`: what a use case read
  several calls ago is still so when it acts on it. They are stated for a
  process that has the database to itself: with two, nothing but the checks
  remains, and those can be passed by both.
- `DraftIsBound`: a draft is sent to the scope it was captured in and, while one
  process has the database to itself, reaches the provider in one turn at most.
  With a second process its start-up may interrupt a turn that was refused for
  its size before the command records the refusal; the draft is then sent again
  and neither turn says `context_limit`.
- `CancelIsHeeded`: an accepted cancellation wins over a completion that had
  arrived before it was acted on.
- `ArtifactIsExact`: what was saved without the gate is what the turn says for
  good.
- `OneTerminalEvent`, `TerminalIsFinal`, `LogIsOrdered`: with a second process
  that interrupts the turn being streamed.
- `SendEnds`, `TurnEnds`: a send always ends and frees its gate, and without a
  fault or a second process its turn is terminal then.
- `ConnectedIsWhole`: Connected means that the three values belong together and
  to the last account that was committed, whatever failed and wherever the
  process ended. The exception is `cut = "torn"`: the compensation after the
  commit writes the old values back while the marker is set, so a process that
  ends in the middle of it reports a mixture as Connected after its restart,
  until the next refresh or connect.
- `CatalogFollowsAccount`: the models shown were fetched for the stored
  account, unless a change of accounts was cut short by the end of the process
  or by a failed compensation.
- `ImplementsAccount`: in particular, an acknowledged cancellation never ends
  with the new account.
- `StreamIsWhole`: whatever the fragments, the events handed on are those of
  the whole response, and a success has exactly one completion, at the end.
- `SourceIsExact`: a folder is captured whole or refused, whatever its files
  hold; what was accepted converts and reloads; a link asks only addresses
  that were checked.
- `ImplementsBroker`: the commands are an instance of the broker's callers, so
  the theorems hold of the host.

Why the bounds are enough. The handshake needs two calls on one grant, a
revocation and a second grant to go wrong; two effects let the second call
reach every phase while the first is at any other. `MaxTime` is 0 in
`operation_broker`: expiry there is one more way to be refused, and time
passes in the Harness runs. In those, one successful life uses four grants and
four effects; seven of each allow a second bootstrap or a second execution
after a fault, and two pairs the change of the latest pair. A disturbance is a
fault, a restart, a tick, an edit of the file or an act of the user; two of
them let a fault meet a second fault, an edit, an expiry or an act of the user.
`harness_hosts` starts in a state that is reachable from `HarnessInit` (with one
store call of the second process failing after its read), because two complete
bootstraps beside each other would exhaust the state space before the
executions meet. Its eight grants and six effects let a second
pair be frozen, approved, granted and replaced, or be frozen while the first one
is replaced.

`run_store_cas` has two views of one Run that share no state: `processes`
interleaves two use cases in RunStoreCAS, and the tables of RunEvidence are
explored as `pairs` (pairs, approvals, grants, checkpoints, validations,
denials, results; 5 events), `journal` (effects from preparation to
reconciliation; 7 events) and `leases` (leases, revocation, pause and cancel;
6 events). Every kind of record, every event kind and every optional column is
reached in both its forms. The two texts of the instance are such that the one
holds exactly what the encoding puts between two of the other, which is what
an ambiguous encoding would confuse.

In `agent_host` two turns let a history exist while a turn is sent, and the two
commands at a time are a send and one that picks a Source or changes the
Project; one fault is a failed call or a restart. `agent_hosts` has no faults,
since its liveness excludes them; the second process may be started at every
point of the first one's send. `services` allows one failed call and one
restart; the account part was also explored with two of each (9.4 million
states), with the same result. A buffer of 8 lets a response of three events
exceed it. Among the texts of the instance two members of a folder
reach the 13 symbols of a Source exactly or exceed them by one.

`operation_broker` and `run_store_cas` use symmetry between processes, which
is sound for invariants and for the step properties they check. The
Harness, Agent and service models and `run_store_cas` end at their bounds
(grants, effects, events, turns, restarts), as a user may really stop at any
time, and do not check deadlock; `operation_broker` does.

Fairness. Only `agent_hosts` assumes any. `WF` of each task: the runtime polls a
task that is ready. `SF` of `StreamFails`: a provider may go on sending
without end, but the HTTP client gives a whole request 60 seconds
(`xai_subscription.rs`, `timeout(Duration::from_secs(60))`), so a stream that
is in progress again and again fails in the end. Nothing is assumed of the
user or of the start of a process. The Harness commands have no retries and no
background task, so that half makes no liveness promise.

## 4. Proofs

All theorems hold for any number of processes, commands, grants, effects,
pairs, events, texts, sessions, turns, drafts, accounts, models, failed calls
and restarts: whatever the configurations fix is a constant here.

| Module | Theorem | Statement |
|---|---|---|
| `RunStoreProofs` | `StoreInvariant` | `StoreSpec => []StoreInv` (types, the shape of the journal, `BlockedIsJustified`) |
| | `StoreJournalForward` | `StoreSpec => JournalIsForwardOnly` |
| `RunStoreCASProofs` | `CASInvariant`, `SnapshotCurrent` | `CASSpec => []CASInv`, `[]SnapshotIsCurrent` |
| | `CASImplementsStore` | `CASSpec => ImplementsRunStore` |
| | `CASKeepsJournal` | `CASSpec => []BlockedIsJustified /\ JournalIsForwardOnly` |
| `RunEvidenceProofs` | `EvidenceIsReloaded` | `EvidenceSpec => []EvidenceReloads` |
| | `ApprovalsNamePlans` | if `SymbolsAreDistinct`, `EvidenceSpec => []ApprovalNamesPlan` |
| `OperationBrokerProofs` | `BrokerInvariant`, `TypeCorrectness` | `Spec => []BrokerInv`, `[]TypeOK` |
| | `Authorisation` | `Spec => []EveryEffectIsAuthorised` |
| | `BudgetOfOne` | `Spec => []OneEffectPerGrant` |
| | `TruthfulJournal` | `Spec => []CertaintyIsTruthful` |
| | `SilenceIsVisible` | `Spec => []NoSilentEffect` |
| | `ExclusiveEffects` | `Spec => []CallsDoNotShareEffects` |
| | `RevocationHolds` | `Spec => RevocationIsFinal` |
| | `BrokerImplementsStore` | `Spec => StoreSpec` |
| | `BlockedHasReason`, `JournalForward` | `Spec => []BlockedIsJustified`, `JournalIsForwardOnly` |
| `HarnessRunProofs` | `HarnessInvariant` | `HarnessSpec => []HarnessInv` |
| | `HostImplementsBroker` | `HarnessSpec => ImplementsBroker` |
| | `ReplacementApproved`, `CompletionEarned`, `FrozenDisclosed` | `HarnessSpec =>` `[]ReplacementIsApproved`, `[]CompletionIsEarned`, `[]FrozenWasDisclosed` |
| | `ResultNamed` | with one process, `HarnessSpec => []ResultIsTheReplacement` |
| `AgentHostProofs` | `HostTypeCorrect`, `GateHeld` | `HostSpec => []HostTypeOK`, `[]GateIsHeld` |
| | `TerminalStays`, `TerminalEventOnce` | `HostSpec => TerminalIsFinal`, `[]OneTerminalEvent` |
| | `ArtifactExact` | `HostSpec => []ArtifactIsExact` |
| | `LogOrdered`, `CancelHeeded` | `HostSpec => []LogIsOrdered`, `[]CancelIsHeeded` |
| | `OneInflight`, `ContextComplete`, `ProjectKept` | `HostSpec =>` `[]OneInflightTurn`, `[]ContextIsComplete`, `[]ProjectIsKept` |
| | `DraftBound` | `HostSpec => []DraftIsBound` |
| `ServiceProofs` | `CredInvariant`, `CredTypeCorrect` | `CredSpec => []CredInv`, `[]CredTypeOK` |
| | `ConnectedWhole` | `CredSpec => []ConnectedIsWhole` |
| | `CatalogFollows` | `CredSpec => []CatalogFollowsAccount` |
| | `AccountImplemented` | `CredSpec => ImplementsAccount` |
| | `StreamWhole` | `StreamSpec => []StreamIsWhole` |
| | `SourceExact` | `CaptureSpec => []SourceIsExact` |

Assumptions, each named in the module that declares the constants and evaluated
by TLC in the runs: the bounds are natural numbers and the null values are none
of the real ones (`StoreAssumption`, `HostAssumption`, `CredentialsAssumption`,
`CatalogAssumption`, `LeaseAssumption`); the broker's operations are
capabilities and its claimant string is a claimant (`BrokerAssumption`,
`ClaimantAssumption`); the host uses all four capabilities, what it reviews is
content, a scope is a content or the target, an owner identity is a process and
its number of restarts (`HarnessAssumption`); every task belongs to a process
(`HostAssumption`); a text of a Run is words and never empty
(`EvidenceAssumption`: `bootstrap_harness_plan` refuses empty instructions and an
empty model); the data lines of a stream are among the kinds the decoder tells
apart (`StreamAssumption`); a text is of symbols, a Source may hold at least
one, and blocked addresses are addresses (`CaptureAssumption`).

`ApprovalsNamePlans` alone has a hypothesis, `SymbolsAreDistinct`, of what the
symbols of `RunRecords` stand for: different numbers are written differently and
different texts have different digests. The second half is that SHA-256 has no
collision; without it no statement about hashes holds. It is satisfiable:
`ToString` of TLC is such a function.

### The record and the broker

`StoreInv` adds to `BlockedIsJustified` that a certainty is exactly on settled
effects: otherwise a reconciliation could settle an effect the fold had not
seen. The same lemmas give the action property: each transaction is a quiet
step or moves one row forward.

In `RunStoreCAS` the whole weight is on `SnapshotIsCurrent`: while a process
may still commit, what it has read agrees with the record, budgets apart. To
be inductive it needs that no process has read a sequence number that is still
to come (`CASInv`), since an append makes every older snapshot unusable by
moving the number on. With it each `Commit...` action is the atomic use case of
`RunStore` on the current record, and the refinement is a case split.

The safety invariants of the broker say nothing of calls in progress.
`BrokerInv` adds

- `JournalShape`, as above, and a claimant exactly from the claim on;
- `CallKnows(p)`: what process `p` may rely on at each step although others
  change the record: its grant is issued with its capability and pair, its
  effect is in the phase its program counter implies, and from the consumption
  on the grant was spent by its effect;
- `BudgetIsExact`: a grant that was spent is exhausted or revoked. It must
  allow "revoked with a restored budget", since that is what a racing
  revocation leaves.

`OneEffectPerGrant` follows from `spentBy` being a function: both effects would
be `spentBy[g]`. `NoSilentEffect` follows because an authorised effect without
a certainty is dispatched, and therefore in doubt. `BrokerImplementsStore` needs
that the pair of a call is frozen (`CallPairsAreFrozen`).

### The evidence

`EvidenceInv` is `RecordsMatch` and `EventsMatch`: every row is what the
writers make of one whole record of its kind, and that record is the one kept.
It rests on three layers of lemmas.

- *Enumerations.* `TablesAreInverse`: a reader's table undoes a writer's if the
  two agree on the tag and the keys, and no key is used twice. It is applied to
  each event kind and each tagged column, which is where a misspelt tag or two
  fields under one key would fail.
- *Rows.* A record written and read again is itself, optional columns and NULL
  included; a transaction adds the rows and the one event it names and leaves
  every other row alone.
- *The log.* Events are numbered from 1 without gaps, so that sorting by number
  gives the log in its order (`BySequence`), and the chain a checkpoint holds
  is that of a part of the log that no later event changes.

`NamesInv` adds that each kept plan's hash is of that plan and the graph it
names, and that each approval copies a kept plan. That equal hashes mean equal
plans (`ApprovalHashNames`) is a statement about the canonical encoding: it is
a concatenation of blocks, each with the length of its content before the
content. Two equal concatenations have equal first lengths, hence equal first
blocks, and so on; `HashIsInjective` says so for any number of fields and any
texts in them, those included that hold what the encoding itself puts between
two fields. This is an induction over the number of blocks. The library's
induction rule takes an operator, which the provers cannot instantiate; the
proof takes the least block at which the two differ instead (`LeastExists` of
`DataLemmas`), and the beginnings of a concatenation as a function of their
number (`Chain`).

### The host's commands

`HarnessInv` is `BrokerInv` and `StoreInv` with what each command knows at each
step (`BootstrapKnows`, `ExecuteKnows`): which content was disclosed, that its
pair is approved, that its replacement or inspection is confirmed once the
broker call is over; and that a grant to replace is for an approved pair and
its preimage (`ReplaceGrantsAreBound`). A step of the host is first shown to be
a step of the broker (`HostIsBrokerStep`); then the record only grows
(`RecordKept`), so that what the other processes know stays true, and each
action is left with its own command. `ResultNamed` assumes a single process
(`Alone`) and adds that the latest pair is the one the execution started with.

### The Agent commands

`HostTypes` has the types of the rows and of a task's local variables;
`GateInv` says who holds the gate and the slot of a process; `DeltaInv` that
what a delta is about to write is the state of a turn in flight; `SavedInv` that
what is saved, or was read to be saved, is the row of a completed turn;
`ListedOnce` that the start-up lists a turn once. `OwnInv` gives every turn to
the one command that inserted it. On these rest:

- the log (`LogInv`): numbers are distinct and without gaps, and a command that
  will use a number it has read is not ahead of the log, so that number is the
  next one or is already taken and the write refused; the start-up numbers the
  turns it interrupts consecutively, which is what `RanksAreAnInterval` of
  `DataLemmas` is for;
- the cancellation (`CancelInv`): a cancelled turn keeps its token until its
  command ends, and no command is about to complete it;
- with one process, what a command has read is still so (`SoleInv`): no turn
  was in flight, the completed history and the Project are those it read;
- the drafts (`DraftInv`): handles are those given out, with the scope of their
  capture; a turn's draft was captured where the turn is; with one process a
  stored draft is in no turn but those refused for their size.

### The credentials

`CredInv` says, for each step of storing, removing and undoing, what it knows of
the three values: those not yet written are those of the snapshot, those
written are of the new account, those put back are of the snapshot again
(`Snapshots`, `Written`, `Queued`); who is the owner before and after the commit
(`Owners`); that a refresh runs under the marker with the owner's account, so it
changes no account unless a torn compensation came before (`Refreshes`); that
the values under the marker are the owner's outside a compensation after the
commit (`Intact`); and that the catalog is that of the stored account or, while a
change is under the seal, of the snapshot's (`Followed`, `Phases`). Every
operation ends in a state of `Rest`, from which the invariant follows for the
next one; the end of the process anywhere leads there too (`BrokenRests`), with
`cut` telling which of the two exceptions is needed. For `ImplementsAccount` a
step is apart from any connect (`Lose`, `Resume` or nothing the account can
see), within one (`Approve`, `Withdraw`) or its end (`Settle`), and `Owners` says
that the account at the end is the one before or the one on offer.

### The stream

`StreamIsWhole` compares the program with `Decode` of the whole response, a loop.
`StreamInv` says that the program is where that loop is after some number of
turns: the bytes not yet decoded (the buffer and what has not arrived, `Ahead`),
the state and the events are those of that turn. A fragment that arrives leaves
`Ahead` as it is, and an event emitted is one turn. Two things have to be known
for that.

- *A boundary that is found stays found* (`BoundaryStays`, `CuttingIsLocal`): what
  follows in later fragments does not move the first event boundary in the
  buffer. `find_event_boundary` looks for CRLF CRLF before LF LF anywhere, so
  this is false of arbitrary bytes: a later CRLF CRLF would win over an earlier
  LF LF. It holds where one response has one kind of line ending (`OneEnding`),
  which is proved of everything a server's `Encode` makes and of all its suffixes.
- *The loop ends.* Every turn takes a byte or is the last one, so one turn more
  than there are bytes is enough, and turns after the end change nothing; events
  are only ever added (`TurnsGrow`), so what was handed on is the beginning of what
  the whole response gives.

### The source

`CaptureInv` says what has been collected at each step: while a folder is read its
members are exactly the files that count among the entries looked at, with
different names (`Wanted`); a draft, and the Source made of it, is within the
limit and is the frame of all of them (`Sendable`); a draft that was there
before stays unless the capture succeeds. On top of it are facts about framing.

- *Order.* The names of n members have the ranks 0 to n - 1, so `Ordered` is
  defined, has the same members, and depends only on which members there are
  (`OrderedIs`, `OrderedAlike`): the order of `read_dir` does not matter, and
  ordering twice is ordering once.
- *Parsing undoes framing* (`ParsingUndoesFraming`), for members with any
  bodies, those included that hold what looks like a header: after k turns
  `parse_folder_draft_members` has the first k members and stands at the end of
  the k-th block, because the length in a header says where the next one begins.
  Every block is at least four symbols long, so the loop has turns enough.

### What the proofs found

- A command that ended with its process left its broker call "Failed" in an
  earlier form of `HarnessRun`, where it could end the process's next command;
  the invariant of the commands was not inductive. In the program the call is a
  stack frame and goes with the process: `Crash` now takes `EndProcess`.
- `DraftIsBound` was first stated for any number of processes. Its second part
  is not inductive then, and TLC shows why with two (section 3).

### Only model-checked

- `SendEnds` and `TurnEnds`: liveness under fairness is out of the prover's
  reach.
- The four violations, which are counterexamples.

## 5. Hazards

The list is in `PROJECT.json`, each hazard with the property that covers it.
Three have none: the choice of a grant that shadows a fresh one (safe, and a
matter of the user's retries), the time a command captured at its start, and
the window between the last check of the file and its move, which the platform
does not let the program close.

## 6. Disagreements between the code and what is said of it

1. `unknown_blocks`. `docs/architecture.md` says unknown or partial certainty
   blocks the whole Run. `derive_lifecycle` returns Cancelled first, and
   `execute_harness_run` refuses only a Blocked Run, so a cancelled Run with
   a grant executes, and an unknown effect then leaves it Cancelled.
2. `completed_passed`. Completed is described as terminal success;
   `execute_harness_run` completes the Run whatever the validation recorded.
3. `takeover_race`. A takeover applies the evidence that one owner is gone to
   whatever lease a second read finds, which may be the new lease of a live
   process.
4. `quarantine`. `docs/architecture.md` says that the quarantine hides the
   catalog until invalidation commits or the original state is restored,
   including across process restart. When the process ends between the commit
   of a new account and the invalidation, the seal and the old account's rows
   stay; a later disconnect or connect that fails and is undone clears the
   seal, which was not its own, and the old rows are shown under the new
   account.

Remarks, seen while modelling and not stated as properties:

- "Confirmed replacement must not be redispatched" (`run.rs`,
  `ResumeDecision`) is a label of the detail response; `execute_harness_run`
  does not consult it, and what keeps a replacement from being dispatched again
  is the budget of its grant.
- The approval hash is stored and compared, never computed again on reload.
- A seal that a crash left behind stays until a disconnect or a change of
  accounts; until then the catalog is hidden.
- While tokens are rotated the status is `reconnect_required` for a moment,
  because the marker is cleared first.
- A refresh that is itself cancelled returns an error whose code is
  `cancelled`; the turn then ends failed, not cancelled.
- `validate_new_session_model` and `persist_model_selection` read the snapshot
  without looking at the seal.

## 7. Not modelled, and plan

Left out of the modelled components: the renewal of a lease (no caller), path
normalisation and reparse-point checks (they decide which file is the target),
URL syntax, request bodies and the JSON of provider answers (their outcomes
are nondeterministic choices), the filter of usable models, titles, listings
and the mapping to response types.

Not modelled: Projects, preferences and migrations (single statements on single
rows; AgentHost takes a session's Project as a value), the React interface (its
commands in any order are the user's acts), the settings window.

Further work is a statement of what two processes still guarantee where
`OneInflightTurn`, `ContextIsComplete`, `ProjectIsKept` and
`ResultIsTheReplacement` are given for one.
