----------------------------- MODULE AgentHost -----------------------------
(***************************************************************************)
(* The Agent half of the desktop: the commands of agents.rs, the use cases *)
(* of agent_use_cases.rs they call, and the tables of sqlite/agents.rs.    *)
(*                                                                         *)
(* A process holds one operation gate, one cancellation slot and the draft *)
(* store; its commands are tasks of an asynchronous runtime, so several    *)
(* are in progress at once.  Processes share only the database.  A step is *)
(* one call on the repository: the use cases read the turn, the session    *)
(* and the next sequence number in separate statements and then write in   *)
(* one transaction, and anything may happen between two of these calls.    *)
(* A command that is refused before it changes anything is a stuttering    *)
(* step.  The provider, the credentials and the file picker are external:  *)
(* each answers in any of the ways the caller distinguishes.               *)
(***************************************************************************)
EXTENDS AgentTurn

CONSTANTS
  Proc, Task, ProcOf,     \* processes, command tasks, the process of a task
  Project, NoProject,
  MaxSessions, MaxTurns,  \* rows (bounds)
  MaxText,                \* MAX_AGENT_OUTPUT_UTF8
  MaxDrafts, MaxScopes,   \* drafts captured, new-session scopes (bounds)
  MaxEvents,              \* events of a session when its Project changes (bound)
  MaxArtifacts,           \* Artifacts saved (bound)
  MaxFaults               \* failed store calls and ended processes (bound)

ASSUME HostAssumption ==
  /\ ProcOf \in [Task -> Proc]
  /\ NoProject \notin Project
  /\ MaxSessions \in Nat /\ MaxTurns \in Nat /\ MaxText \in Nat
  /\ MaxDrafts \in Nat /\ MaxScopes \in Nat /\ MaxEvents \in Nat
  /\ MaxArtifacts \in Nat /\ MaxFaults \in Nat

VARIABLES
  sessions,   \* agent_sessions: existence and current Project
  turns,      \* agent_turns
  events,     \* agent_events
  artifacts,  \* artifacts and their only version
  boot,       \* per process: new (never started), starting, up, down
  listed,     \* per process: the in-flight turns its start-up has read
  gate,       \* per process: OperationGate.active
  slot,       \* per process: the registered (turn, task), or None
  drafts,     \* per process: SourceDraftStore
  saving,     \* per process: the turn a create_artifact_from_turn has read
  pc, loc,    \* per task: where it is and its local variables
  token,      \* per task: its CancellationToken is cancelled
  nextDraft,  \* the next random draft handle
  assigned,   \* history: the Project last chosen for a session
  captured,   \* history: the scope in which a draft was captured
  revoked,    \* history: turns cancelled before the end of their stream was acted on
  faults

durable  == <<sessions, turns, events>>
process  == <<boot, listed, gate, slot, drafts>>
history  == <<assigned, captured, revoked>>
library  == <<artifacts, saving>>
hostVars == <<durable, library, process, pc, loc, token, nextDraft, history, faults>>

SessionId == 1 .. MaxSessions
TurnId    == 1 .. MaxTurns
Handle    == 1 .. MaxDrafts
AnyProject == Project \cup {NoProject}

PreparePC == {"inflight", "session", "history", "ordinal", "sequence", "append"}
DeltaPC   == {"delta", "deltaSeq", "deltaWrite"}
FinishPC  == {"finTurn", "finSession", "finSeq", "finWrite"}
ProjectPC == {"pjSession", "pjSeq", "pjWrite"}
StorePC   == PreparePC \cup DeltaPC \cup FinishPC \cup ProjectPC
SendPC    == PreparePC \cup DeltaPC \cup FinishPC \cup
             {"assemble", "refresh", "stream", "finalize", "recover"}
PC        == SendPC \cup ProjectPC \cup {"idle", "pick"}

(* The local variables of a command: what it was asked, what it has read,  *)
(* the result of the stream, the state it is about to write and where the  *)
(* use case that writes it returns to.                                     *)
Blank == [session |-> None, project |-> NoProject, draft |-> None,
          seen |-> NoProject, past |-> {}, ordinal |-> 0, sequence |-> 0,
          turn |-> None, state |-> "absent", text |-> 0, delta |-> 0,
          first |-> FALSE,
          result |-> "ok", completed |-> FALSE, already |-> FALSE,
          goal |-> "failed", code |-> "none", return |-> "end"]

AbsentTurn == [session |-> None, ordinal |-> 0, state |-> "absent", text |-> 0,
               code |-> "none", project |-> NoProject, source |-> None]

HostInit ==
  /\ sessions = [s \in SessionId |-> [live |-> FALSE, project |-> NoProject]]
  /\ turns = [t \in TurnId |-> AbsentTurn]
  /\ events = {}
  /\ artifacts = {}
  /\ saving = [p \in Proc |-> {}]
  /\ boot = [p \in Proc |-> "new"]
  /\ listed = [p \in Proc |-> {}]
  /\ gate = [p \in Proc |-> FALSE]
  /\ slot = [p \in Proc |-> None]
  /\ drafts = [p \in Proc |-> EmptyDrafts]
  /\ pc = [k \in Task |-> "idle"]
  /\ loc = [k \in Task |-> Blank]
  /\ token = [k \in Task |-> FALSE]
  /\ nextDraft = 1
  /\ assigned = [s \in SessionId |-> NoProject]
  /\ captured = [h \in Handle |-> NewSessionScope(0)]
  /\ revoked = {}
  /\ faults = 0

-----------------------------------------------------------------------------
(* The repository.                                                         *)

Inflight(t)      == turns[t].state \in InflightState
HasInflightTurn  == \E t \in TurnId : Inflight(t)

EventsOf(s) == {e \in events : e.session = s}

(* MAX(sequence) + 1, or 0; and MAX(ordinal) + 1, or 0.                    *)
NextEventSequence(s) ==
  IF EventsOf(s) = {} THEN 0
  ELSE 1 + (CHOOSE n \in {e.sequence : e \in EventsOf(s)} :
              \A e \in EventsOf(s) : e.sequence <= n)

NextTurnOrdinal(s) ==
  LET Used == {turns[t].ordinal : t \in {u \in TurnId : turns[u].session = s}}
  IN  IF Used = {} THEN 0 ELSE 1 + (CHOOSE n \in Used : \A m \in Used : m <= n)

Event(s, t, n, kind) == [session |-> s, turn |-> t, sequence |-> n, kind |-> kind]

(* UNIQUE (session_id, sequence) on agent_events.                          *)
X_SequenceIsFree(s, n) == TRUE

SequenceIsFree(s, n) == \A e \in EventsOf(s) : e.sequence # n

OrdinalIsFree(s, n) == \A t \in TurnId : turns[t].session = s => turns[t].ordinal # n

(* update_inflight_turn: UPDATE ... WHERE id AND state in flight must hit  *)
(* one row, otherwise the transaction is rolled back.                      *)
(* Mutant: the statement of update_turn, without the state.                *)
X_CanUpdateInflight(t) == TRUE

CanUpdateInflight(t) == Inflight(t)

-----------------------------------------------------------------------------
(* The gate.  Dropping the guard of a send first clears the slot.          *)

Idle(k) == pc[k] = "idle" /\ boot[ProcOf[k]] = "up"

(* try_operation: compare_exchange on OperationGate.active.                *)
TryOperation(k) ==
  /\ Idle(k) /\ ~gate[ProcOf[k]]
  /\ gate' = [gate EXCEPT ![ProcOf[k]] = TRUE]

(* Mutant: the slot is left for the next command.                          *)
X_Ends(k) ==
  /\ pc' = [pc EXCEPT ![k] = "idle"]
  /\ loc' = [loc EXCEPT ![k] = Blank]
  /\ gate' = [gate EXCEPT ![ProcOf[k]] = FALSE]
  /\ token' = [token EXCEPT ![k] = FALSE]
  /\ UNCHANGED slot

Ends(k) ==
  /\ pc' = [pc EXCEPT ![k] = "idle"]
  /\ loc' = [loc EXCEPT ![k] = Blank]
  /\ gate' = [gate EXCEPT ![ProcOf[k]] = FALSE]
  /\ slot' = [slot EXCEPT ![ProcOf[k]] = IF pc[k] \in SendPC THEN None ELSE @]
  /\ token' = [token EXCEPT ![k] = FALSE]

Goes(k, next) == pc' = [pc EXCEPT ![k] = next] /\ UNCHANGED <<gate, slot, token>>

-----------------------------------------------------------------------------
(* send_agent_message, up to the insertion of the pending turn.            *)

(* Bound: a send starts only while there is a free row for it.             *)
RoomFor(s) ==
  LET Preparing == {k \in Task : pc[k] \in PreparePC} IN
  /\ Cardinality(Preparing) < Cardinality({t \in TurnId : turns[t].state = "absent"})
  /\ s = None => Cardinality({k \in Preparing : loc[k].session = None})
                   < Cardinality({r \in SessionId : ~sessions[r].live})

SendBegin(k) ==
  \E s \in {None} \cup SessionId, pr \in AnyProject, h \in {None} \cup Handle :
    /\ RoomFor(s)
    /\ s # None => sessions[s].live
    /\ h # None => ResolvesForSend(drafts[ProcOf[k]], h, s)
    /\ TryOperation(k)
    /\ pc' = [pc EXCEPT ![k] = "inflight"]
    /\ loc' = [loc EXCEPT ![k] = [Blank EXCEPT !.session = s, !.project = pr, !.draft = h]]
    /\ UNCHANGED <<library, durable, boot, listed, slot, drafts, token, nextDraft, history, faults>>

(* Mutant: the gate is taken to be enough.                                 *)
X_ReadInflight(k) ==
  /\ pc[k] = "inflight"
  /\ Goes(k, IF loc[k].session = None THEN "append" ELSE "session")
  /\ UNCHANGED <<library, durable, boot, listed, drafts, loc, nextDraft, history, faults>>

ReadInflight(k) ==
  /\ pc[k] = "inflight"
  /\ IF HasInflightTurn THEN Ends(k)
     ELSE /\ Goes(k, IF loc[k].session = None THEN "append" ELSE "session")
          /\ UNCHANGED loc
  /\ UNCHANGED <<library, durable, boot, listed, drafts, nextDraft, history, faults>>

ReadSession(k) ==
  /\ pc[k] = "session"
  /\ LET s == loc[k].session IN
     IF sessions[s].project # loc[k].project THEN Ends(k)
     ELSE /\ Goes(k, "history")
          /\ loc' = [loc EXCEPT ![k].seen = sessions[s].project]
  /\ UNCHANGED <<library, durable, boot, listed, drafts, nextDraft, history, faults>>

(* The history may not fit in the context: the send is then refused.       *)
(* Mutant: every turn of the session is sent, whatever became of it.       *)
X_ReadHistory(k) ==
  /\ pc[k] = "history"
  /\ Goes(k, "ordinal")
  /\ loc' = [loc EXCEPT ![k].past = {t \in TurnId : turns[t].session = loc[k].session}]
  /\ UNCHANGED <<library, durable, boot, listed, drafts, nextDraft, history, faults>>

ReadHistory(k) ==
  /\ pc[k] = "history"
  /\ \/ Ends(k)
     \/ /\ Goes(k, "ordinal")
        /\ loc' = [loc EXCEPT ![k].past = CompletedHistory(turns, loc[k].session)]
  /\ UNCHANGED <<library, durable, boot, listed, drafts, nextDraft, history, faults>>

ReadOrdinal(k) ==
  /\ pc[k] = "ordinal"
  /\ Goes(k, "sequence")
  /\ loc' = [loc EXCEPT ![k].ordinal = NextTurnOrdinal(loc[k].session)]
  /\ UNCHANGED <<library, durable, boot, listed, drafts, nextDraft, history, faults>>

ReadSequence(k) ==
  /\ pc[k] = "sequence"
  /\ Goes(k, "append")
  /\ loc' = [loc EXCEPT ![k].sequence = NextEventSequence(loc[k].session)]
  /\ UNCHANGED <<library, durable, boot, listed, drafts, nextDraft, history, faults>>

PendingTurn(k, s) ==
  [session |-> s, ordinal |-> loc[k].ordinal, state |-> "pending", text |-> 0,
   code |-> "none", project |-> loc[k].project, source |-> loc[k].draft]

(* create_session_with_first_turn: session, turn, Source and two events.   *)
CreateSession(k) ==
  /\ pc[k] = "append" /\ loc[k].session = None
  /\ \E s \in SessionId, t \in TurnId :
       /\ ~sessions[s].live /\ \A r \in 1 .. s - 1 : sessions[r].live
       /\ turns[t].state = "absent" /\ \A u \in 1 .. t - 1 : turns[u].state # "absent"
       /\ sessions' = [sessions EXCEPT ![s] = [live |-> TRUE, project |-> loc[k].project]]
       /\ turns' = [turns EXCEPT ![t] = PendingTurn(k, s)]
       /\ events' = events \cup {Event(s, None, 0, "session_created"),
                                 Event(s, t, 1, "turn_pending")}
       /\ assigned' = [assigned EXCEPT ![s] = loc[k].project]
       /\ loc' = [loc EXCEPT ![k].session = s, ![k].turn = t]
  /\ Goes(k, "assemble")
  /\ UNCHANGED <<library, boot, listed, drafts, nextDraft, captured, revoked, faults>>

(* append_turn_with_pending_event: writes the session back as it was read. *)
AppendTurn(k) ==
  LET s == loc[k].session IN
  /\ pc[k] = "append" /\ s # None
  /\ IF OrdinalIsFree(s, loc[k].ordinal) /\ SequenceIsFree(s, loc[k].sequence)
     THEN /\ \E t \in TurnId :
               /\ turns[t].state = "absent" /\ \A u \in 1 .. t - 1 : turns[u].state # "absent"
               /\ turns' = [turns EXCEPT ![t] = PendingTurn(k, s)]
               /\ events' = events \cup {Event(s, t, loc[k].sequence, "turn_pending")}
               /\ loc' = [loc EXCEPT ![k].turn = t]
          /\ sessions' = [sessions EXCEPT ![s].project = loc[k].seen]
          /\ Goes(k, "assemble")
     ELSE Ends(k) /\ UNCHANGED durable
  /\ UNCHANGED <<library, boot, listed, drafts, nextDraft, history, faults>>
-----------------------------------------------------------------------------
(* send_agent_message, from the inserted turn to its end.                  *)

Finishes(k, goal, code, return) ==
  /\ pc' = [pc EXCEPT ![k] = "finTurn"]
  /\ loc' = [loc EXCEPT ![k].goal = goal, ![k].code = code, ![k].return = return]

(* The request does not fit once it is encoded: the turn is failed, the    *)
(* draft and the scope stay.  Otherwise the draft is used up, the composer *)
(* is bound to the session, the token is registered and Started is sent.   *)
(* Mutant: the command returns without failing the turn it inserted.       *)
X_SendStart(k) ==
  LET p == ProcOf[k] IN
  /\ pc[k] = "assemble"
  /\ \/ Ends(k) /\ UNCHANGED drafts
     \/ /\ drafts' = [drafts EXCEPT ![p] =
                         BindSessionScope(ClearHandle(@, loc[k].draft), loc[k].session)]
        /\ slot' = [slot EXCEPT ![p] = loc[k].turn]
        /\ token' = [token EXCEPT ![k] = FALSE]
        /\ pc' = [pc EXCEPT ![k] = "refresh"] /\ UNCHANGED <<loc, gate>>
  /\ UNCHANGED <<library, durable, boot, listed, nextDraft, history, faults>>

SendStart(k) ==
  LET p == ProcOf[k] IN
  /\ pc[k] = "assemble"
  /\ \/ /\ Finishes(k, "failed", "context_limit", "end")
        /\ UNCHANGED <<drafts, slot, token>>
     \/ /\ drafts' = [drafts EXCEPT ![p] =
                         BindSessionScope(ClearHandle(@, loc[k].draft), loc[k].session)]
        /\ slot' = [slot EXCEPT ![p] = loc[k].turn]
        /\ token' = [token EXCEPT ![k] = FALSE]
        /\ \/ pc' = [pc EXCEPT ![k] = "refresh"] /\ UNCHANGED loc
           \/ Finishes(k, "failed", "provider_unavailable", "end")
  /\ UNCHANGED <<library, durable, boot, listed, gate, nextDraft, history, faults>>

(* refresh_or_cancel.  The refresh future watches the same token, so it    *)
(* may be the one that reports the cancellation: the turn is then failed.  *)
Refresh(k) ==
  /\ pc[k] = "refresh"
  /\ \/ token[k] /\ Finishes(k, "cancelled", "cancelled", "end")
     \/ ~token[k] /\ pc' = [pc EXCEPT ![k] = "stream"] /\ UNCHANGED loc
     \/ Finishes(k, "failed", "provider_unavailable", "end")
     \/ token[k] /\ Finishes(k, "failed", "cancelled", "end")
  /\ UNCHANGED <<library, durable, process, token, nextDraft, history, faults>>

StreamEnds(k, result) ==
  /\ pc' = [pc EXCEPT ![k] = "finalize"]
  /\ loc' = [loc EXCEPT ![k].result = result]

(* The stream looks at the token before every event it hands on, so a      *)
(* cancellation after that look does not stop the event.                   *)
StreamCancelled(k) ==
  /\ pc[k] = "stream" /\ token[k]
  /\ StreamEnds(k, "cancelled")
  /\ UNCHANGED <<library, durable, process, token, nextDraft, history, faults>>

StreamDelta(k) ==
  /\ pc[k] = "stream" /\ ~token[k]
  /\ pc' = [pc EXCEPT ![k] = "delta"]
  /\ \E d \in {0, 1} : loc' = [loc EXCEPT ![k].delta = d]
  /\ UNCHANGED <<library, durable, process, token, nextDraft, history, faults>>

StreamCompleted(k) ==
  /\ pc[k] = "stream" /\ ~token[k]
  /\ pc' = [pc EXCEPT ![k] = "finalize"]
  /\ loc' = [loc EXCEPT ![k].result = "ok", ![k].completed = TRUE]
  /\ UNCHANGED <<library, durable, process, token, nextDraft, history, faults>>

(* An error of the provider, a malformed stream, or the client's timeout.  *)
(* Mutant: a client without a timeout and a provider that goes on.         *)
X_StreamFails(k) == FALSE /\ UNCHANGED hostVars

StreamFails(k) ==
  /\ pc[k] = "stream"
  /\ \E e \in ProviderError : StreamEnds(k, e)
  /\ UNCHANGED <<library, durable, process, token, nextDraft, history, faults>>

(* apply_agent_delta: the turn as read decides; only the first non-empty   *)
(* delta of a pending turn brings a streaming event.                       *)
(* Mutant: the text grows without a limit.                                 *)
X_DeltaReadTurn(k) ==
  LET row == turns[loc[k].turn]  first == row.state = "pending" /\ loc[k].delta > 0 IN
  /\ pc[k] = "delta"
  /\ IF row.state \notin InflightState THEN StreamEnds(k, "agent_storage_unavailable")
     ELSE /\ pc' = [pc EXCEPT ![k] = IF first THEN "deltaSeq" ELSE "deltaWrite"]
          /\ loc' = [loc EXCEPT ![k].text = row.text + loc[k].delta, ![k].first = first,
                                ![k].state = IF first THEN "streaming" ELSE row.state]
  /\ UNCHANGED <<library, durable, process, token, nextDraft, history, faults>>

DeltaReadTurn(k) ==
  LET row == turns[loc[k].turn] IN
  /\ pc[k] = "delta"
  /\ CASE row.state \notin InflightState -> StreamEnds(k, "agent_storage_unavailable")
       [] row.state \in InflightState /\ row.text + loc[k].delta > MaxText ->
            /\ pc' = [pc EXCEPT ![k] = "finSession"]
            /\ loc' = [loc EXCEPT ![k].goal = "failed", ![k].code = "output_limit",
                                  ![k].return = "delta", ![k].text = row.text]
       [] OTHER ->
            LET first == row.state = "pending" /\ loc[k].delta > 0 IN
            /\ pc' = [pc EXCEPT ![k] = IF first THEN "deltaSeq" ELSE "deltaWrite"]
            /\ loc' = [loc EXCEPT ![k].text = row.text + loc[k].delta,
                                  ![k].state = IF first THEN "streaming" ELSE row.state,
                                  ![k].first = first]
  /\ UNCHANGED <<library, durable, process, token, nextDraft, history, faults>>

DeltaReadSequence(k) ==
  /\ pc[k] = "deltaSeq"
  /\ pc' = [pc EXCEPT ![k] = "deltaWrite"]
  /\ loc' = [loc EXCEPT ![k].sequence = NextEventSequence(loc[k].session)]
  /\ UNCHANGED <<library, durable, process, token, nextDraft, history, faults>>

(* checkpoint_turn, then the Delta on the channel, which may be closed.    *)
DeltaWrite(k) ==
  LET s == loc[k].session  t == loc[k].turn  first == loc[k].first IN
  /\ pc[k] = "deltaWrite"
  /\ IF CanUpdateInflight(t) /\ (first => SequenceIsFree(s, loc[k].sequence))
     THEN /\ turns' = [turns EXCEPT ![t].text = loc[k].text, ![t].state = loc[k].state]
          /\ events' = events \cup
               (IF first THEN {Event(s, t, loc[k].sequence, "turn_streaming")} ELSE {})
          /\ \/ pc' = [pc EXCEPT ![k] = "stream"] /\ UNCHANGED loc
             \/ StreamEnds(k, "provider_unavailable")
     ELSE StreamEnds(k, "agent_storage_unavailable") /\ UNCHANGED <<turns, events>>
  /\ UNCHANGED <<library, sessions, process, token, nextDraft, history, faults>>

(* finalize_stream_result: a turn that the output limit has already failed *)
(* is returned as it is; the token is read here.                           *)
(* Mutant: the cancellation is only heeded when the stream reported it.    *)
X_Finalize(k) ==
  /\ pc[k] = "finalize"
  /\ IF loc[k].already THEN Ends(k)
     ELSE LET f == Finalization(loc[k].result, loc[k].completed, FALSE)
          IN  Finishes(k, f.goal, f.code, "end") /\ UNCHANGED <<gate, slot, token>>
  /\ UNCHANGED <<library, durable, boot, listed, drafts, nextDraft, history, faults>>

Finalize(k) ==
  /\ pc[k] = "finalize"
  /\ IF loc[k].already THEN Ends(k)
     ELSE LET f == Finalization(loc[k].result, loc[k].completed, token[k])
          IN  Finishes(k, f.goal, f.code, "end") /\ UNCHANGED <<gate, slot, token>>
  /\ UNCHANGED <<library, durable, boot, listed, drafts, nextDraft, history, faults>>

(* Where complete, cancel and fail return to: into the delta callback when *)
(* the output limit called them, otherwise out of the command, after the   *)
(* recovery of the catalog if the provider rejected the model.             *)
FinishReturns(k, ok) ==
  CASE loc[k].return = "delta" ->
         /\ pc' = [pc EXCEPT ![k] = "finalize"]
         /\ loc' = [loc EXCEPT ![k].already = ok,
                     ![k].result = IF ok THEN "output_limit" ELSE "agent_storage_unavailable"]
         /\ UNCHANGED <<gate, slot, token>>
    [] loc[k].return # "delta" /\ ok /\ loc[k].result = "model_unavailable" ->
         Goes(k, "recover") /\ UNCHANGED loc
    [] OTHER -> Ends(k)

(* find_turn and AgentTurn's transition, then persist_terminal.            *)
FinishReadTurn(k) ==
  /\ pc[k] = "finTurn"
  /\ LET row == turns[loc[k].turn] IN
     IF CanTransition(row.state, loc[k].goal)
     THEN Goes(k, "finSession") /\ loc' = [loc EXCEPT ![k].text = row.text]
     ELSE FinishReturns(k, FALSE)
  /\ UNCHANGED <<library, durable, boot, listed, drafts, nextDraft, history, faults>>

FinishReadSession(k) ==
  /\ pc[k] = "finSession"
  /\ Goes(k, "finSeq")
  /\ loc' = [loc EXCEPT ![k].seen = sessions[loc[k].session].project]
  /\ UNCHANGED <<library, durable, boot, listed, drafts, nextDraft, history, faults>>

FinishReadSequence(k) ==
  /\ pc[k] = "finSeq"
  /\ Goes(k, "finWrite")
  /\ loc' = [loc EXCEPT ![k].sequence = NextEventSequence(loc[k].session)]
  /\ UNCHANGED <<library, durable, boot, listed, drafts, nextDraft, history, faults>>

(* finish_turn_with_terminal_event.                                        *)
FinishWrite(k) ==
  LET s == loc[k].session  t == loc[k].turn IN
  /\ pc[k] = "finWrite"
  /\ IF CanUpdateInflight(t) /\ SequenceIsFree(s, loc[k].sequence)
     THEN /\ sessions' = [sessions EXCEPT ![s].project = loc[k].seen]
          /\ turns' = [turns EXCEPT ![t].state = loc[k].goal, ![t].text = loc[k].text,
                                    ![t].code = CodeFor(loc[k].goal, loc[k].code)]
          /\ events' = events \cup
               {Event(s, t, loc[k].sequence, ForTerminalState(loc[k].goal))}
          /\ FinishReturns(k, TRUE)
     ELSE UNCHANGED durable /\ FinishReturns(k, FALSE)
  /\ UNCHANGED <<library, boot, listed, drafts, nextDraft, history, faults>>

(* recover_after_model_rejection (module Catalog), still under the gate.   *)
Recover(k) ==
  /\ pc[k] = "recover"
  /\ Ends(k)
  /\ UNCHANGED <<library, durable, boot, listed, drafts, nextDraft, history, faults>>

-----------------------------------------------------------------------------
(* The other commands.                                                     *)

(* cancel_agent_turn takes no gate: it cancels the token in the slot.      *)
CancelAgentTurn(p) ==
  /\ slot[p] # None
  /\ \E k \in Task :
       /\ ProcOf[k] = p /\ loc[k].turn = slot[p] /\ ~token[k]
       /\ token' = [token EXCEPT ![k] = TRUE]
       /\ revoked' = revoked \cup
            (IF pc[k] \in {"refresh", "stream", "finalize"} \cup DeltaPC THEN {slot[p]} ELSE {})
  /\ UNCHANGED <<library, durable, process, pc, loc, nextDraft, assigned, captured, faults>>

(* set_agent_session_project and set_session_project.                      *)
(* Mutant: the command does not take the gate.                             *)
X_SetProjectBegin(k) ==
  \E s \in SessionId, pr \in AnyProject :
    /\ Idle(k) /\ sessions[s].live /\ Cardinality(EventsOf(s)) < MaxEvents
    /\ pc' = [pc EXCEPT ![k] = "pjSession"]
    /\ loc' = [loc EXCEPT ![k] = [Blank EXCEPT !.session = s, !.project = pr]]
    /\ UNCHANGED <<library, durable, process, token, nextDraft, history, faults>>

SetProjectBegin(k) ==
  \E s \in SessionId, pr \in AnyProject :
    /\ sessions[s].live /\ Cardinality(EventsOf(s)) < MaxEvents
    /\ TryOperation(k)
    /\ pc' = [pc EXCEPT ![k] = "pjSession"]
    /\ loc' = [loc EXCEPT ![k] = [Blank EXCEPT !.session = s, !.project = pr]]
    /\ UNCHANGED <<library, durable, boot, listed, slot, drafts, token, nextDraft, history, faults>>

SetProjectReadSession(k) ==
  /\ pc[k] = "pjSession"
  /\ Goes(k, "pjSeq")
  /\ UNCHANGED <<library, durable, boot, listed, drafts, loc, nextDraft, history, faults>>

SetProjectReadSequence(k) ==
  /\ pc[k] = "pjSeq"
  /\ Goes(k, "pjWrite")
  /\ loc' = [loc EXCEPT ![k].sequence = NextEventSequence(loc[k].session)]
  /\ UNCHANGED <<library, durable, boot, listed, drafts, nextDraft, history, faults>>

SetProjectWrite(k) ==
  LET s == loc[k].session IN
  /\ pc[k] = "pjWrite"
  /\ IF SequenceIsFree(s, loc[k].sequence)
     THEN /\ sessions' = [sessions EXCEPT ![s].project = loc[k].project]
          /\ events' = events \cup
               {Event(s, None, loc[k].sequence, "project_association_changed")}
          /\ assigned' = [assigned EXCEPT ![s] = loc[k].project]
     ELSE UNCHANGED <<sessions, events, assigned>>
  /\ Ends(k)
  /\ UNCHANGED <<library, turns, boot, listed, drafts, nextDraft, captured, revoked, faults>>

(* pick_agent_text_source, pick_agent_text_folder_source and               *)
(* attach_agent_text_link_source hold the gate while the dialog is open or *)
(* the link is fetched; module SourceCapture has what they accept.         *)
PickBegin(k) ==
  /\ nextDraft \in Handle
  /\ TryOperation(k)
  /\ pc' = [pc EXCEPT ![k] = "pick"]
  /\ UNCHANGED <<library, durable, boot, listed, slot, drafts, loc, token, nextDraft, history, faults>>

PickEnd(k) ==
  LET p == ProcOf[k] IN
  /\ pc[k] = "pick"
  /\ \/ UNCHANGED <<drafts, nextDraft, captured>>     \* dismissed or unusable
     \/ /\ nextDraft \in Handle
        /\ drafts' = [drafts EXCEPT ![p] = ReplaceWith(@, nextDraft)]
        /\ captured' = [captured EXCEPT ![nextDraft] = drafts[p].scope]
        /\ nextDraft' = nextDraft + 1
  /\ Ends(k)
  /\ UNCHANGED <<library, durable, boot, listed, assigned, revoked, faults>>

(* clear_agent_text_source_draft: one handle, or all of them.              *)
ClearDraft(p) ==
  /\ boot[p] = "up" /\ ~gate[p] /\ drafts[p].drafts # {}
  /\ \/ \E h \in Handle : drafts' = [drafts EXCEPT ![p] = ClearHandle(@, h)]
     \/ drafts' = [drafts EXCEPT ![p] = ClearAll(@)]
  /\ UNCHANGED <<library, durable, boot, listed, gate, slot, pc, loc, token, nextDraft, history, faults>>

(* set_agent_source_draft_scope.  The session need not exist.              *)
SetScope(p) ==
  /\ boot[p] = "up" /\ ~gate[p]
  /\ \/ /\ drafts[p].next < MaxScopes
        /\ drafts' = [drafts EXCEPT ![p] = BeginNewSessionScope(@)]
     \/ \E s \in SessionId : drafts' = [drafts EXCEPT ![p] = BindSessionScope(@, s)]
  /\ UNCHANGED <<library, durable, boot, listed, gate, slot, pc, loc, token, nextDraft, history, faults>>

(* create_artifact_from_turn takes no gate.  The body and the provenance   *)
(* come from the row of the turn, read before the Artifact is inserted.    *)
(* Mutant: any turn with text will do.                                     *)
X_CanBeSaved(row) == row.text > 0

CanBeSaved(row) == row.state = "completed" /\ row.text > 0

SaveRead(p) ==
  /\ boot[p] = "up" /\ saving[p] = {} /\ Cardinality(artifacts) < MaxArtifacts
  /\ \E t \in TurnId : CanBeSaved(turns[t]) /\ saving' = [saving EXCEPT ![p] =
       {[turn |-> t, session |-> turns[t].session, text |-> turns[t].text,
         project |-> turns[t].project]}]
  /\ UNCHANGED <<durable, artifacts, process, pc, loc, token, nextDraft, history, faults>>

(* create_artifact_with_first_version: both rows in one transaction.       *)
SaveWrite(p) ==
  /\ saving[p] # {} /\ saving' = [saving EXCEPT ![p] = {}]
  /\ \E ok \in BOOLEAN :
       /\ IF ok THEN UNCHANGED faults ELSE faults < MaxFaults /\ faults' = faults + 1
       /\ artifacts' = IF ok THEN artifacts \cup saving[p] ELSE artifacts
  /\ UNCHANGED <<durable, process, pc, loc, token, nextDraft, history>>

(* list_artifacts_for_session_context: those of the session's turns and    *)
(* those of the Project given.                                             *)
ListArtifacts(s, pr) ==
  {a \in artifacts : a.session = s \/ (pr # NoProject /\ a.project = pr)}

-----------------------------------------------------------------------------
(* Faults: a call on the repository fails, or a process ends.              *)

StoreFails(k) ==
  /\ pc[k] \in StorePC /\ faults < MaxFaults
  /\ CASE pc[k] \in PreparePC \cup ProjectPC -> Ends(k)
       [] pc[k] \in DeltaPC  -> StreamEnds(k, "agent_storage_unavailable")
                               /\ UNCHANGED <<gate, slot, token>>
       [] OTHER              -> FinishReturns(k, FALSE)
  /\ faults' = faults + 1
  /\ UNCHANGED <<library, durable, boot, listed, drafts, nextDraft, history>>

ProcessEnds(p) ==
  /\ boot[p] \notin {"new", "down"} /\ faults < MaxFaults
  /\ boot' = [boot EXCEPT ![p] = "down"]
  /\ listed' = [listed EXCEPT ![p] = {}]
  /\ gate' = [gate EXCEPT ![p] = FALSE]
  /\ slot' = [slot EXCEPT ![p] = None]
  /\ drafts' = [drafts EXCEPT ![p] = EmptyDrafts]
  /\ pc' = [k \in Task |-> IF ProcOf[k] = p THEN "idle" ELSE pc[k]]
  /\ loc' = [k \in Task |-> IF ProcOf[k] = p THEN Blank ELSE loc[k]]
  /\ token' = [k \in Task |-> IF ProcOf[k] = p THEN FALSE ELSE token[k]]
  /\ saving' = [saving EXCEPT ![p] = {}]
  /\ faults' = faults + 1
  /\ UNCHANGED <<durable, artifacts, nextDraft, history>>

-----------------------------------------------------------------------------
(* Start-up: interrupt_inflight_turns.  The turns are listed, then their   *)
(* sessions and sequence numbers are read, then all are written in one     *)
(* transaction; when it fails the process does not start.                  *)

(* list_inflight_turns: the rows as read, in the order they were started.  *)
BootList(p) ==
  /\ boot[p] \in {"new", "down"}
  /\ boot' = [boot EXCEPT ![p] = "listing"]
  /\ listed' = [listed EXCEPT ![p] =
       {[turn |-> t, session |-> turns[t].session, text |-> turns[t].text,
         seen |-> NoProject, sequence |-> 0] : t \in {u \in TurnId : Inflight(u)}}]
  /\ UNCHANGED <<library, durable, gate, slot, drafts, pc, loc, token, nextDraft, history, faults>>

(* The turns of one session get consecutive numbers.                       *)
BootRead(p) ==
  LET Before(r) == {q \in listed[p] : q.session = r.session /\ q.turn < r.turn} IN
  /\ boot[p] = "listing"
  /\ boot' = [boot EXCEPT ![p] = "writing"]
  /\ listed' = [listed EXCEPT ![p] =
       {[r EXCEPT !.seen = sessions[r.session].project,
                  !.sequence = NextEventSequence(r.session) + Cardinality(Before(r))]
          : r \in listed[p]}]
  /\ UNCHANGED <<library, durable, gate, slot, drafts, pc, loc, token, nextDraft, history, faults>>

(* Mutant: the rows are updated whatever has become of them.               *)
X_BootWrite(p) ==
  /\ boot[p] = "writing"
  /\ turns' = [t \in TurnId |->
       IF \E r \in listed[p] : r.turn = t
       THEN [turns[t] EXCEPT !.state = "interrupted", !.code = "interrupted"] ELSE turns[t]]
  /\ events' = events \cup
       {Event(r.session, r.turn, NextEventSequence(r.session), "turn_interrupted") : r \in listed[p]}
  /\ boot' = [boot EXCEPT ![p] = "up"]
  /\ listed' = [listed EXCEPT ![p] = {}]
  /\ UNCHANGED <<library, sessions, gate, slot, drafts, pc, loc, token, nextDraft, history, faults>>

BootWrite(p) ==
  /\ boot[p] = "writing"
  /\ IF \A r \in listed[p] : CanUpdateInflight(r.turn) /\ SequenceIsFree(r.session, r.sequence)
     THEN /\ turns' = [t \in TurnId |->
               IF \E r \in listed[p] : r.turn = t
               THEN [turns[t] EXCEPT !.state = "interrupted", !.code = "interrupted",
                       !.text = (CHOOSE r \in listed[p] : r.turn = t).text]
               ELSE turns[t]]
          /\ sessions' = [s \in SessionId |->
               IF \E r \in listed[p] : r.session = s
               THEN [sessions[s] EXCEPT !.project = (CHOOSE r \in listed[p] : r.session = s).seen]
               ELSE sessions[s]]
          /\ events' = events \cup
               {Event(r.session, r.turn, r.sequence, "turn_interrupted") : r \in listed[p]}
          /\ boot' = [boot EXCEPT ![p] = "up"]
     ELSE UNCHANGED durable /\ boot' = [boot EXCEPT ![p] = "down"]
  /\ listed' = [listed EXCEPT ![p] = {}]
  /\ UNCHANGED <<library, gate, slot, drafts, pc, loc, token, nextDraft, history, faults>>

-----------------------------------------------------------------------------
(* The steps a task takes by itself once its command has begun, except the *)
(* user's: closing a file dialog.                                          *)
TaskStep(k) ==
  \/ ReadInflight(k) \/ ReadSession(k) \/ ReadHistory(k) \/ ReadOrdinal(k)
  \/ ReadSequence(k) \/ CreateSession(k) \/ AppendTurn(k) \/ SendStart(k)
  \/ Refresh(k) \/ StreamCancelled(k) \/ StreamDelta(k) \/ StreamCompleted(k)
  \/ StreamFails(k) \/ DeltaReadTurn(k) \/ DeltaReadSequence(k) \/ DeltaWrite(k)
  \/ Finalize(k) \/ FinishReadTurn(k) \/ FinishReadSession(k)
  \/ FinishReadSequence(k) \/ FinishWrite(k) \/ Recover(k)
  \/ SetProjectReadSession(k) \/ SetProjectReadSequence(k) \/ SetProjectWrite(k)

Command(k) == SendBegin(k) \/ SetProjectBegin(k) \/ PickBegin(k) \/ PickEnd(k)

Start(p) == BootList(p) \/ BootRead(p) \/ BootWrite(p)

HostNext ==
  \/ \E k \in Task : TaskStep(k) \/ Command(k) \/ StoreFails(k)
  \/ \E p \in Proc : \/ CancelAgentTurn(p) \/ ClearDraft(p) \/ SetScope(p)
                     \/ SaveRead(p) \/ SaveWrite(p) \/ Start(p) \/ ProcessEnds(p)

(* The runtime polls every ready task.  A stream may go on delivering      *)
(* events, but not for ever: the HTTP client gives a whole request 60 s    *)
(* (xai_subscription.rs:163), after which the stream fails, whence SF.     *)
HostFairness ==
  \A k \in Task : WF_hostVars(TaskStep(k)) /\ SF_hostVars(StreamFails(k))

HostSpec == HostInit /\ [][HostNext]_hostVars /\ HostFairness

-----------------------------------------------------------------------------
(* Properties.                                                             *)

Scope == [kind : {"session"}, id : SessionId] \cup [kind : {"new"}, id : 0 .. MaxScopes]

(* Type correctness.  A turn's text keeps within MAX_AGENT_OUTPUT_UTF8     *)
(* (agent.rs:762).                                                         *)
HostTypeOK ==
  /\ sessions \in [SessionId -> [live : BOOLEAN, project : AnyProject]]
  /\ turns \in [TurnId -> [session : {None} \cup SessionId, ordinal : Nat,
                           state : TurnState, text : 0 .. MaxText, code : ErrorCode,
                           project : AnyProject, source : {None} \cup Handle]]
  /\ events \subseteq [session : SessionId, turn : {None} \cup TurnId,
                       sequence : Nat, kind : EventKind]
  /\ artifacts \subseteq [turn : TurnId, session : SessionId, text : 1 .. MaxText, project : AnyProject]
  /\ \A p \in Proc : saving[p] \subseteq
       [turn : TurnId, session : SessionId, text : 1 .. MaxText, project : AnyProject]
  /\ boot \in [Proc -> {"new", "down", "listing", "writing", "up"}]
  /\ \A p \in Proc : listed[p] \subseteq
       [turn : TurnId, session : SessionId, text : 0 .. MaxText, seen : AnyProject, sequence : Nat]
  /\ gate \in [Proc -> BOOLEAN]
  /\ slot \in [Proc -> {None} \cup TurnId]
  /\ \A p \in Proc : /\ drafts[p].scope \in Scope
                      /\ drafts[p].drafts \subseteq [handle : Handle, scope : Scope]
  /\ pc \in [Task -> PC]
  /\ loc \in [Task -> [session : {None} \cup SessionId, project : AnyProject,
                        draft : {None} \cup Handle, seen : AnyProject, past : SUBSET TurnId,
                        ordinal : Nat, sequence : Nat, turn : {None} \cup TurnId,
                        state : TurnState, text : 0 .. MaxText, delta : {0, 1},
                        first : BOOLEAN, result : ErrorCode \cup {"ok"},
                        completed : BOOLEAN, already : BOOLEAN, goal : TerminalState,
                        code : ErrorCode, return : {"end", "delta"}]]
  /\ token \in [Task -> BOOLEAN]
  /\ assigned \in [SessionId -> AnyProject]
  /\ captured \in [Handle -> Scope]
  /\ revoked \subseteq TurnId

(* What was saved is what the turn says for good: an Artifact holds the    *)
(* whole text and the Project of a turn that was completed, although it    *)
(* was copied from the row without the gate and other commands and         *)
(* processes went on writing (artifact_use_cases.rs:37-62); and a session  *)
(* always lists the Artifacts of its turns.                                *)
ArtifactIsExact ==
  \A a \in artifacts :
    /\ turns[a.turn].state = "completed" /\ turns[a.turn].text = a.text
    /\ turns[a.turn].project = a.project
    /\ a \in ListArtifacts(turns[a.turn].session, NoProject)

(* The gate of a process is closed exactly while one of its commands is    *)
(* under way, never two, and the slot names the turn of a send that is     *)
(* still there: no way out of a command leaves either behind, or the       *)
(* process would refuse every later command (agents.rs:111-129).           *)
GateIsHeld ==
  \A p \in Proc :
    /\ gate[p] = (\E k \in Task : ProcOf[k] = p /\ pc[k] # "idle")
    /\ \A k, j \in Task : (ProcOf[k] = p /\ ProcOf[j] = p /\ pc[k] # "idle" /\ pc[j] # "idle")
                            => k = j
    /\ slot[p] # None => \E k \in Task : /\ ProcOf[k] = p /\ pc[k] \in SendPC
                                        /\ loc[k].turn = slot[p]

TerminalEvents(t) == {e \in events : e.turn = t /\ e.kind \in TerminalKind}

(* A turn has exactly one terminal event, of the kind of its state, and    *)
(* none before it ends, whoever ends it: its own send, or the start-up of  *)
(* another process (agent_use_cases.rs:286, 379, "exactly one terminal     *)
(* event").                                                                *)
OneTerminalEvent ==
  \A t \in TurnId :
    /\ turns[t].state \in TerminalState =>
         \E e \in TerminalEvents(t) : /\ TerminalEvents(t) = {e}
                                      /\ e.kind = ForTerminalState(turns[t].state)
    /\ turns[t].state \notin TerminalState => TerminalEvents(t) = {}

(* The log of a session is numbered 0, 1, 2, ... without a gap or a double *)
(* although the numbers are read before they are used, and a turn's events *)
(* come in the order of its life (sqlite/agents.rs:211).                   *)
LogIsOrdered ==
  /\ \A s \in SessionId :
       {e.sequence : e \in EventsOf(s)} = 0 .. Cardinality(EventsOf(s)) - 1
  /\ \A e, f \in events :
       (e.turn = f.turn /\ e.turn # None /\ e.sequence < f.sequence) =>
         /\ e.kind \notin TerminalKind
         /\ f.kind = "turn_streaming" => e.kind = "turn_pending"

(* No other process has ever been started on this database.                *)
Alone(p) == \A q \in Proc \ {p} : boot[q] = "new"

(* While one process owns the database, no two turns are in flight: the    *)
(* gate covers the gap between has_inflight_turn and the insertion         *)
(* (agent_use_cases.rs:58).                                                *)
OneInflightTurn ==
  (\E p \in Proc : Alone(p)) =>
    \A t, u \in TurnId : Inflight(t) /\ Inflight(u) => t = u

(* While one process owns the database, what is streamed to the provider   *)
(* is the whole completed history of the session and nothing else, though  *)
(* it was read several calls earlier (agent_use_cases.rs:99-108).          *)
ContextIsComplete ==
  (\E p \in Proc : Alone(p)) =>
    \A k \in Task : pc[k] \in {"assemble", "refresh", "stream"} =>
      loc[k].past = CompletedHistory(turns, loc[k].session)

(* While one process owns the database, a session keeps the Project the    *)
(* user last gave it: the writes that put a session back as they read it   *)
(* never undo a set_agent_session_project (agent_use_cases.rs:466-488).    *)
ProjectIsKept ==
  (\E p \in Proc : Alone(p)) => \A s \in SessionId : sessions[s].project = assigned[s]

(* A Source draft goes only to the composer scope it was captured in: its  *)
(* session, or the first turn of a new one; and, while one process owns    *)
(* the database, only one turn that reaches the provider has it, since a   *)
(* turn refused for its size leaves the draft to be sent again             *)
(* (source_draft.rs:207, agents.rs:1066).  The start-up of another process *)
(* may interrupt the refused turn before its command fails it, whence the  *)
(* condition.                                                              *)
DraftIsBound ==
  /\ \A t \in TurnId : turns[t].source # None =>
       LET c == captured[turns[t].source] IN
       IF c.kind = "session" THEN turns[t].session = c.id ELSE turns[t].ordinal = 0
  /\ (\E p \in Proc : Alone(p)) =>
       \A t, u \in TurnId :
         (t # u /\ turns[t].source = turns[u].source /\ turns[t].source # None) =>
           "context_limit" \in {turns[t].code, turns[u].code}

(* A terminal turn never changes again: not its state, its text or its     *)
(* code (sqlite/agents.rs:493).                                            *)
TerminalIsFinal ==
  [][\A t \in TurnId : turns[t].state \in TerminalState => turns'[t] = turns[t]]_hostVars

(* Every send ends and frees the gate, whatever the provider does.         *)
SendEnds == \A k \in Task : pc[k] \in SendPC ~> pc[k] = "idle"

(* Without a fault or a second process a turn does not stay in flight,     *)
(* where it would make every later send busy (agents.rs:1047).             *)
TurnEnds ==
  \A t \in TurnId : Inflight(t) ~>
    (turns[t].state \in TerminalState \/ faults > 0 \/ \A p \in Proc : ~Alone(p))

(* A cancellation accepted before the end of the stream is acted on keeps  *)
(* the turn from completing, even when the provider had completed it       *)
(* (agents.rs:674, 1086-1116).                                             *)
CancelIsHeeded == \A t \in revoked : turns[t].state # "completed"
=============================================================================
