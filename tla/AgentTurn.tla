----------------------------- MODULE AgentTurn -----------------------------
(***************************************************************************)
(* The values of an Agent conversation (crates/tule-core/src/agent.rs and  *)
(* the pure parts of agent_use_cases.rs and source_draft.rs): the states   *)
(* of a turn and their transitions, the provenance events, the completed   *)
(* history, how the end of a provider stream becomes a terminal state, and *)
(* the composer's Source drafts.  AgentHost puts them in motion.           *)
(*                                                                         *)
(* Text is its length; an identifier is a number in the order of creation, *)
(* 0 being "none"; of the public error codes only those that a branch of   *)
(* the code tells apart are named.                                         *)
(***************************************************************************)
EXTENDS Integers, FiniteSets

None == 0

InflightState == {"pending", "streaming"}
TerminalState == {"completed", "cancelled", "failed", "interrupted"}
TurnState     == {"absent"} \cup InflightState \cup TerminalState

(* AgentTurnState::transition. *)
CanTransition(from, to) ==
  \/ from = "pending"   /\ to \in {"streaming"} \cup TerminalState
  \/ from = "streaming" /\ to \in TerminalState

(* AgentEventKind; for_terminal_state gives the kind of a terminal state.  *)
TerminalKind == {"turn_completed", "turn_cancelled", "turn_failed", "turn_interrupted"}
EventKind == {"session_created", "project_association_changed", "turn_pending",
              "turn_streaming"} \cup TerminalKind

ForTerminalState(state) ==
  CASE state = "completed" -> "turn_completed"
    [] state = "cancelled" -> "turn_cancelled"
    [] state = "failed"    -> "turn_failed"
    [] OTHER               -> "turn_interrupted"

ProviderError == {"provider_unavailable", "model_unavailable"}
ErrorCode == ProviderError \cup
  {"none", "context_limit", "output_limit", "cancelled", "interrupted",
   "agent_storage_unavailable"}

(* The error code that AgentTurn::complete, cancel, fail and interrupt     *)
(* leave on the turn.                                                      *)
CodeFor(state, failure) ==
  CASE state = "cancelled"   -> "cancelled"
    [] state = "interrupted" -> "interrupted"
    [] state = "failed"      -> failure
    [] OTHER                 -> "none"

(* completed_history_from_turns: the completed turns of the session only.  *)
CompletedHistory(turns, s) ==
  {t \in DOMAIN turns : turns[t].session = s /\ turns[t].state = "completed"}

(* finalize_stream_result: the state that the end of the stream gives the  *)
(* turn, from the stream's result, whether a Completed event was seen, and *)
(* whether the token is cancelled by now.                                  *)
Finalization(result, completed, cancelled) ==
  CASE result = "ok" /\ cancelled               -> [goal |-> "cancelled", code |-> "cancelled"]
    [] result = "ok" /\ ~cancelled /\ completed -> [goal |-> "completed", code |-> "none"]
    [] result = "ok"                            -> [goal |-> "failed", code |-> "provider_unavailable"]
    [] result = "cancelled"                     -> [goal |-> "cancelled", code |-> "cancelled"]
    [] OTHER                                    -> [goal |-> "failed", code |-> result]

-----------------------------------------------------------------------------
(* The draft store of the main window's composer: its scope, the next      *)
(* new-session generation and the drafts, each bound to the scope that was *)
(* current when it was captured.                                           *)

SessionScope(s)    == [kind |-> "session", id |-> s]
NewSessionScope(g) == [kind |-> "new", id |-> g]

EmptyDrafts == [scope |-> NewSessionScope(0), next |-> 1, drafts |-> {}]

(* bind_session_scope clears the drafts only when the scope changes.       *)
BindSessionScope(store, s) ==
  IF store.scope = SessionScope(s) THEN store
  ELSE [store EXCEPT !.scope = SessionScope(s), !.drafts = {}]

BeginNewSessionScope(store) ==
  [store EXCEPT !.scope = NewSessionScope(store.next), !.next = store.next + 1,
                !.drafts = {}]

ClearHandle(store, h) == [store EXCEPT !.drafts = {d \in @ : d.handle # h}]
ClearAll(store)       == [store EXCEPT !.drafts = {}]

(* replace_with: clear_all, then insert under the current scope.           *)
ReplaceWith(store, h) ==
  [store EXCEPT !.drafts = {[handle |-> h, scope |-> store.scope]}]

(* resolve_for_send against the target that send_target_for_session gives: *)
(* the session sent to, or the current new-session generation.             *)
(* Mutant: the handle is resolved whatever it is bound to.                 *)
X_ResolvesForSend(store, h, s) == \E d \in store.drafts : d.handle = h

ResolvesForSend(store, h, s) ==
  \E d \in store.drafts :
    /\ d.handle = h
    /\ IF s # None THEN d.scope = SessionScope(s)
       ELSE store.scope.kind = "new" /\ d.scope = store.scope
=============================================================================
