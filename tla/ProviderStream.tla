--------------------------- MODULE ProviderStream ---------------------------
(***************************************************************************)
(* The server-sent events of a provider response (xai_subscription.rs,     *)
(* parse_sse_response): bytes arrive in fragments, are collected in a      *)
(* buffer, cut into events at blank lines, decoded and handed on one at a  *)
(* time.  AgentHost has what becomes of the events.                        *)
(*                                                                         *)
(* A byte is a symbol: a line of data (by what serde_json makes of it), a  *)
(* comment, "n" for LF or "r" for CR.  A provider uses one way of ending   *)
(* lines for a whole response.  What is received is compared with the      *)
(* decoding of the response as a whole.                                    *)
(***************************************************************************)
EXTENDS Integers, Sequences, SequencesExt

CONSTANTS
  Data,         \* data lines the provider sends (a subset of AllData)
  MaxFrames,    \* events in a response (bound)
  MaxBuffer     \* MAX_SSE_BUFFER


VARIABLES
  wire,         \* the whole response
  pos,          \* how much of it has arrived
  buffer,
  parse,        \* SseStreamState
  out,          \* the events handed on
  result        \* open, or how parse_sse_response returned

streamVars == <<wire, pos, buffer, parse, out, result>>

(* delta, finish, last: choices with content, with a finish reason, both.  *)
(* usage: totals only.  stray: a chunk of another response id.  open and   *)
(* close: two lines of one JSON value.  tool: an output that is not text.  *)
ChatData      == {"delta", "finish", "last", "usage", "stray"}
ResponsesData == {"rdelta", "rcompleted", "rfailed"}
AllData       == ChatData \cup ResponsesData \cup {"done", "tool", "open", "close"}

ASSUME StreamAssumption == MaxFrames \in Nat /\ MaxBuffer \in Nat /\ Data \subseteq AllData

Delta(text) == [kind |-> "delta", text |-> text]
Completed   == [kind |-> "completed", text |-> "none"]

FreshState == [protocol |-> "unknown", completed |-> FALSE, finished |-> FALSE, id |-> "none"]
Fails      == [protocol |-> "error", completed |-> FALSE, finished |-> FALSE, id |-> "none"]

-----------------------------------------------------------------------------
(* Cutting.                                                                *)

Occurs(s, pattern, i) ==
  i + Len(pattern) - 1 <= Len(s) /\ SubSeq(s, i, i + Len(pattern) - 1) = pattern

CRLF2 == <<"r", "n", "r", "n">>
LF2   == <<"n", "n">>

Positions(s, pattern) == {i \in 1 .. Len(s) : Occurs(s, pattern, i)}

(* find_event_boundary: CRLF CRLF anywhere goes before LF LF; 0 for none.  *)
FindEventBoundary(s) ==
  CASE Positions(s, CRLF2) # {} -> Min(Positions(s, CRLF2))
    [] Positions(s, CRLF2) = {} /\ Positions(s, LF2) # {} -> Min(Positions(s, LF2))
    [] OTHER -> 0

EventDelimiterLen(s) == IF Occurs(s, CRLF2, 1) THEN 4 ELSE IF Occurs(s, LF2, 1) THEN 2 ELSE 0

-----------------------------------------------------------------------------
(* Decoding.                                                               *)

(* enter_protocol.                                                         *)
Enters(state, protocol) ==
  IF state.protocol \in {"unknown", protocol} THEN [state EXCEPT !.protocol = protocol] ELSE Fails

(* merge_response_id: a second id in one response is an error.             *)
MergesId(state, id) ==
  IF state.protocol = "error" \/ state.id \notin {"none", id} THEN Fails
  ELSE [state EXCEPT !.id = id]

(* The lines of one event that are data, joined.                           *)
DataOf(event) == SelectSeq(event, LAMBDA x : x \in AllData)

(* parse_sse_event: the new state and what is to be handed on.  Two data   *)
(* lines are one JSON value or nonsense.                                   *)
ParseSseEvent(event, state) ==
  LET data == DataOf(event)
      d    == IF data = <<"open", "close">> THEN "delta" ELSE IF Len(data) = 1 THEN data[1] ELSE "bad"
      chat == MergesId(Enters(state, "chat"), IF d = "stray" THEN "second" ELSE "first")
      resp == Enters(state, "responses")
      Gives(s, batch) == [state |-> s, batch |-> IF s = Fails THEN <<>> ELSE batch]
  IN  CASE data = <<>>          -> Gives(state, <<>>)
        [] d = "done"           -> Gives(Enters(state, "chat"), <<Completed>>)
        [] d \in {"delta", "last"} ->
             IF state.finished THEN Gives(Fails, <<>>)
             ELSE Gives(IF d = "last" /\ chat # Fails THEN [chat EXCEPT !.finished = TRUE] ELSE chat,
                        <<Delta(d)>>)
        [] d = "finish"         -> Gives(IF chat = Fails THEN chat ELSE [chat EXCEPT !.finished = TRUE], <<>>)
        [] d \in {"usage", "stray"} -> Gives(chat, <<>>)
        [] d = "rdelta"         -> Gives(resp, <<Delta(d)>>)
        [] d = "rcompleted"     -> Gives(resp, <<Completed>>)
        [] OTHER                -> Gives(Fails, <<>>)

(* emit_provider_batch: a batch has one event at most.                     *)
Emitted(parsed) ==
  IF Completed \in Range(parsed.batch) THEN [parsed.state EXCEPT !.completed = TRUE] ELSE parsed.state

(* finish_sse_stream: a response may end without [DONE] once it has given  *)
(* a finish reason.                                                        *)
MayFinish(state) == state.protocol = "chat" /\ state.finished

-----------------------------------------------------------------------------
(* The response as a whole: its events decoded in order until one fails or *)
(* completes it.                                                           *)
Frame == {<<d>> : d \in Data} \cup {<<"open", "eol", "close">>, <<"comment">>}

Encode(frames, eol, closed) ==
  LET Lines(f) == FlattenSeq([i \in DOMAIN f |-> IF f[i] = "eol" THEN eol ELSE <<f[i]>>])
  IN  FlattenSeq([i \in DOMAIN frames |->
        Lines(frames[i]) \o (IF i = Len(frames) /\ ~closed THEN <<>> ELSE eol \o eol)])

(* One turn of a loop over bytes that have all arrived.                    *)
Turn(d) ==
  LET cut    == FindEventBoundary(d.rest)
      parsed == ParseSseEvent(IF cut = 0 THEN d.rest ELSE SubSeq(d.rest, 1, cut - 1), d.state)
      after  == Emitted(parsed)
      rest   == IF cut = 0 THEN <<>>
                ELSE SubSeq(d.rest, cut + (IF d.rest[cut] = "r" THEN 4 ELSE 2), Len(d.rest))
      Done(events, r) == [d EXCEPT !.events = events, !.result = r]
  IN  CASE d.result # "open" -> d
        [] d.result = "open" /\ d.rest = <<>> ->
             IF MayFinish(d.state) THEN Done(Append(d.events, Completed), "ok") ELSE Done(d.events, "error")
        [] OTHER ->
             [rest   |-> rest, state |-> after, events |-> d.events \o parsed.batch,
              result |-> IF after = Fails THEN "error" ELSE IF after.completed THEN "ok" ELSE "open"]

(* Every turn but the last takes a byte at least.                          *)
Decode(bytes) ==
  LET turns[n \in 0 .. Len(bytes) + 1] ==
        IF n = 0 THEN [rest |-> bytes, state |-> FreshState, events |-> <<>>, result |-> "open"]
        ELSE Turn(turns[n - 1])
  IN  turns[Len(bytes) + 1]

Whole == Decode(wire)

-----------------------------------------------------------------------------
Wires ==
  {Encode(frames, eol, closed) : frames \in UNION {[1 .. n -> Frame] : n \in 0 .. MaxFrames},
                                 eol \in {<<"n">>, <<"r", "n">>}, closed \in BOOLEAN}

StreamInit ==
  /\ wire \in Wires /\ pos = 0 /\ buffer = <<>>
  /\ parse = FreshState /\ out = <<>> /\ result = "open"

Returns(r) == result' = r

(* A fragment arrives, of any length.                                      *)
Receive ==
  /\ result = "open" /\ FindEventBoundary(buffer) = 0 /\ ~parse.completed
  /\ \E n \in 1 .. Len(wire) - pos :
       IF Len(buffer) + n > MaxBuffer THEN Returns("output_limit") /\ UNCHANGED <<pos, buffer>>
       ELSE /\ buffer' = buffer \o SubSeq(wire, pos + 1, pos + n) /\ pos' = pos + n
            /\ UNCHANGED result
  /\ UNCHANGED <<wire, parse, out>>

(* One turn of emit_complete_sse_events, or the rest of the buffer at the  *)
(* end of the response.                                                    *)
Emits(event, rest) ==
  LET parsed == ParseSseEvent(event, parse)  after == Emitted(parsed) IN
  /\ buffer' = rest /\ parse' = after /\ out' = out \o parsed.batch
  /\ CASE after = Fails    -> Returns("error")
       [] after.completed  -> Returns("ok")
       [] OTHER            -> UNCHANGED result

EmitEvent ==
  LET cut  == FindEventBoundary(buffer)
      tail == SubSeq(buffer, cut, Len(buffer)) IN
  /\ result = "open" /\ cut # 0
  /\ Emits(SubSeq(buffer, 1, cut - 1), SubSeq(tail, EventDelimiterLen(tail) + 1, Len(tail)))
  /\ UNCHANGED <<wire, pos>>

(* The response has ended.                                                 *)
(* Mutant: what is left in the buffer is forgotten.                        *)
X_EmitRest ==
  /\ result = "open" /\ pos = Len(wire) /\ FindEventBoundary(buffer) = 0 /\ buffer # <<>>
  /\ buffer' = <<>>
  /\ UNCHANGED <<wire, pos, parse, out, result>>

EmitRest ==
  /\ result = "open" /\ pos = Len(wire) /\ FindEventBoundary(buffer) = 0 /\ buffer # <<>>
  /\ Emits(buffer, <<>>)
  /\ UNCHANGED <<wire, pos>>

FinishStream ==
  /\ result = "open" /\ pos = Len(wire) /\ buffer = <<>>
  /\ IF MayFinish(parse) THEN Returns("ok") /\ out' = Append(out, Completed)
     ELSE Returns("error") /\ UNCHANGED out
  /\ UNCHANGED <<wire, pos, buffer, parse>>

(* The token is looked at before every fragment and every event; or the    *)
(* connection breaks, or whoever takes the events refuses one.             *)
StreamBreaks ==
  /\ result = "open" /\ Returns("broken")
  /\ UNCHANGED <<wire, pos, buffer, parse, out>>

StreamNext == Receive \/ EmitEvent \/ EmitRest \/ FinishStream \/ StreamBreaks

StreamSpec == StreamInit /\ [][StreamNext]_streamVars

-----------------------------------------------------------------------------
(* However the bytes were cut into fragments, what is handed on is the     *)
(* beginning of what the whole response says; a stream that returns        *)
(* success has handed on all of it, with one completion, at the end; and   *)
(* one that fails by itself has handed on everything before the failure.   *)
StreamIsWhole ==
  /\ IsPrefix(out, Whole.events)
  /\ result \in {"ok", "error"} => out = Whole.events /\ result = Whole.result
  /\ result = "ok" => \A i \in DOMAIN out : out[i] = Completed <=> i = Len(out)
=============================================================================
