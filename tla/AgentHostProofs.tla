--------------------------- MODULE AgentHostProofs ---------------------------
(***************************************************************************)
(* What holds of the Agent commands whatever their tasks and processes do, *)
(* for any number of them: types, the gate, turns that end once and for    *)
(* good; then the sessions: a log without a gap, in the order of a turn's  *)
(* life, and what one process that owns the database can rely on.          *)
(***************************************************************************)
EXTENDS AgentHost, DataLemmas, FunctionTheorems

TurnRow == [session : {None} \cup SessionId, ordinal : Nat, state : TurnState,
            text : 0 .. MaxText, code : ErrorCode, project : AnyProject,
            source : {None} \cup Handle]
EventRow == [session : SessionId, turn : {None} \cup TurnId, sequence : Nat,
             kind : EventKind]
SavedRow == [turn : TurnId, session : SessionId, text : 1 .. MaxText,
             project : AnyProject]
ListedRow == [turn : TurnId, session : SessionId, text : 0 .. MaxText,
              seen : AnyProject, sequence : Nat]
DraftStore == [scope : Scope, next : Nat,
               drafts : SUBSET [handle : Handle, scope : Scope]]
Locals == [session : {None} \cup SessionId, project : AnyProject,
           draft : {None} \cup Handle, seen : AnyProject, past : SUBSET TurnId,
           ordinal : Nat, sequence : Nat, turn : {None} \cup TurnId,
           state : TurnState, text : 0 .. MaxText, delta : {0, 1},
           first : BOOLEAN, result : ErrorCode \cup {"ok"},
           completed : BOOLEAN, already : BOOLEAN, goal : TerminalState,
           code : ErrorCode, return : {"end", "delta"}]

(* The steps at which a command has its session, and at which it has a turn *)
HasSession == (PreparePC \ {"inflight", "append"}) \cup ProjectPC
HasTurn    == SendPC \ PreparePC

TaskTypeOK(k) ==
  /\ pc[k] \in HasSession \cup HasTurn => loc[k].session \in SessionId
  /\ pc[k] \in HasTurn => loc[k].turn \in TurnId

(* What the types of the properties leave out: the domains, and that the   *)
(* numbers in use are bounded, so that MAX is one of them                  *)
TablesOK ==
  /\ saving \in [Proc -> SUBSET SavedRow]
  /\ listed \in [Proc -> SUBSET ListedRow]
  /\ \A p \in Proc : IsFiniteSet(listed[p])
  /\ drafts \in [Proc -> DraftStore]
  /\ nextDraft \in Nat
  /\ \A t \in TurnId : turns[t].state # "absent" => turns[t].session \in SessionId
  /\ \E n \in Nat : \A t \in TurnId : turns[t].ordinal <= n
  /\ \E n \in Nat : \A e \in events : e.sequence <= n
  /\ \A p \in Proc : \E n \in Nat : \A r \in listed[p] : r.sequence <= n

HostTypes ==
  /\ HostTypeOK
  /\ TablesOK
  /\ \A k \in Task : TaskTypeOK(k)

---------------------------------------------------------------------------
(* MAX(sequence) + 1 is above every number in use, and is 0 or one above   *)
(* a number in use                                                         *)
LEMMA NextSequence ==
  ASSUME HostTypes, NEW s
  PROVE  /\ NextEventSequence(s) \in Nat
         /\ \A e \in EventsOf(s) : e.sequence \in Nat /\ e.sequence < NextEventSequence(s)
         /\ NextEventSequence(s) # 0 =>
              \E e \in EventsOf(s) : e.sequence = NextEventSequence(s) - 1
<1> DEFINE U == {e.sequence : e \in EventsOf(s)}
<1>1. PICK n \in Nat : \A e \in events : e.sequence <= n
  BY DEF HostTypes, TablesOK
<1>2. \A e \in events : e.sequence \in Nat
  BY DEF HostTypes, HostTypeOK
<1>3. U \in SUBSET (0 .. n)
  BY <1>1, <1>2 DEF EventsOf
<1>4. CASE EventsOf(s) = {}
  BY <1>4 DEF NextEventSequence
<1>5. CASE EventsOf(s) # {}
  <2>1. U # {}
    BY <1>5
  <2> HIDE DEF U
  <2>2. \E m \in U : \A k \in U : k <= m
    BY <1>3, <2>1, GreatestExists
  <2> USE DEF U
  <2>3. \E m \in U : \A e \in EventsOf(s) : e.sequence <= m
    BY <2>2
  <2> DEFINE m == CHOOSE m \in U : \A e \in EventsOf(s) : e.sequence <= m
  <2>4. m \in U /\ \A e \in EventsOf(s) : e.sequence <= m
    BY <2>3
  <2>5. NextEventSequence(s) = 1 + m
    BY <1>5 DEF NextEventSequence
  <2> HIDE DEF m
  <2>6. m \in Nat /\ \A e \in EventsOf(s) : e.sequence \in Nat
    BY <1>2, <1>3, <2>4 DEF EventsOf
  <2> QED BY <2>4, <2>5, <2>6
<1> QED BY <1>4, <1>5

(* MAX(ordinal) + 1 likewise *)
LEMMA NextOrdinal ==
  ASSUME HostTypes, NEW s
  PROVE  /\ NextTurnOrdinal(s) \in Nat
         /\ \A t \in TurnId : turns[t].session = s => turns[t].ordinal < NextTurnOrdinal(s)
         /\ NextTurnOrdinal(s) # 0 => \E t \in TurnId : turns[t].session = s
<1> DEFINE U == {turns[t].ordinal : t \in {u \in TurnId : turns[u].session = s}}
<1>1. PICK n \in Nat : \A t \in TurnId : turns[t].ordinal <= n
  BY DEF HostTypes, TablesOK
<1>2. \A t \in TurnId : turns[t].ordinal \in Nat
  BY DEF HostTypes, HostTypeOK
<1>3. U \in SUBSET (0 .. n)
  BY <1>1, <1>2
<1>4. CASE U = {}
  BY <1>4 DEF NextTurnOrdinal
<1>5. CASE U # {}
  <2> DEFINE m == CHOOSE m \in U : \A j \in U : j <= m
  <2>1. NextTurnOrdinal(s) = 1 + m
    BY <1>5 DEF NextTurnOrdinal
  <2>2. \E t \in TurnId : turns[t].session = s
    BY <1>5
  <2>3. \A t \in TurnId : turns[t].session = s => turns[t].ordinal \in U
    OBVIOUS
  <2> HIDE DEF U
  <2>4. m \in U /\ \A j \in U : j <= m
    BY <1>3, <1>5, GreatestExists
  <2> HIDE DEF m
  <2>5. m \in Nat
    BY <1>3, <2>4
  <2> QED BY <1>2, <2>1, <2>2, <2>3, <2>4, <2>5
<1> QED BY <1>4, <1>5

---------------------------------------------------------------------------
LEMMA BlankType == Blank \in Locals /\ AbsentTurn \in TurnRow
<1>1. 0 \in 0 .. MaxText
  BY HostAssumption
<1> QED BY <1>1 DEF Blank, Locals, AbsentTurn, TurnRow, AnyProject, None, TurnState,
         TerminalState, ErrorCode

(* A task moves to a step, with new local variables *)
LEMMA TaskMoves ==
  ASSUME HostTypes, NEW k \in Task, NEW n \in PC, NEW l \in Locals,
         pc' = [pc EXCEPT ![k] = n], loc' = [loc EXCEPT ![k] = l],
         n \in HasSession \cup HasTurn => l.session \in SessionId,
         n \in HasTurn => l.turn \in TurnId
  PROVE  /\ pc' \in [Task -> PC] /\ loc' \in [Task -> Locals]
         /\ \A j \in Task : TaskTypeOK(j)'
<1>1. pc \in [Task -> PC] /\ loc \in [Task -> Locals]
  BY DEF HostTypes, HostTypeOK, Locals
<1>2. pc' \in [Task -> PC] /\ loc' \in [Task -> Locals]
  BY <1>1
<1>3. /\ pc'[k] = n /\ loc'[k] = l
      /\ \A j \in Task : j # k => pc'[j] = pc[j] /\ loc'[j] = loc[j]
  BY <1>1
<1> QED BY <1>2, <1>3 DEF HostTypes, TaskTypeOK

LEMMA TaskEnds ==
  ASSUME HostTypes, NEW k \in Task, Ends(k)
  PROVE  /\ pc' \in [Task -> PC] /\ loc' \in [Task -> Locals]
         /\ \A j \in Task : TaskTypeOK(j)'
         /\ gate' \in [Proc -> BOOLEAN] /\ slot' \in [Proc -> {None} \cup TurnId]
         /\ token' \in [Task -> BOOLEAN]
<1>1. "idle" \in PC /\ "idle" \notin HasSession \cup HasTurn
  BY DEF PC, HasSession, HasTurn, SendPC, PreparePC, ProjectPC, DeltaPC, FinishPC
<1>2. pc' = [pc EXCEPT ![k] = "idle"] /\ loc' = [loc EXCEPT ![k] = Blank]
  BY DEF Ends
<1>3. /\ pc' \in [Task -> PC] /\ loc' \in [Task -> Locals]
      /\ \A j \in Task : TaskTypeOK(j)'
  BY <1>1, <1>2, BlankType, TaskMoves
<1>4. /\ gate' \in [Proc -> BOOLEAN] /\ slot' \in [Proc -> {None} \cup TurnId]
      /\ token' \in [Task -> BOOLEAN]
  BY DEF Ends, HostTypes, HostTypeOK
<1> QED BY <1>3, <1>4

(* A step that changes no table and no draft *)
LEMMA QuietTypes ==
  ASSUME HostTypes,
         UNCHANGED <<durable, library, boot, listed, drafts, nextDraft, assigned, captured>>,
         pc' \in [Task -> PC], loc' \in [Task -> Locals], gate' \in [Proc -> BOOLEAN],
         slot' \in [Proc -> {None} \cup TurnId], token' \in [Task -> BOOLEAN],
         revoked' \subseteq TurnId, \A j \in Task : TaskTypeOK(j)'
  PROVE  HostTypes'
<1>1. HostTypeOK'
  BY DEF HostTypes, HostTypeOK, durable, library, Locals
<1>2. TablesOK'
  BY DEF HostTypes, TablesOK, durable, library
<1> QED BY <1>1, <1>2 DEF HostTypes

LEMMA MoveTypes ==
  ASSUME HostTypes,
         UNCHANGED <<durable, library, boot, listed, drafts, nextDraft, history>>,
         NEW k \in Task, NEW n \in PC, NEW l \in Locals,
         pc' = [pc EXCEPT ![k] = n], loc' = [loc EXCEPT ![k] = l],
         n \in HasSession \cup HasTurn => l.session \in SessionId,
         n \in HasTurn => l.turn \in TurnId,
         gate' \in [Proc -> BOOLEAN], slot' \in [Proc -> {None} \cup TurnId],
         token' \in [Task -> BOOLEAN]
  PROVE  HostTypes'
<1>1. /\ pc' \in [Task -> PC] /\ loc' \in [Task -> Locals]
      /\ \A j \in Task : TaskTypeOK(j)'
  BY TaskMoves
<1>2. revoked' \subseteq TurnId /\ UNCHANGED <<assigned, captured>>
  BY DEF HostTypes, HostTypeOK, history
<1> QED BY <1>1, <1>2, QuietTypes

LEMMA EndTypes ==
  ASSUME HostTypes,
         UNCHANGED <<durable, library, boot, listed, drafts, nextDraft, history>>,
         NEW k \in Task, Ends(k)
  PROVE  HostTypes'
<1>1. revoked' \subseteq TurnId /\ UNCHANGED <<assigned, captured>>
  BY DEF HostTypes, HostTypeOK, history
<1> QED BY <1>1, TaskEnds, QuietTypes

(* The commands that begin *)
LEMMA BeginTypes ==
  ASSUME HostTypes, NEW k \in Task, SendBegin(k) \/ SetProjectBegin(k) \/ PickBegin(k)
  PROVE  HostTypes'
<1>0. /\ pc \in [Task -> PC] /\ loc \in [Task -> Locals] /\ gate \in [Proc -> BOOLEAN]
      /\ slot \in [Proc -> {None} \cup TurnId] /\ token \in [Task -> BOOLEAN]
  BY DEF HostTypes, HostTypeOK, Locals
<1>1. ASSUME NEW n \in PC \ (HasSession \cup HasTurn), NEW l \in Locals, TryOperation(k),
             pc' = [pc EXCEPT ![k] = n], loc' = [loc EXCEPT ![k] = l],
             UNCHANGED <<durable, library, boot, listed, drafts, nextDraft, history>>,
             UNCHANGED <<slot, token>>
      PROVE  HostTypes'
  <2>1. gate' \in [Proc -> BOOLEAN] /\ n \in PC /\ n \notin HasSession /\ n \notin HasTurn
    BY <1>0, <1>1 DEF TryOperation
  <2> QED BY <1>0, <1>1, <2>1, MoveTypes
<1>2. CASE SendBegin(k)
  <2>1. PICK s \in {None} \cup SessionId, pr \in AnyProject, h \in {None} \cup Handle :
          loc' = [loc EXCEPT ![k] = [Blank EXCEPT !.session = s, !.project = pr, !.draft = h]]
    BY <1>2 DEF SendBegin
  <2> DEFINE l == [Blank EXCEPT !.session = s, !.project = pr, !.draft = h]
  <2>2. l \in Locals
    BY BlankType DEF Locals
  <2>3. "inflight" \in PC \ (HasSession \cup HasTurn)
    BY DEF PC, SendPC, PreparePC, HasSession, HasTurn, ProjectPC
  <2> HIDE DEF l
  <2>4. loc' = [loc EXCEPT ![k] = l]
    BY <2>1 DEF l
  <2> DEFINE n == "inflight"
  <2>5. pc' = [pc EXCEPT ![k] = n] /\ n \in PC \ (HasSession \cup HasTurn)
    BY <1>2, <2>3 DEF SendBegin
  <2> HIDE DEF n
  <2> QED BY <1>1, <1>2, <2>2, <2>4, <2>5 DEF SendBegin
<1>3. CASE SetProjectBegin(k)
  <2>1. PICK s \in SessionId, pr \in AnyProject :
          loc' = [loc EXCEPT ![k] = [Blank EXCEPT !.session = s, !.project = pr]]
    BY <1>3 DEF SetProjectBegin
  <2> DEFINE l == [Blank EXCEPT !.session = s, !.project = pr]
             n == "pjSession"
  <2>2. l \in Locals /\ l.session \in SessionId /\ loc' = [loc EXCEPT ![k] = l]
    BY <2>1, BlankType DEF Locals
  <2>3. n \in PC /\ n \notin HasTurn
    BY DEF PC, SendPC, PreparePC, HasTurn, ProjectPC, DeltaPC, FinishPC
  <2>4. pc' = [pc EXCEPT ![k] = n] /\ gate' \in [Proc -> BOOLEAN]
    BY <1>0, <1>3 DEF SetProjectBegin, TryOperation
  <2>5. UNCHANGED <<durable, library, boot, listed, drafts, nextDraft, history, slot, token>>
    BY <1>3 DEF SetProjectBegin
  <2> HIDE DEF l, n
  <2> QED BY <1>0, <2>2, <2>3, <2>4, <2>5, MoveTypes
<1>4. CASE PickBegin(k)
  <2> DEFINE n == "pick"
  <2>1. n \in PC \ (HasSession \cup HasTurn)
    BY DEF PC, SendPC, PreparePC, HasSession, HasTurn, ProjectPC, DeltaPC, FinishPC
  <2>2. pc' = [pc EXCEPT ![k] = n] /\ loc' = [loc EXCEPT ![k] = loc[k]]
          /\ loc[k] \in Locals
    BY <1>0, <1>4 DEF PickBegin
  <2> HIDE DEF n
  <2> QED BY <1>1, <1>4, <2>1, <2>2 DEF PickBegin
<1> QED BY <1>2, <1>3, <1>4

(* The steps of a command that only read *)
LEMMA ReadTypes ==
  ASSUME HostTypes, NEW k \in Task,
         ReadInflight(k) \/ ReadSession(k) \/ ReadHistory(k) \/ ReadOrdinal(k)
           \/ ReadSequence(k) \/ SetProjectReadSession(k) \/ SetProjectReadSequence(k)
           \/ FinishReadSession(k) \/ FinishReadSequence(k) \/ DeltaReadSequence(k)
  PROVE  HostTypes'
<1>0. /\ pc \in [Task -> PC] /\ loc \in [Task -> Locals] /\ loc[k] \in Locals
      /\ gate \in [Proc -> BOOLEAN]
      /\ slot \in [Proc -> {None} \cup TurnId] /\ token \in [Task -> BOOLEAN]
      /\ TaskTypeOK(k)
      /\ \A s \in SessionId : sessions[s].project \in AnyProject
  BY DEF HostTypes, HostTypeOK, Locals
<1>1. UNCHANGED <<durable, library, boot, listed, drafts, nextDraft, history>>
  BY DEF ReadInflight, ReadSession, ReadHistory, ReadOrdinal, ReadSequence,
     SetProjectReadSession, SetProjectReadSequence, FinishReadSession,
     FinishReadSequence, DeltaReadSequence, process
<1>2. CASE Ends(k)
  BY <1>1, <1>2, EndTypes
<1>3. ASSUME NEW n \in PC, NEW l \in Locals, pc' = [pc EXCEPT ![k] = n],
             UNCHANGED <<gate, slot, token>>, loc' = [loc EXCEPT ![k] = l],
             l.session = loc[k].session, l.turn = loc[k].turn,
             n \in HasSession \cup HasTurn => loc[k].session \in SessionId,
             n \in HasTurn => loc[k].turn \in TurnId
      PROVE  HostTypes'
  BY <1>0, <1>1, <1>3, MoveTypes
<1>4. ASSUME ReadInflight(k), ~ Ends(k) PROVE HostTypes'
  <2> DEFINE n == IF loc[k].session = None THEN "append" ELSE "session"
  <2>1. n \in PC /\ (n \in HasSession \cup HasTurn => loc[k].session \in SessionId)
          /\ n \notin HasTurn
    BY <1>0 DEF PC, SendPC, PreparePC, HasSession, HasTurn, ProjectPC, DeltaPC, FinishPC,
       Locals
  <2>2. /\ pc' = [pc EXCEPT ![k] = n] /\ UNCHANGED <<gate, slot, token>>
        /\ loc' = [loc EXCEPT ![k] = loc[k]]
    BY <1>0, <1>4 DEF ReadInflight, Goes
  <2> HIDE DEF n
  <2> QED BY <1>0, <1>3, <2>1, <2>2
<1>5. ASSUME NEW n \in PC, NEW x \in AnyProject,
             pc' = [pc EXCEPT ![k] = n], UNCHANGED <<gate, slot, token>>,
             loc' = [loc EXCEPT ![k].seen = x],
             n \in HasSession \cup HasTurn => loc[k].session \in SessionId,
             n \in HasTurn => loc[k].turn \in TurnId
      PROVE  HostTypes'
  <2> DEFINE l == [loc[k] EXCEPT !.seen = x]
  <2>1. l \in Locals /\ l.session = loc[k].session /\ l.turn = loc[k].turn
          /\ loc' = [loc EXCEPT ![k] = l]
    BY <1>0, <1>5 DEF Locals
  <2> HIDE DEF l
  <2> QED BY <1>3, <1>5, <2>1
<1>6. ASSUME NEW n \in PC, NEW x \in Nat,
             pc' = [pc EXCEPT ![k] = n], UNCHANGED <<gate, slot, token>>,
             loc' = [loc EXCEPT ![k].sequence = x],
             n \in HasSession \cup HasTurn => loc[k].session \in SessionId,
             n \in HasTurn => loc[k].turn \in TurnId
      PROVE  HostTypes'
  <2> DEFINE l == [loc[k] EXCEPT !.sequence = x]
  <2>1. l \in Locals /\ l.session = loc[k].session /\ l.turn = loc[k].turn
          /\ loc' = [loc EXCEPT ![k] = l]
    BY <1>0, <1>6 DEF Locals
  <2> HIDE DEF l
  <2> QED BY <1>3, <1>6, <2>1
<1> DEFINE s == loc[k].session
<1>7. ASSUME ReadSession(k), ~ Ends(k) PROVE HostTypes'
  <2> DEFINE n == "history"
  <2>1. n \in PC /\ n \notin HasTurn /\ s \in SessionId
    BY <1>0, <1>7 DEF PC, SendPC, PreparePC, HasSession, HasTurn, ReadSession, TaskTypeOK
  <2>2. /\ pc' = [pc EXCEPT ![k] = n] /\ UNCHANGED <<gate, slot, token>>
        /\ loc' = [loc EXCEPT ![k].seen = sessions[s].project]
    BY <1>7 DEF ReadSession, Goes
  <2> HIDE DEF n
  <2> QED BY <1>0, <1>5, <2>1, <2>2
<1>8. ASSUME ReadHistory(k), ~ Ends(k) PROVE HostTypes'
  <2> DEFINE n == "ordinal"
             l == [loc[k] EXCEPT !.past = CompletedHistory(turns, s)]
  <2>1. n \in PC /\ n \notin HasTurn /\ s \in SessionId
    BY <1>0, <1>8 DEF PC, SendPC, PreparePC, HasSession, HasTurn, ReadHistory, TaskTypeOK
  <2>2. /\ pc' = [pc EXCEPT ![k] = n] /\ UNCHANGED <<gate, slot, token>>
        /\ loc' = [loc EXCEPT ![k] = l]
    BY <1>8 DEF ReadHistory, Goes
  <2>3. CompletedHistory(turns, s) \in SUBSET TurnId
    BY DEF CompletedHistory, HostTypes, HostTypeOK
  <2>4. l \in Locals /\ l.session = s /\ l.turn = loc[k].turn
    BY <1>0, <2>3 DEF Locals
  <2> HIDE DEF n, l
  <2> QED BY <1>0, <1>3, <2>1, <2>2, <2>4
<1>9. ASSUME ReadOrdinal(k) PROVE HostTypes'
  <2> DEFINE n == "sequence"
             l == [loc[k] EXCEPT !.ordinal = NextTurnOrdinal(s)]
  <2>1. n \in PC /\ n \notin HasTurn /\ s \in SessionId
    BY <1>0, <1>9 DEF PC, SendPC, PreparePC, HasSession, HasTurn, ReadOrdinal, TaskTypeOK
  <2>2. /\ pc' = [pc EXCEPT ![k] = n] /\ UNCHANGED <<gate, slot, token>>
        /\ loc' = [loc EXCEPT ![k] = l]
    BY <1>9 DEF ReadOrdinal, Goes
  <2>3. NextTurnOrdinal(s) \in Nat
    BY NextOrdinal
  <2>4. l \in Locals /\ l.session = s /\ l.turn = loc[k].turn
    BY <1>0, <2>3 DEF Locals
  <2> HIDE DEF n, l
  <2> QED BY <1>0, <1>3, <2>1, <2>2, <2>4
<1>10. ASSUME NEW n \in {"append", "pjWrite", "finWrite", "deltaWrite"},
              n = "append" => pc[k] = "sequence",
              n = "pjWrite" => pc[k] = "pjSeq",
              n = "finWrite" => pc[k] = "finSeq",
              n = "deltaWrite" => pc[k] = "deltaSeq",
              pc' = [pc EXCEPT ![k] = n], UNCHANGED <<gate, slot, token>>,
              loc' = [loc EXCEPT ![k].sequence = NextEventSequence(s)]
      PROVE  HostTypes'
  <2>1. /\ n \in PC
        /\ n \in HasSession \cup HasTurn => s \in SessionId
        /\ n \in HasTurn => loc[k].turn \in TurnId
    BY <1>0, <1>10 DEF PC, SendPC, PreparePC, HasSession, HasTurn, TaskTypeOK, ProjectPC,
       FinishPC, DeltaPC
  <2>2. NextEventSequence(s) \in Nat
    BY NextSequence
  <2> QED BY <1>6, <1>10, <2>1, <2>2
<1>11. CASE ReadSequence(k) \/ SetProjectReadSequence(k) \/ FinishReadSequence(k)
              \/ DeltaReadSequence(k)
  BY <1>10, <1>11 DEF ReadSequence, SetProjectReadSequence, FinishReadSequence,
     DeltaReadSequence, Goes, process
<1>12. CASE SetProjectReadSession(k)
  <2> DEFINE n == "pjSeq"
  <2>1. n \in PC /\ s \in SessionId /\ n \notin HasTurn
    BY <1>0, <1>12 DEF PC, SendPC, PreparePC, HasSession, HasTurn, TaskTypeOK, ProjectPC,
       FinishPC, DeltaPC, SetProjectReadSession
  <2>2. /\ pc' = [pc EXCEPT ![k] = n] /\ UNCHANGED <<gate, slot, token>>
        /\ loc' = [loc EXCEPT ![k] = loc[k]]
    BY <1>0, <1>12 DEF SetProjectReadSession, Goes
  <2> HIDE DEF n
  <2> QED BY <1>0, <1>3, <2>1, <2>2
<1>13. CASE FinishReadSession(k)
  <2> DEFINE n == "finSeq"
  <2>1. n \in PC /\ s \in SessionId /\ loc[k].turn \in TurnId
    BY <1>0, <1>13 DEF PC, SendPC, PreparePC, HasSession, HasTurn, TaskTypeOK,
       FinishPC, FinishReadSession
  <2>2. /\ pc' = [pc EXCEPT ![k] = n] /\ UNCHANGED <<gate, slot, token>>
        /\ loc' = [loc EXCEPT ![k].seen = sessions[s].project]
    BY <1>13 DEF FinishReadSession, Goes
  <2> HIDE DEF n
  <2> QED BY <1>0, <1>5, <2>1, <2>2
<1> QED BY <1>2, <1>4, <1>7, <1>8, <1>9, <1>11, <1>12, <1>13

(* The steps of a send that has a turn *)
LEMMA SendMoves ==
  ASSUME HostTypes, NEW k \in Task, pc[k] \in HasTurn,
         NEW n \in HasTurn, NEW l \in Locals,
         pc' = [pc EXCEPT ![k] = n], loc' = [loc EXCEPT ![k] = l],
         l.session = loc[k].session, l.turn = loc[k].turn,
         UNCHANGED <<durable, library, boot, listed, gate, drafts, nextDraft, history>>,
         slot' \in [Proc -> {None} \cup TurnId], token' \in [Task -> BOOLEAN]
  PROVE  HostTypes'
<1>1. n \in PC /\ loc[k].session \in SessionId /\ loc[k].turn \in TurnId
  BY DEF HostTypes, TaskTypeOK, HasTurn, PC
<1>2. gate' \in [Proc -> BOOLEAN]
  BY DEF HostTypes, HostTypeOK
<1> QED BY <1>1, <1>2, MoveTypes

(* What the end of a send is given to write *)
LEMMA FinishesTypes ==
  ASSUME HostTypes, NEW k \in Task, pc[k] \in HasTurn,
         NEW goal \in TerminalState, NEW code \in ErrorCode, NEW return \in {"end", "delta"},
         Finishes(k, goal, code, return),
         UNCHANGED <<durable, library, boot, listed, gate, drafts, nextDraft, history>>,
         slot' \in [Proc -> {None} \cup TurnId], token' \in [Task -> BOOLEAN]
  PROVE  HostTypes'
<1> DEFINE n == "finTurn"
           l == [loc[k] EXCEPT !.goal = goal, !.code = code, !.return = return]
<1>1. n \in HasTurn
  BY DEF HasTurn, SendPC, FinishPC, PreparePC
<1>0. loc[k] \in Locals
  BY DEF HostTypes, HostTypeOK, Locals
<1>2. l \in Locals /\ l.session = loc[k].session /\ l.turn = loc[k].turn
  BY <1>0 DEF Locals
<1>3. pc' = [pc EXCEPT ![k] = n] /\ loc' = [loc EXCEPT ![k] = l]
  BY DEF Finishes
<1> HIDE DEF n, l
<1> QED BY <1>1, <1>2, <1>3, SendMoves

LEMMA StreamEndsTypes ==
  ASSUME HostTypes, NEW k \in Task, pc[k] \in HasTurn,
         NEW r \in ErrorCode \cup {"ok"}, StreamEnds(k, r),
         UNCHANGED <<durable, library, process, nextDraft, history, token>>
  PROVE  HostTypes'
<1>0. loc[k] \in Locals /\ UNCHANGED <<boot, listed, gate, slot, drafts>>
        /\ slot' \in [Proc -> {None} \cup TurnId] /\ token' \in [Task -> BOOLEAN]
  BY DEF HostTypes, HostTypeOK, Locals, process
<1> DEFINE n == "finalize"
           l == [loc[k] EXCEPT !.result = r]
<1>1. n \in HasTurn
  BY DEF HasTurn, SendPC, FinishPC, PreparePC
<1>2. l \in Locals /\ l.session = loc[k].session /\ l.turn = loc[k].turn
  BY <1>0 DEF Locals
<1>3. pc' = [pc EXCEPT ![k] = n] /\ loc' = [loc EXCEPT ![k] = l]
  BY DEF StreamEnds
<1> HIDE DEF n, l
<1> QED BY <1>0, <1>1, <1>2, <1>3, SendMoves

(* Where the end of a send leaves its task *)
LEMMA FinishReturnsTask ==
  ASSUME HostTypes, NEW k \in Task, pc[k] \in HasTurn, NEW ok \in BOOLEAN,
         FinishReturns(k, ok)
  PROVE  /\ pc' \in [Task -> PC] /\ loc' \in [Task -> Locals]
         /\ \A j \in Task : TaskTypeOK(j)'
         /\ gate' \in [Proc -> BOOLEAN] /\ slot' \in [Proc -> {None} \cup TurnId]
         /\ token' \in [Task -> BOOLEAN]
<1>0. /\ loc[k] \in Locals /\ loc \in [Task -> Locals] /\ gate \in [Proc -> BOOLEAN]
      /\ slot \in [Proc -> {None} \cup TurnId] /\ token \in [Task -> BOOLEAN]
      /\ loc[k].session \in SessionId /\ loc[k].turn \in TurnId
  BY DEF HostTypes, HostTypeOK, Locals, TaskTypeOK
<1>1. CASE Ends(k)
  BY <1>1, TaskEnds
<1>2. CASE /\ pc' = [pc EXCEPT ![k] = "finalize"]
           /\ loc' = [loc EXCEPT ![k].already = ok,
                       ![k].result = IF ok THEN "output_limit" ELSE "agent_storage_unavailable"]
           /\ UNCHANGED <<gate, slot, token>>
  <2> DEFINE n == "finalize"
             r == IF ok THEN "output_limit" ELSE "agent_storage_unavailable"
             l == [loc[k] EXCEPT !.already = ok, !.result = r]
  <2>1. n \in PC /\ r \in ErrorCode \cup {"ok"}
    BY DEF PC, SendPC, ErrorCode
  <2>2. pc' = [pc EXCEPT ![k] = n] /\ loc' = [loc EXCEPT ![k] = l]
    BY <1>2
  <2>2a. UNCHANGED <<gate, slot, token>>
    BY <1>2
  <2> HIDE DEF n, r
  <2>3. l \in Locals /\ l.session = loc[k].session /\ l.turn = loc[k].turn
    BY <1>0, <2>1 DEF Locals
  <2> HIDE DEF l
  <2>4. /\ pc' \in [Task -> PC] /\ loc' \in [Task -> Locals]
        /\ \A j \in Task : TaskTypeOK(j)'
    BY <1>0, <2>1, <2>2, <2>3, TaskMoves
  <2> QED BY <1>0, <2>2a, <2>4
<1>3. CASE Goes(k, "recover") /\ UNCHANGED loc
  <2> DEFINE n == "recover"
  <2>1. n \in PC /\ pc' = [pc EXCEPT ![k] = n] /\ loc' = [loc EXCEPT ![k] = loc[k]]
          /\ UNCHANGED <<gate, slot, token>>
    BY <1>0, <1>3 DEF PC, SendPC, Goes
  <2> HIDE DEF n
  <2>2. /\ pc' \in [Task -> PC] /\ loc' \in [Task -> Locals]
        /\ \A j \in Task : TaskTypeOK(j)'
    BY <1>0, <2>1, TaskMoves
  <2> QED BY <1>0, <2>1, <2>2
<1> QED BY <1>1, <1>2, <1>3 DEF FinishReturns

LEMMA FinishReturnsTypes ==
  ASSUME HostTypes, NEW k \in Task, pc[k] \in HasTurn, NEW ok \in BOOLEAN,
         FinishReturns(k, ok),
         UNCHANGED <<durable, library, boot, listed, drafts, nextDraft, history>>
  PROVE  HostTypes'
<1>1. revoked' \subseteq TurnId /\ UNCHANGED <<assigned, captured>>
  BY DEF HostTypes, HostTypeOK, history
<1> QED BY <1>1, FinishReturnsTask, QuietTypes

(* The states and codes that the end of a stream gives *)
LEMMA FinalizationType ==
  ASSUME NEW r \in ErrorCode \cup {"ok"}, NEW done \in BOOLEAN, NEW cancelled \in BOOLEAN
  PROVE  /\ Finalization(r, done, cancelled).goal \in TerminalState
         /\ Finalization(r, done, cancelled).code \in ErrorCode
         /\ Finalization(r, done, cancelled).goal # "interrupted"
BY DEF Finalization, TerminalState, ErrorCode, ProviderError

LEMMA SendStartTypes ==
  ASSUME HostTypes, NEW k \in Task, SendStart(k)
  PROVE  HostTypes'
<1> DEFINE p == ProcOf[k]
<1>0. /\ loc[k] \in Locals /\ loc \in [Task -> Locals] /\ p \in Proc
      /\ slot \in [Proc -> {None} \cup TurnId] /\ token \in [Task -> BOOLEAN]
      /\ drafts \in [Proc -> DraftStore] /\ pc[k] \in HasTurn
      /\ loc[k].session \in SessionId /\ loc[k].turn \in TurnId
  <2>1. pc[k] \in HasTurn
    BY DEF SendStart, HasTurn, SendPC, PreparePC
  <2> QED BY <2>1, HostAssumption DEF HostTypes, HostTypeOK, TablesOK, TaskTypeOK, Locals
<1>1. UNCHANGED <<durable, library, boot, listed, gate, nextDraft, history>>
  BY DEF SendStart
<1>2. "context_limit" \in ErrorCode /\ "provider_unavailable" \in ErrorCode
        /\ "failed" \in TerminalState
  BY DEF ErrorCode, ProviderError, TerminalState
<1>3. CASE Finishes(k, "failed", "context_limit", "end") /\ UNCHANGED <<drafts, slot, token>>
  BY <1>0, <1>1, <1>2, <1>3, FinishesTypes
<1>4. CASE /\ drafts' = [drafts EXCEPT ![p] =
                           BindSessionScope(ClearHandle(@, loc[k].draft), loc[k].session)]
           /\ slot' = [slot EXCEPT ![p] = loc[k].turn]
           /\ token' = [token EXCEPT ![k] = FALSE]
           /\ \/ pc' = [pc EXCEPT ![k] = "refresh"] /\ UNCHANGED loc
              \/ Finishes(k, "failed", "provider_unavailable", "end")
  <2>1. slot' \in [Proc -> {None} \cup TurnId] /\ token' \in [Task -> BOOLEAN]
    BY <1>0, <1>4
  <2>2. drafts' \in [Proc -> DraftStore]
    <3> DEFINE d == BindSessionScope(ClearHandle(drafts[p], loc[k].draft), loc[k].session)
    <3>1. ClearHandle(drafts[p], loc[k].draft) \in DraftStore
      BY <1>0 DEF ClearHandle, DraftStore
    <3>2. SessionScope(loc[k].session) \in Scope
      BY <1>0 DEF SessionScope, Scope
    <3>3. d \in DraftStore
      BY <3>1, <3>2 DEF BindSessionScope, DraftStore
    <3> HIDE DEF d
    <3>4. drafts' = [drafts EXCEPT ![p] = d]
      BY <1>4 DEF d
    <3> QED BY <1>0, <3>3, <3>4
  <2>3. /\ pc' \in [Task -> PC] /\ loc' \in [Task -> Locals]
        /\ \A j \in Task : TaskTypeOK(j)'
    <3>1. CASE pc' = [pc EXCEPT ![k] = "refresh"] /\ UNCHANGED loc
      <4> DEFINE n == "refresh"
      <4>1. n \in PC /\ pc' = [pc EXCEPT ![k] = n] /\ loc' = [loc EXCEPT ![k] = loc[k]]
        BY <1>0, <3>1 DEF PC, SendPC
      <4> HIDE DEF n
      <4> QED BY <1>0, <4>1, TaskMoves
    <3>2. CASE Finishes(k, "failed", "provider_unavailable", "end")
      <4> DEFINE n == "finTurn"
                 g == "failed"
                 c == "provider_unavailable"
                 e == "end"
                 l == [loc[k] EXCEPT !.goal = g, !.code = c, !.return = e]
      <4>1. n \in PC /\ pc' = [pc EXCEPT ![k] = n] /\ loc' = [loc EXCEPT ![k] = l]
              /\ g \in TerminalState /\ c \in ErrorCode /\ e \in {"end", "delta"}
        BY <1>2, <3>2 DEF PC, SendPC, FinishPC, Finishes
      <4> HIDE DEF n, g, c, e
      <4>2. l \in Locals /\ l.session = loc[k].session /\ l.turn = loc[k].turn
        BY <1>0, <4>1 DEF Locals
      <4> HIDE DEF l
      <4> QED BY <1>0, <4>1, <4>2, TaskMoves
    <3> QED BY <1>4, <3>1, <3>2
  <2>4. HostTypeOK'
    BY <1>1, <2>1, <2>2, <2>3 DEF HostTypes, HostTypeOK, durable, library, Locals, history,
       DraftStore
  <2>5. TablesOK'
    BY <1>1, <2>2 DEF HostTypes, TablesOK, durable, library, history
  <2> QED BY <2>3, <2>4, <2>5 DEF HostTypes
<1> QED BY <1>3, <1>4 DEF SendStart

(* The stream and what it leads to, up to the write *)
LEMMA StreamTypes ==
  ASSUME HostTypes, NEW k \in Task,
         Refresh(k) \/ StreamCancelled(k) \/ StreamDelta(k) \/ StreamCompleted(k)
           \/ StreamFails(k) \/ DeltaReadTurn(k) \/ Finalize(k) \/ FinishReadTurn(k)
           \/ Recover(k)
  PROVE  HostTypes'
<1>0. /\ loc \in [Task -> Locals] /\ loc[k] \in Locals
      /\ slot \in [Proc -> {None} \cup TurnId] /\ token \in [Task -> BOOLEAN]
      /\ pc[k] \in HasTurn /\ loc[k].turn \in TurnId
      /\ \A t \in TurnId : turns[t].text \in 0 .. MaxText /\ turns[t].state \in TurnState
  <2>1. pc[k] \in HasTurn
    BY DEF Refresh, StreamCancelled, StreamDelta, StreamCompleted, StreamFails,
       DeltaReadTurn, Finalize, FinishReadTurn, Recover, HasTurn, SendPC, PreparePC,
       DeltaPC, FinishPC
  <2> QED BY <2>1 DEF HostTypes, HostTypeOK, TaskTypeOK, Locals
<1>1. UNCHANGED <<durable, library, boot, listed, drafts, nextDraft, history>>
  BY DEF Refresh, StreamCancelled, StreamDelta, StreamCompleted, StreamFails,
     DeltaReadTurn, Finalize, FinishReadTurn, Recover, process
<1>2. /\ TerminalState = {"completed", "cancelled", "failed", "interrupted"}
      /\ ErrorCode = {"provider_unavailable", "model_unavailable", "none",
                      "context_limit", "output_limit", "cancelled", "interrupted",
                      "agent_storage_unavailable"}
  BY DEF TerminalState, ErrorCode, ProviderError
<1>3. ASSUME NEW n \in HasTurn, NEW l \in Locals, UNCHANGED <<gate, slot, token>>,
             pc' = [pc EXCEPT ![k] = n], loc' = [loc EXCEPT ![k] = l],
             l.session = loc[k].session, l.turn = loc[k].turn
      PROVE  HostTypes'
  BY <1>0, <1>1, <1>3, SendMoves
<1>4. CASE Refresh(k)
  <2>1. UNCHANGED <<gate, slot, token>>
    BY <1>4 DEF Refresh, process
  <2>2. CASE \E g \in {"cancelled", "failed"}, c \in {"cancelled", "provider_unavailable"} :
               Finishes(k, g, c, "end")
    BY <1>0, <1>1, <1>2, <2>1, <2>2, FinishesTypes
  <2>3. CASE pc' = [pc EXCEPT ![k] = "stream"] /\ UNCHANGED loc
    <3> DEFINE n == "stream"
    <3>1. n \in HasTurn /\ pc' = [pc EXCEPT ![k] = n] /\ loc' = [loc EXCEPT ![k] = loc[k]]
      BY <1>0, <2>3 DEF HasTurn, SendPC, PreparePC
    <3> HIDE DEF n
    <3> QED BY <1>0, <1>3, <2>1, <3>1
  <2> QED BY <1>4, <2>2, <2>3 DEF Refresh
<1>5. CASE StreamCancelled(k) \/ StreamFails(k)
  <2>1. PICK r \in ErrorCode : StreamEnds(k, r)
    BY <1>2, <1>5 DEF StreamCancelled, StreamFails, ProviderError
  <2> QED BY <1>0, <1>1, <1>5, <2>1, StreamEndsTypes DEF StreamCancelled, StreamFails
<1>6. CASE StreamDelta(k)
  <2>1. PICK d \in {0, 1} : loc' = [loc EXCEPT ![k].delta = d]
    BY <1>6 DEF StreamDelta
  <2> DEFINE n == "delta"
             l == [loc[k] EXCEPT !.delta = d]
  <2>2. n \in HasTurn /\ pc' = [pc EXCEPT ![k] = n] /\ UNCHANGED <<gate, slot, token>>
    BY <1>6 DEF HasTurn, SendPC, PreparePC, DeltaPC, StreamDelta, process
  <2>3. l \in Locals /\ l.session = loc[k].session /\ l.turn = loc[k].turn
          /\ loc' = [loc EXCEPT ![k] = l]
    BY <1>0, <2>1 DEF Locals
  <2> HIDE DEF n, l
  <2> QED BY <1>3, <2>2, <2>3
<1>7. CASE StreamCompleted(k)
  <2> DEFINE n == "finalize"
             l == [loc[k] EXCEPT !.result = "ok", !.completed = TRUE]
  <2>2. n \in HasTurn /\ pc' = [pc EXCEPT ![k] = n] /\ UNCHANGED <<gate, slot, token>>
    BY <1>7 DEF HasTurn, SendPC, PreparePC, StreamCompleted, process
  <2>3. l \in Locals /\ l.session = loc[k].session /\ l.turn = loc[k].turn
          /\ loc' = [loc EXCEPT ![k] = l]
    BY <1>0, <1>7 DEF Locals, StreamCompleted
  <2> HIDE DEF n, l
  <2> QED BY <1>3, <2>2, <2>3
<1>8. CASE DeltaReadTurn(k)
  <2> DEFINE row == turns[loc[k].turn]
             first == row.state = "pending" /\ loc[k].delta > 0
  <2>0. UNCHANGED <<gate, slot, token>>
    BY <1>8 DEF DeltaReadTurn, process
  <2>1. CASE StreamEnds(k, "agent_storage_unavailable")
    BY <1>0, <1>1, <1>2, <1>8, <2>1, StreamEndsTypes DEF DeltaReadTurn
  <2>2. CASE /\ pc' = [pc EXCEPT ![k] = "finSession"]
             /\ loc' = [loc EXCEPT ![k].goal = "failed", ![k].code = "output_limit",
                                   ![k].return = "delta", ![k].text = row.text]
    <3> DEFINE n == "finSession"
               l == [loc[k] EXCEPT !.goal = "failed", !.code = "output_limit",
                                   !.return = "delta", !.text = row.text]
    <3>1. n \in HasTurn /\ pc' = [pc EXCEPT ![k] = n]
      BY <2>2 DEF HasTurn, SendPC, PreparePC, FinishPC
    <3>2. loc' = [loc EXCEPT ![k] = l]
      BY <2>2
    <3>3. row.text \in 0 .. MaxText /\ loc[k] \in Locals
      BY <1>0
    <3>4. "failed" \in TerminalState /\ "output_limit" \in ErrorCode
      BY DEF TerminalState, ErrorCode
    <3> HIDE DEF row
    <3>5. l \in Locals /\ l.session = loc[k].session /\ l.turn = loc[k].turn
      BY <3>3, <3>4 DEF Locals
    <3> HIDE DEF n, l
    <3> QED BY <1>3, <2>0, <3>1, <3>2, <3>5
  <2>3. CASE /\ row.text + loc[k].delta <= MaxText
             /\ pc' = [pc EXCEPT ![k] = IF first THEN "deltaSeq" ELSE "deltaWrite"]
             /\ loc' = [loc EXCEPT ![k].text = row.text + loc[k].delta,
                                   ![k].state = IF first THEN "streaming" ELSE row.state,
                                   ![k].first = first]
    <3> DEFINE n == IF first THEN "deltaSeq" ELSE "deltaWrite"
               x == row.text + loc[k].delta
               st == IF first THEN "streaming" ELSE row.state
               f == first
               l == [loc[k] EXCEPT !.text = x, !.state = st, !.first = f]
    <3>1. n \in HasTurn /\ pc' = [pc EXCEPT ![k] = n] /\ loc' = [loc EXCEPT ![k] = l]
      BY <2>3 DEF HasTurn, SendPC, PreparePC, DeltaPC
    <3>2. f \in BOOLEAN
      OBVIOUS
    <3>3. st \in TurnState
      BY <1>0 DEF TurnState, InflightState
    <3>4. x \in 0 .. MaxText
      <4>1. row.text \in 0 .. MaxText /\ loc[k].delta \in {0, 1} /\ MaxText \in Nat
        BY <1>0, HostAssumption DEF Locals
      <4> QED BY <2>3, <4>1
    <3> HIDE DEF n, x, st, f, row, first
    <3>5. l \in Locals /\ l.session = loc[k].session /\ l.turn = loc[k].turn
      BY <1>0, <3>2, <3>3, <3>4 DEF Locals
    <3> HIDE DEF l
    <3> QED BY <1>3, <2>0, <3>1, <3>5
  <2>4. \/ StreamEnds(k, "agent_storage_unavailable")
        \/ /\ pc' = [pc EXCEPT ![k] = "finSession"]
           /\ loc' = [loc EXCEPT ![k].goal = "failed", ![k].code = "output_limit",
                                 ![k].return = "delta", ![k].text = row.text]
        \/ /\ ~ (row.text + loc[k].delta > MaxText)
           /\ pc' = [pc EXCEPT ![k] = IF first THEN "deltaSeq" ELSE "deltaWrite"]
           /\ loc' = [loc EXCEPT ![k].text = row.text + loc[k].delta,
                                 ![k].state = IF first THEN "streaming" ELSE row.state,
                                 ![k].first = first]
    BY <1>8 DEF DeltaReadTurn
  <2>5. ~ (row.text + loc[k].delta > MaxText) => row.text + loc[k].delta <= MaxText
    <3>1. row.text \in 0 .. MaxText /\ loc[k].delta \in {0, 1} /\ MaxText \in Nat
      BY <1>0, HostAssumption DEF Locals
    <3> QED BY <3>1
  <2> QED BY <2>1, <2>2, <2>3, <2>4, <2>5
<1>9. CASE Finalize(k)
  <2>1. CASE Ends(k)
    BY <1>1, <2>1, EndTypes
  <2>2. ASSUME ~ Ends(k) PROVE HostTypes'
    <3> DEFINE f == Finalization(loc[k].result, loc[k].completed, token[k])
               g == f.goal
               c == f.code
    <3>1. Finishes(k, g, c, "end") /\ UNCHANGED <<gate, slot, token>>
      BY <1>9, <2>2 DEF Finalize
    <3>2. g \in TerminalState /\ c \in ErrorCode
      <4>1. /\ loc[k].result \in ErrorCode \cup {"ok"} /\ loc[k].completed \in BOOLEAN
            /\ token[k] \in BOOLEAN
        BY <1>0 DEF Locals
      <4> QED BY <4>1, FinalizationType
    <3> HIDE DEF f, g, c
    <3> QED BY <1>0, <1>1, <3>1, <3>2, FinishesTypes
  <2> QED BY <2>1, <2>2
<1>10. CASE FinishReadTurn(k)
  <2>1. CASE FinishReturns(k, FALSE)
    BY <1>0, <1>1, <2>1, FinishReturnsTypes
  <2>2. CASE Goes(k, "finSession") /\ loc' = [loc EXCEPT ![k].text = turns[loc[k].turn].text]
    <3> DEFINE n == "finSession"
               l == [loc[k] EXCEPT !.text = turns[loc[k].turn].text]
    <3>1. n \in HasTurn /\ pc' = [pc EXCEPT ![k] = n] /\ UNCHANGED <<gate, slot, token>>
      BY <2>2 DEF HasTurn, SendPC, PreparePC, FinishPC, Goes
    <3>2. l \in Locals /\ l.session = loc[k].session /\ l.turn = loc[k].turn
            /\ loc' = [loc EXCEPT ![k] = l]
      BY <1>0, <2>2 DEF Locals
    <3> HIDE DEF n, l
    <3> QED BY <1>3, <3>1, <3>2
  <2> QED BY <1>10, <2>1, <2>2 DEF FinishReadTurn
<1>11. CASE Recover(k)
  BY <1>1, <1>11, EndTypes DEF Recover
<1> QED BY <1>4, <1>5, <1>6, <1>7, <1>8, <1>9, <1>10, <1>11

---------------------------------------------------------------------------
(* The steps that write *)
LEMMA WriteTypes ==
  ASSUME HostTypes,
         UNCHANGED <<library, boot, drafts, nextDraft, captured, revoked>>,
         sessions' \in [SessionId -> [live : BOOLEAN, project : AnyProject]],
         turns' \in [TurnId -> TurnRow], events' \subseteq EventRow,
         assigned' \in [SessionId -> AnyProject],
         \A t \in TurnId : turns'[t].state # "absent" => turns'[t].session \in SessionId,
         \E n \in Nat : \A t \in TurnId : turns'[t].ordinal <= n,
         \E n \in Nat : \A e \in events' : e.sequence <= n,
         listed' = listed,
         pc' \in [Task -> PC], loc' \in [Task -> Locals], gate' \in [Proc -> BOOLEAN],
         slot' \in [Proc -> {None} \cup TurnId], token' \in [Task -> BOOLEAN],
         \A j \in Task : TaskTypeOK(j)'
  PROVE  HostTypes'
<1>1. HostTypeOK'
  BY DEF HostTypes, HostTypeOK, library, Locals, TurnRow, EventRow
<1>2. TablesOK'
  BY DEF HostTypes, TablesOK, library
<1> QED BY <1>1, <1>2 DEF HostTypes

(* One more event keeps the log bounded *)
LEMMA OneMoreEvent ==
  ASSUME HostTypes, NEW x \in EventRow, events' = events \cup {x}
  PROVE  events' \subseteq EventRow /\ \E n \in Nat : \A e \in events' : e.sequence <= n
<1>1. PICK n \in Nat : \A e \in events : e.sequence <= n
  BY DEF HostTypes, TablesOK
<1>2. events \subseteq EventRow /\ x.sequence \in Nat /\ \A e \in events : e.sequence \in Nat
  BY DEF HostTypes, HostTypeOK, EventRow
<1> DEFINE m == n + x.sequence
<1>3. m \in Nat /\ \A e \in events' : e.sequence <= m
  BY <1>1, <1>2
<1> HIDE DEF m
<1> QED BY <1>2, <1>3

(* A turn that is written keeps its session and its ordinal *)
LEMMA TurnUpdated ==
  ASSUME HostTypes, NEW t \in TurnId, turns[t].state # "absent", NEW r \in TurnRow,
         r.session = turns[t].session, r.ordinal = turns[t].ordinal,
         turns' = [turns EXCEPT ![t] = r]
  PROVE  /\ turns' \in [TurnId -> TurnRow]
         /\ \A u \in TurnId : turns'[u].state # "absent" => turns'[u].session \in SessionId
         /\ \E n \in Nat : \A u \in TurnId : turns'[u].ordinal <= n
<1>1. turns \in [TurnId -> TurnRow]
  BY DEF HostTypes, HostTypeOK, TurnRow
<1>2. /\ turns' \in [TurnId -> TurnRow]
      /\ \A u \in TurnId : turns'[u].session = turns[u].session
                           /\ turns'[u].ordinal = turns[u].ordinal
                           /\ (turns'[u].state # "absent" => turns[u].state # "absent")
  BY <1>1
<1> QED BY <1>2 DEF HostTypes, TablesOK

(* The row of a pending turn is inserted *)
LEMMA TurnInserted ==
  ASSUME HostTypes, NEW k \in Task, NEW s \in SessionId, NEW t \in TurnId,
         turns' = [turns EXCEPT ![t] = PendingTurn(k, s)]
  PROVE  /\ turns' \in [TurnId -> TurnRow]
         /\ \A u \in TurnId : turns'[u].state # "absent" => turns'[u].session \in SessionId
         /\ \E n \in Nat : \A u \in TurnId : turns'[u].ordinal <= n
<1> DEFINE r == PendingTurn(k, s)
<1>0. loc[k] \in Locals /\ turns \in [TurnId -> TurnRow] /\ 0 \in 0 .. MaxText
  BY HostAssumption DEF HostTypes, HostTypeOK, Locals, TurnRow
<1>1. r \in TurnRow /\ r.session = s
  BY <1>0 DEF PendingTurn, TurnRow, Locals, TurnState, InflightState, ErrorCode
<1>2. turns' = [turns EXCEPT ![t] = r]
  OBVIOUS
<1> HIDE DEF r
<1>3. turns' \in [TurnId -> TurnRow]
  BY <1>0, <1>1, <1>2
<1>4. turns'[t] = r /\ \A u \in TurnId : u # t => turns'[u] = turns[u]
  BY <1>0, <1>2
<1>5. \A u \in TurnId : turns'[u].state # "absent" => turns'[u].session \in SessionId
  BY <1>1, <1>4 DEF HostTypes, TablesOK
<1>6. PICK n \in Nat : \A u \in TurnId : turns[u].ordinal <= n
  BY DEF HostTypes, TablesOK
<1>7. r.ordinal \in Nat /\ \A u \in TurnId : turns[u].ordinal \in Nat
  BY <1>0, <1>1 DEF TurnRow
<1> DEFINE m == n + r.ordinal
<1>8. m \in Nat /\ \A u \in TurnId : turns'[u].ordinal <= m
  BY <1>4, <1>6, <1>7
<1> HIDE DEF m
<1> QED BY <1>3, <1>5, <1>8

LEMMA AppendTypes ==
  ASSUME HostTypes, NEW k \in Task, CreateSession(k) \/ AppendTurn(k)
  PROVE  HostTypes'
<1>0. /\ loc[k] \in Locals /\ loc \in [Task -> Locals] /\ gate \in [Proc -> BOOLEAN]
      /\ slot \in [Proc -> {None} \cup TurnId] /\ token \in [Task -> BOOLEAN]
      /\ sessions \in [SessionId -> [live : BOOLEAN, project : AnyProject]]
      /\ assigned \in [SessionId -> AnyProject]
      /\ loc[k].project \in AnyProject /\ loc[k].seen \in AnyProject
      /\ loc[k].sequence \in Nat
  BY DEF HostTypes, HostTypeOK, Locals
<1> DEFINE n == "assemble"
<1>1. n \in PC
  BY DEF PC, SendPC
<1>2. CASE CreateSession(k)
  <2>1. PICK s \in SessionId, t \in TurnId :
          /\ sessions' = [sessions EXCEPT ![s] = [live |-> TRUE, project |-> loc[k].project]]
          /\ turns' = [turns EXCEPT ![t] = PendingTurn(k, s)]
          /\ events' = events \cup {Event(s, None, 0, "session_created"),
                                    Event(s, t, 1, "turn_pending")}
          /\ assigned' = [assigned EXCEPT ![s] = loc[k].project]
          /\ loc' = [loc EXCEPT ![k].session = s, ![k].turn = t]
    BY <1>2 DEF CreateSession
  <2>2. /\ pc' = [pc EXCEPT ![k] = n] /\ UNCHANGED <<gate, slot, token>>
        /\ UNCHANGED <<library, boot, listed, drafts, nextDraft, captured, revoked>>
    BY <1>2 DEF CreateSession, Goes
  <2> DEFINE l == [loc[k] EXCEPT !.session = s, !.turn = t]
  <2>3. l \in Locals /\ l.session = s /\ l.turn = t /\ loc' = [loc EXCEPT ![k] = l]
    BY <1>0, <2>1 DEF Locals
  <2> HIDE DEF l, n
  <2>4. /\ pc' \in [Task -> PC] /\ loc' \in [Task -> Locals]
        /\ \A j \in Task : TaskTypeOK(j)'
    BY <1>1, <2>2, <2>3, TaskMoves
  <2>5. /\ turns' \in [TurnId -> TurnRow]
        /\ \A u \in TurnId : turns'[u].state # "absent" => turns'[u].session \in SessionId
        /\ \E m \in Nat : \A u \in TurnId : turns'[u].ordinal <= m
    BY <2>1, TurnInserted
  <2>6. /\ sessions' \in [SessionId -> [live : BOOLEAN, project : AnyProject]]
        /\ assigned' \in [SessionId -> AnyProject]
    BY <1>0, <2>1
  <2>7. events' \subseteq EventRow /\ \E m \in Nat : \A e \in events' : e.sequence <= m
    <3> DEFINE x == Event(s, None, 0, "session_created")
               y == Event(s, t, 1, "turn_pending")
    <3>1. x \in EventRow /\ y \in EventRow /\ x.sequence = 0 /\ y.sequence = 1
      BY DEF Event, EventRow, EventKind
    <3>2. PICK m \in Nat : \A e \in events : e.sequence <= m
      BY DEF HostTypes, TablesOK
    <3>3. events \subseteq EventRow /\ \A e \in events : e.sequence \in Nat
      BY DEF HostTypes, HostTypeOK, EventRow
    <3>4. events' = events \cup {x, y}
      BY <2>1
    <3> HIDE DEF x, y
    <3>5. \A e \in events' : e.sequence <= m + 1
      BY <3>1, <3>2, <3>3, <3>4
    <3> QED BY <3>1, <3>3, <3>4, <3>5
  <2> QED BY <1>0, <2>2, <2>4, <2>5, <2>6, <2>7, WriteTypes
<1>3. CASE AppendTurn(k)
  <2>1. CASE Ends(k) /\ UNCHANGED durable
    <3>1. UNCHANGED <<library, boot, listed, drafts, nextDraft, history>>
      BY <1>3 DEF AppendTurn
    <3> QED BY <2>1, <3>1, EndTypes
  <2>2. CASE /\ \E t \in TurnId :
                  /\ turns' = [turns EXCEPT ![t] = PendingTurn(k, loc[k].session)]
                  /\ events' = events \cup {Event(loc[k].session, t, loc[k].sequence, "turn_pending")}
                  /\ loc' = [loc EXCEPT ![k].turn = t]
             /\ sessions' = [sessions EXCEPT ![loc[k].session].project = loc[k].seen]
             /\ Goes(k, "assemble")
    <3> DEFINE s == loc[k].session
    <3>1. PICK t \in TurnId :
             /\ turns' = [turns EXCEPT ![t] = PendingTurn(k, s)]
             /\ events' = events \cup {Event(s, t, loc[k].sequence, "turn_pending")}
             /\ loc' = [loc EXCEPT ![k].turn = t]
      BY <2>2
    <3>2. /\ pc' = [pc EXCEPT ![k] = n] /\ UNCHANGED <<gate, slot, token>>
          /\ UNCHANGED <<library, boot, listed, drafts, nextDraft, captured, revoked, assigned>>
          /\ sessions' = [sessions EXCEPT ![s].project = loc[k].seen] /\ s \in SessionId
      BY <1>0, <1>3, <2>2 DEF AppendTurn, Goes, history, Locals
    <3> DEFINE l == [loc[k] EXCEPT !.turn = t]
    <3>3. l \in Locals /\ l.session = s /\ l.turn = t /\ loc' = [loc EXCEPT ![k] = l]
      BY <1>0, <3>1 DEF Locals
    <3> HIDE DEF l, n, s
    <3>4. /\ pc' \in [Task -> PC] /\ loc' \in [Task -> Locals]
          /\ \A j \in Task : TaskTypeOK(j)'
      BY <1>1, <3>2, <3>3, TaskMoves
    <3>5. /\ turns' \in [TurnId -> TurnRow]
          /\ \A u \in TurnId : turns'[u].state # "absent" => turns'[u].session \in SessionId
          /\ \E m \in Nat : \A u \in TurnId : turns'[u].ordinal <= m
      BY <3>1, <3>2, TurnInserted
    <3>6. sessions' \in [SessionId -> [live : BOOLEAN, project : AnyProject]]
      BY <1>0, <3>2
    <3>7. events' \subseteq EventRow /\ \E m \in Nat : \A e \in events' : e.sequence <= m
      <4>1. Event(s, t, loc[k].sequence, "turn_pending") \in EventRow
        BY <1>0, <3>2 DEF Event, EventRow, EventKind
      <4> QED BY <3>1, <4>1, OneMoreEvent
    <3> QED BY <1>0, <3>2, <3>4, <3>5, <3>6, <3>7, WriteTypes
  <2> QED BY <1>3, <2>1, <2>2 DEF AppendTurn
<1> QED BY <1>2, <1>3

LEMMA EndKinds ==
  ASSUME NEW g \in TerminalState, NEW c \in ErrorCode
  PROVE  /\ ForTerminalState(g) \in EventKind /\ ForTerminalState(g) \in TerminalKind
         /\ CodeFor(g, c) \in ErrorCode
BY DEF ForTerminalState, EventKind, TerminalKind, TerminalState, CodeFor, ErrorCode

LEMMA DeltaWriteTypes ==
  ASSUME HostTypes, NEW k \in Task, DeltaWrite(k)
  PROVE  HostTypes'
<1> DEFINE s == loc[k].session
           t == loc[k].turn
<1>0. /\ pc[k] \in HasTurn /\ loc[k] \in Locals /\ loc \in [Task -> Locals]
      /\ s \in SessionId /\ t \in TurnId
      /\ loc[k].sequence \in Nat /\ loc[k].text \in 0 .. MaxText /\ loc[k].state \in TurnState
      /\ slot \in [Proc -> {None} \cup TurnId] /\ token \in [Task -> BOOLEAN]
      /\ gate \in [Proc -> BOOLEAN] /\ turns \in [TurnId -> TurnRow]
      /\ sessions \in [SessionId -> [live : BOOLEAN, project : AnyProject]]
      /\ assigned \in [SessionId -> AnyProject]
  <2>1. pc[k] \in HasTurn
    BY DEF DeltaWrite, HasTurn, SendPC, PreparePC, DeltaPC
  <2> QED BY <2>1 DEF HostTypes, HostTypeOK, TaskTypeOK, Locals, TurnRow
<1>1. UNCHANGED <<library, sessions, process, token, nextDraft, history>>
  BY DEF DeltaWrite
<1>2. "provider_unavailable" \in ErrorCode \cup {"ok"}
        /\ "agent_storage_unavailable" \in ErrorCode \cup {"ok"}
  BY DEF ErrorCode, ProviderError
<1>3. CASE StreamEnds(k, "agent_storage_unavailable") /\ UNCHANGED <<turns, events>>
  <2>1. UNCHANGED durable
    BY <1>1, <1>3 DEF durable
  <2> QED BY <1>0, <1>1, <1>2, <1>3, <2>1, StreamEndsTypes
<1>4. CASE /\ CanUpdateInflight(t)
           /\ turns' = [turns EXCEPT ![t].text = loc[k].text, ![t].state = loc[k].state]
           /\ events' = events \cup
                (IF loc[k].first THEN {Event(s, t, loc[k].sequence, "turn_streaming")} ELSE {})
           /\ \/ pc' = [pc EXCEPT ![k] = "stream"] /\ UNCHANGED loc
              \/ StreamEnds(k, "provider_unavailable")
  <2>1. /\ pc' \in [Task -> PC] /\ loc' \in [Task -> Locals]
        /\ \A j \in Task : TaskTypeOK(j)'
    <3>1. CASE pc' = [pc EXCEPT ![k] = "stream"] /\ UNCHANGED loc
      <4> DEFINE n == "stream"
      <4>1. n \in PC /\ pc' = [pc EXCEPT ![k] = n] /\ loc' = [loc EXCEPT ![k] = loc[k]]
        BY <1>0, <3>1 DEF PC, SendPC
      <4> HIDE DEF n
      <4> QED BY <1>0, <4>1, TaskMoves
    <3>2. CASE StreamEnds(k, "provider_unavailable")
      <4> DEFINE n == "finalize"
                 r == "provider_unavailable"
                 l == [loc[k] EXCEPT !.result = r]
      <4>1. n \in PC /\ pc' = [pc EXCEPT ![k] = n] /\ loc' = [loc EXCEPT ![k] = l]
        BY <3>2 DEF PC, SendPC, StreamEnds
      <4>2. r \in ErrorCode \cup {"ok"}
        BY <1>2
      <4> HIDE DEF n, r
      <4>3. l \in Locals /\ l.session = s /\ l.turn = t
        BY <1>0, <4>2 DEF Locals
      <4> HIDE DEF l
      <4> QED BY <1>0, <4>1, <4>3, TaskMoves
    <3> QED BY <1>4, <3>1, <3>2
  <2> DEFINE r == [turns[t] EXCEPT !.text = loc[k].text, !.state = loc[k].state]
  <2>2. r \in TurnRow /\ r.session = turns[t].session /\ r.ordinal = turns[t].ordinal
    BY <1>0 DEF TurnRow
  <2>3. turns' = [turns EXCEPT ![t] = r]
    BY <1>4
  <2>4. turns[t].state # "absent"
    BY <1>4 DEF CanUpdateInflight, Inflight, InflightState
  <2> HIDE DEF r
  <2>5. /\ turns' \in [TurnId -> TurnRow]
        /\ \A u \in TurnId : turns'[u].state # "absent" => turns'[u].session \in SessionId
        /\ \E n \in Nat : \A u \in TurnId : turns'[u].ordinal <= n
    BY <1>0, <2>2, <2>3, <2>4, TurnUpdated
  <2>6. events' \subseteq EventRow /\ \E n \in Nat : \A e \in events' : e.sequence <= n
    <3>1. CASE loc[k].first
      <4>1. Event(s, t, loc[k].sequence, "turn_streaming") \in EventRow
        BY <1>0 DEF Event, EventRow, EventKind
      <4>2. events' = events \cup {Event(s, t, loc[k].sequence, "turn_streaming")}
        BY <1>4, <3>1
      <4> QED BY <4>1, <4>2, OneMoreEvent
    <3>2. CASE ~ loc[k].first
      <4>1. events' = events
        BY <1>4, <3>2
      <4> QED BY <4>1 DEF HostTypes, HostTypeOK, TablesOK, EventRow
    <3> QED BY <3>1, <3>2
  <2>7. /\ UNCHANGED <<library, boot, drafts, nextDraft, captured, revoked>>
        /\ UNCHANGED <<sessions, assigned, listed, gate, slot, token>>
    BY <1>1 DEF process, history
  <2>8. /\ sessions' \in [SessionId -> [live : BOOLEAN, project : AnyProject]]
        /\ assigned' \in [SessionId -> AnyProject] /\ gate' \in [Proc -> BOOLEAN]
        /\ slot' \in [Proc -> {None} \cup TurnId] /\ token' \in [Task -> BOOLEAN]
    BY <1>0, <2>7
  <2> QED BY <2>1, <2>5, <2>6, <2>7, <2>8, WriteTypes
<1> QED BY <1>3, <1>4 DEF DeltaWrite

LEMMA FinishWriteTypes ==
  ASSUME HostTypes, NEW k \in Task, FinishWrite(k)
  PROVE  HostTypes'
<1> DEFINE s == loc[k].session
           t == loc[k].turn
           g == loc[k].goal
<1>0. /\ pc[k] \in HasTurn /\ loc[k] \in Locals
      /\ s \in SessionId /\ t \in TurnId
      /\ loc[k].sequence \in Nat /\ loc[k].text \in 0 .. MaxText
      /\ g \in TerminalState /\ loc[k].code \in ErrorCode
      /\ turns \in [TurnId -> TurnRow] /\ loc[k].seen \in AnyProject
      /\ sessions \in [SessionId -> [live : BOOLEAN, project : AnyProject]]
      /\ assigned \in [SessionId -> AnyProject]
  <2>1. pc[k] \in HasTurn
    BY DEF FinishWrite, HasTurn, SendPC, PreparePC, FinishPC
  <2> QED BY <2>1 DEF HostTypes, HostTypeOK, TaskTypeOK, Locals, TurnRow
<1>1. UNCHANGED <<library, boot, listed, drafts, nextDraft, history>>
  BY DEF FinishWrite
<1>2. CASE UNCHANGED durable /\ FinishReturns(k, FALSE)
  BY <1>0, <1>1, <1>2, FinishReturnsTypes
<1>3. CASE /\ CanUpdateInflight(t)
           /\ sessions' = [sessions EXCEPT ![s].project = loc[k].seen]
           /\ turns' = [turns EXCEPT ![t].state = g, ![t].text = loc[k].text,
                                     ![t].code = CodeFor(g, loc[k].code)]
           /\ events' = events \cup {Event(s, t, loc[k].sequence, ForTerminalState(g))}
           /\ FinishReturns(k, TRUE)
  <2>1. /\ pc' \in [Task -> PC] /\ loc' \in [Task -> Locals]
        /\ \A j \in Task : TaskTypeOK(j)'
        /\ gate' \in [Proc -> BOOLEAN] /\ slot' \in [Proc -> {None} \cup TurnId]
        /\ token' \in [Task -> BOOLEAN]
    BY <1>0, <1>3, FinishReturnsTask
  <2> DEFINE c == CodeFor(g, loc[k].code)
             e == ForTerminalState(g)
             r == [turns[t] EXCEPT !.state = g, !.text = loc[k].text, !.code = c]
  <2>2. c \in ErrorCode /\ e \in EventKind /\ g \in TurnState
    BY <1>0, EndKinds DEF TurnState
  <2>3. turns' = [turns EXCEPT ![t] = r]
    BY <1>3
  <2>4. turns[t].state # "absent"
    BY <1>3 DEF CanUpdateInflight, Inflight, InflightState
  <2> HIDE DEF c
  <2>5. r \in TurnRow /\ r.session = turns[t].session /\ r.ordinal = turns[t].ordinal
    BY <1>0, <2>2 DEF TurnRow
  <2> HIDE DEF r
  <2>6. /\ turns' \in [TurnId -> TurnRow]
        /\ \A u \in TurnId : turns'[u].state # "absent" => turns'[u].session \in SessionId
        /\ \E n \in Nat : \A u \in TurnId : turns'[u].ordinal <= n
    BY <1>0, <2>3, <2>4, <2>5, TurnUpdated
  <2>7. events' \subseteq EventRow /\ \E n \in Nat : \A x \in events' : x.sequence <= n
    <3>1. events' = events \cup {Event(s, t, loc[k].sequence, e)}
      BY <1>3
    <3> HIDE DEF e
    <3>2. Event(s, t, loc[k].sequence, e) \in EventRow
      BY <1>0, <2>2 DEF Event, EventRow
    <3> QED BY <3>1, <3>2, OneMoreEvent
  <2>8. /\ UNCHANGED <<library, boot, drafts, nextDraft, captured, revoked>>
        /\ UNCHANGED <<assigned, listed>>
    BY <1>1 DEF history
  <2>9. sessions' \in [SessionId -> [live : BOOLEAN, project : AnyProject]]
          /\ assigned' \in [SessionId -> AnyProject]
    BY <1>0, <1>3, <2>8
  <2> QED BY <2>1, <2>6, <2>7, <2>8, <2>9, WriteTypes
<1> QED BY <1>2, <1>3 DEF FinishWrite

LEMMA SetProjectTypes ==
  ASSUME HostTypes, NEW k \in Task, SetProjectWrite(k)
  PROVE  HostTypes'
<1> DEFINE s == loc[k].session
<1>0. /\ s \in SessionId /\ loc[k].sequence \in Nat
      /\ turns \in [TurnId -> TurnRow] /\ loc[k].project \in AnyProject
      /\ sessions \in [SessionId -> [live : BOOLEAN, project : AnyProject]]
      /\ assigned \in [SessionId -> AnyProject]
  <2>1. pc[k] \in HasSession
    BY DEF SetProjectWrite, HasSession, ProjectPC
  <2> QED BY <2>1 DEF HostTypes, HostTypeOK, TaskTypeOK, TurnRow
<1>1. /\ UNCHANGED <<library, boot, drafts, nextDraft, captured, revoked>>
      /\ UNCHANGED <<listed, turns>> /\ Ends(k)
  BY DEF SetProjectWrite
<1>2. /\ pc' \in [Task -> PC] /\ loc' \in [Task -> Locals]
      /\ \A j \in Task : TaskTypeOK(j)'
      /\ gate' \in [Proc -> BOOLEAN] /\ slot' \in [Proc -> {None} \cup TurnId]
      /\ token' \in [Task -> BOOLEAN]
  BY <1>1, TaskEnds
<1>3. /\ turns' \in [TurnId -> TurnRow]
      /\ \A u \in TurnId : turns'[u].state # "absent" => turns'[u].session \in SessionId
      /\ \E n \in Nat : \A u \in TurnId : turns'[u].ordinal <= n
  BY <1>0, <1>1 DEF HostTypes, TablesOK
<1>4. /\ sessions' \in [SessionId -> [live : BOOLEAN, project : AnyProject]]
      /\ assigned' \in [SessionId -> AnyProject]
      /\ events' \subseteq EventRow /\ \E n \in Nat : \A e \in events' : e.sequence <= n
  <2>1. CASE UNCHANGED <<sessions, events, assigned>>
    BY <1>0, <2>1 DEF HostTypes, HostTypeOK, TablesOK, EventRow
  <2>2. CASE /\ sessions' = [sessions EXCEPT ![s].project = loc[k].project]
             /\ events' = events \cup
                  {Event(s, None, loc[k].sequence, "project_association_changed")}
             /\ assigned' = [assigned EXCEPT ![s] = loc[k].project]
    <3>1. Event(s, None, loc[k].sequence, "project_association_changed") \in EventRow
      BY <1>0 DEF Event, EventRow, EventKind
    <3>2. events' \subseteq EventRow /\ \E n \in Nat : \A e \in events' : e.sequence <= n
      BY <2>2, <3>1, OneMoreEvent
    <3> QED BY <1>0, <2>2, <3>2
  <2> QED BY <2>1, <2>2 DEF SetProjectWrite
<1> QED BY <1>1, <1>2, <1>3, <1>4, WriteTypes

---------------------------------------------------------------------------
(* The drafts, the Artifacts and the token in the slot *)
LEMMA DraftTypes ==
  ASSUME HostTypes,
         NEW p \in Proc, NEW d \in DraftStore, drafts' = [drafts EXCEPT ![p] = d],
         UNCHANGED <<library, durable, boot, listed, assigned, revoked>>,
         captured' \in [Handle -> Scope], nextDraft' \in Nat,
         pc' \in [Task -> PC], loc' \in [Task -> Locals], gate' \in [Proc -> BOOLEAN],
         slot' \in [Proc -> {None} \cup TurnId], token' \in [Task -> BOOLEAN],
         \A j \in Task : TaskTypeOK(j)'
  PROVE  HostTypes'
<1>1. drafts' \in [Proc -> DraftStore]
  BY DEF HostTypes, TablesOK
<1>2. \A q \in Proc : /\ drafts'[q].scope \in Scope
                      /\ drafts'[q].drafts \subseteq [handle : Handle, scope : Scope]
  BY <1>1 DEF DraftStore
<1>3. HostTypeOK'
  BY <1>2 DEF HostTypes, HostTypeOK, durable, library, Locals
<1>4. TablesOK'
  BY <1>1 DEF HostTypes, TablesOK, durable, library
<1> QED BY <1>3, <1>4 DEF HostTypes

LEMMA ComposerTypes ==
  ASSUME HostTypes, \/ \E k \in Task : PickEnd(k)
                    \/ \E p \in Proc : ClearDraft(p) \/ SetScope(p)
  PROVE  HostTypes'
<1>0. /\ drafts \in [Proc -> DraftStore] /\ nextDraft \in Nat
      /\ captured \in [Handle -> Scope]
      /\ pc \in [Task -> PC] /\ loc \in [Task -> Locals] /\ gate \in [Proc -> BOOLEAN]
      /\ slot \in [Proc -> {None} \cup TurnId] /\ token \in [Task -> BOOLEAN]
      /\ \A j \in Task : TaskTypeOK(j)
  BY DEF HostTypes, HostTypeOK, TablesOK, Locals
<1>1. ASSUME NEW p \in Proc, NEW d \in DraftStore, drafts' = [drafts EXCEPT ![p] = d],
             UNCHANGED <<library, durable, boot, listed, gate, slot, pc, loc, token>>,
             UNCHANGED <<nextDraft, history>>
      PROVE  HostTypes'
  <2>1. /\ UNCHANGED <<library, durable, boot, listed, assigned, revoked>>
        /\ captured' \in [Handle -> Scope] /\ nextDraft' \in Nat
        /\ pc' \in [Task -> PC] /\ loc' \in [Task -> Locals] /\ gate' \in [Proc -> BOOLEAN]
        /\ slot' \in [Proc -> {None} \cup TurnId] /\ token' \in [Task -> BOOLEAN]
    BY <1>0, <1>1 DEF history
  <2>2. \A j \in Task : TaskTypeOK(j)'
    BY <1>0, <1>1 DEF TaskTypeOK
  <2> QED BY <1>1, <2>1, <2>2, DraftTypes
<1>2. ASSUME NEW p \in Proc, ClearDraft(p) PROVE HostTypes'
  <2>1. ASSUME NEW h PROVE ClearHandle(drafts[p], h) \in DraftStore
    BY <1>0 DEF ClearHandle, DraftStore
  <2>2. ClearAll(drafts[p]) \in DraftStore
    BY <1>0 DEF ClearAll, DraftStore
  <2>3. \E d \in DraftStore : drafts' = [drafts EXCEPT ![p] = d]
    BY <1>2, <2>1, <2>2 DEF ClearDraft
  <2>4. /\ UNCHANGED <<library, durable, boot, listed, gate, slot, pc, loc, token>>
        /\ UNCHANGED <<nextDraft, history>>
    BY <1>2 DEF ClearDraft
  <2> QED BY <1>1, <2>3, <2>4
<1>3. ASSUME NEW p \in Proc, SetScope(p) PROVE HostTypes'
  <2>1. ASSUME NEW s \in SessionId PROVE BindSessionScope(drafts[p], s) \in DraftStore
    <3>1. SessionScope(s) \in Scope
      BY DEF SessionScope, Scope
    <3> QED BY <1>0, <3>1 DEF BindSessionScope, DraftStore
  <2>2. ASSUME drafts[p].next < MaxScopes PROVE BeginNewSessionScope(drafts[p]) \in DraftStore
    <3>1. drafts[p].next \in Nat /\ drafts[p] \in DraftStore
      BY <1>0 DEF DraftStore
    <3>2. NewSessionScope(drafts[p].next) \in Scope
      BY <2>2, <3>1, HostAssumption DEF NewSessionScope, Scope
    <3> DEFINE c == NewSessionScope(drafts[p].next)
               m == drafts[p].next + 1
    <3>3. m \in Nat /\ c \in Scope
      BY <3>1, <3>2
    <3>4. BeginNewSessionScope(drafts[p])
            = [drafts[p] EXCEPT !.scope = c, !.next = m, !.drafts = {}]
      BY DEF BeginNewSessionScope
    <3> HIDE DEF c, m
    <3>5. [drafts[p] EXCEPT !.scope = c, !.next = m, !.drafts = {}] \in DraftStore
      BY <3>1, <3>3 DEF DraftStore
    <3> QED BY <3>4, <3>5
  <2>3. \E d \in DraftStore : drafts' = [drafts EXCEPT ![p] = d]
    BY <1>3, <2>1, <2>2 DEF SetScope
  <2>4. /\ UNCHANGED <<library, durable, boot, listed, gate, slot, pc, loc, token>>
        /\ UNCHANGED <<nextDraft, history>>
    BY <1>3 DEF SetScope
  <2> QED BY <1>1, <2>3, <2>4
<1>4. ASSUME NEW k \in Task, PickEnd(k) PROVE HostTypes'
  <2> DEFINE p == ProcOf[k]
  <2>0. p \in Proc /\ Ends(k)
    BY <1>4, HostAssumption DEF PickEnd
  <2>1. /\ UNCHANGED <<library, durable, boot, listed, assigned, revoked>>
    BY <1>4 DEF PickEnd
  <2>2. CASE UNCHANGED <<drafts, nextDraft, captured>>
    <3>1. UNCHANGED <<durable, library, boot, listed, drafts, nextDraft, history>>
      BY <2>1, <2>2 DEF history
    <3> QED BY <2>0, <3>1, EndTypes
  <2>3. CASE /\ nextDraft \in Handle
             /\ drafts' = [drafts EXCEPT ![p] = ReplaceWith(@, nextDraft)]
             /\ captured' = [captured EXCEPT ![nextDraft] = drafts[p].scope]
             /\ nextDraft' = nextDraft + 1
    <3> DEFINE d == ReplaceWith(drafts[p], nextDraft)
    <3>1. d \in DraftStore /\ drafts[p].scope \in Scope
      BY <1>0, <2>0, <2>3 DEF ReplaceWith, DraftStore
    <3>2. captured' \in [Handle -> Scope] /\ nextDraft' \in Nat
      BY <1>0, <2>3, <3>1
    <3>3. drafts' = [drafts EXCEPT ![p] = d]
      BY <2>3
    <3> HIDE DEF d
    <3> QED BY <2>0, <2>1, <3>1, <3>2, <3>3, TaskEnds, DraftTypes
  <2> QED BY <1>4, <2>2, <2>3 DEF PickEnd
<1> QED BY <1>2, <1>3, <1>4

LEMMA LibraryTypes ==
  ASSUME HostTypes, NEW p \in Proc, SaveRead(p) \/ SaveWrite(p)
  PROVE  HostTypes'
<1>0. UNCHANGED <<durable, process, pc, loc, token, nextDraft, history>>
  BY DEF SaveRead, SaveWrite
<1>1. saving \in [Proc -> SUBSET SavedRow] /\ artifacts \subseteq SavedRow
  BY DEF HostTypes, HostTypeOK, TablesOK, SavedRow
<1>2. saving' \in [Proc -> SUBSET SavedRow] /\ artifacts' \subseteq SavedRow
  <2>1. CASE SaveRead(p)
    <3>1. PICK t \in TurnId : CanBeSaved(turns[t]) /\ saving' = [saving EXCEPT ![p] =
             {[turn |-> t, session |-> turns[t].session, text |-> turns[t].text,
               project |-> turns[t].project]}]
      BY <2>1 DEF SaveRead
    <3>2. /\ turns[t].session \in SessionId /\ turns[t].project \in AnyProject
          /\ turns[t].text \in 1 .. MaxText
      <4>1. turns[t].state # "absent" /\ turns[t].text > 0
        BY <3>1 DEF CanBeSaved
      <4>2. turns[t].text \in 0 .. MaxText /\ MaxText \in Nat
        BY HostAssumption DEF HostTypes, HostTypeOK
      <4> QED BY <4>1, <4>2 DEF HostTypes, HostTypeOK, TablesOK
    <3>3. UNCHANGED artifacts
      BY <2>1 DEF SaveRead
    <3> QED BY <1>1, <3>1, <3>2, <3>3 DEF SavedRow
  <2>2. CASE SaveWrite(p)
    BY <1>1, <2>2 DEF SaveWrite
  <2> QED BY <2>1, <2>2
<1>3. HostTypeOK'
  BY <1>0, <1>2 DEF HostTypes, HostTypeOK, durable, process, history, SavedRow
<1>4. TablesOK'
  BY <1>0, <1>2 DEF HostTypes, TablesOK, durable, process, history
<1> QED BY <1>0, <1>3, <1>4 DEF HostTypes, TaskTypeOK

LEMMA CancelTypes ==
  ASSUME HostTypes, NEW p \in Proc, CancelAgentTurn(p)
  PROVE  HostTypes'
<1>0. /\ slot[p] # None /\ UNCHANGED <<boot, listed, drafts, assigned, captured>>
      /\ UNCHANGED <<library, durable, gate, slot, pc, loc, nextDraft>>
  BY DEF CancelAgentTurn, process
<1>1. /\ pc \in [Task -> PC] /\ loc \in [Task -> Locals] /\ gate \in [Proc -> BOOLEAN]
      /\ slot \in [Proc -> {None} \cup TurnId] /\ token \in [Task -> BOOLEAN]
      /\ revoked \subseteq TurnId
  BY DEF HostTypes, HostTypeOK, Locals
<1>2. slot[p] \in TurnId
  BY <1>0, <1>1
<1>3. token' \in [Task -> BOOLEAN] /\ revoked' \subseteq TurnId
  <2>1. PICK k \in Task :
          /\ token' = [token EXCEPT ![k] = TRUE]
          /\ revoked' = revoked \cup
               (IF pc[k] \in {"refresh", "stream", "finalize"} \cup DeltaPC
                THEN {slot[p]} ELSE {})
    BY DEF CancelAgentTurn
  <2> QED BY <1>1, <1>2, <2>1
<1>4. /\ pc' \in [Task -> PC] /\ loc' \in [Task -> Locals] /\ gate' \in [Proc -> BOOLEAN]
      /\ slot' \in [Proc -> {None} \cup TurnId] /\ \A j \in Task : TaskTypeOK(j)'
  BY <1>0, <1>1 DEF HostTypes, TaskTypeOK
<1> QED BY <1>0, <1>3, <1>4, QuietTypes

---------------------------------------------------------------------------
(* Faults and start-up *)
LEMMA FaultTypes ==
  ASSUME HostTypes, \/ \E k \in Task : StoreFails(k)
                    \/ \E p \in Proc : ProcessEnds(p)
  PROVE  HostTypes'
<1>1. ASSUME NEW k \in Task, StoreFails(k) PROVE HostTypes'
  <2>1. UNCHANGED <<library, durable, boot, listed, drafts, nextDraft, history>>
    BY <1>1 DEF StoreFails
  <2>2. CASE Ends(k)
    BY <2>1, <2>2, EndTypes
  <2>3. CASE pc[k] \in DeltaPC /\ StreamEnds(k, "agent_storage_unavailable")
             /\ UNCHANGED <<gate, slot, token>>
    <3>1. "agent_storage_unavailable" \in ErrorCode \cup {"ok"} /\ pc[k] \in HasTurn
      BY <2>3 DEF ErrorCode, HasTurn, DeltaPC, PreparePC, SendPC
    <3>2. UNCHANGED <<durable, library, process, nextDraft, history, token>>
      BY <2>1, <2>3 DEF process
    <3> QED BY <2>3, <3>1, <3>2, StreamEndsTypes
  <2>4. CASE pc[k] \in FinishPC /\ FinishReturns(k, FALSE)
    <3>1. pc[k] \in HasTurn
      BY <2>4 DEF HasTurn, FinishPC, PreparePC, SendPC
    <3> QED BY <2>1, <2>4, <3>1, FinishReturnsTypes
  <2> QED BY <1>1, <2>2, <2>3, <2>4 DEF StoreFails, StorePC
<1>2. ASSUME NEW p \in Proc, ProcessEnds(p) PROVE HostTypes'
  <2>0. /\ pc \in [Task -> PC] /\ loc \in [Task -> Locals] /\ gate \in [Proc -> BOOLEAN]
        /\ slot \in [Proc -> {None} \cup TurnId] /\ token \in [Task -> BOOLEAN]
        /\ boot \in [Proc -> {"new", "down", "listing", "writing", "up"}]
        /\ saving \in [Proc -> SUBSET SavedRow] /\ listed \in [Proc -> SUBSET ListedRow]
        /\ drafts \in [Proc -> DraftStore]
        /\ \A q \in Proc : IsFiniteSet(listed[q])
        /\ \A q \in Proc : \E n \in Nat : \A r \in listed[q] : r.sequence <= n
    BY DEF HostTypes, HostTypeOK, TablesOK, Locals
  <2>1. EmptyDrafts \in DraftStore
    BY HostAssumption DEF EmptyDrafts, DraftStore, NewSessionScope, Scope
  <2>2. /\ gate' \in [Proc -> BOOLEAN] /\ slot' \in [Proc -> {None} \cup TurnId]
        /\ boot' \in [Proc -> {"new", "down", "listing", "writing", "up"}]
        /\ saving' \in [Proc -> SUBSET SavedRow] /\ listed' \in [Proc -> SUBSET ListedRow]
        /\ drafts' \in [Proc -> DraftStore]
    BY <1>2, <2>0, <2>1 DEF ProcessEnds
  <2>3. token' \in [Task -> BOOLEAN]
    BY <1>2, <2>0 DEF ProcessEnds
  <2>4. /\ pc' \in [Task -> PC] /\ loc' \in [Task -> Locals]
        /\ \A k \in Task : TaskTypeOK(k)'
    <3>1. \A k \in Task : /\ pc'[k] = (IF ProcOf[k] = p THEN "idle" ELSE pc[k])
                          /\ loc'[k] = (IF ProcOf[k] = p THEN Blank ELSE loc[k])
      BY <1>2 DEF ProcessEnds
    <3>2. "idle" \in PC /\ "idle" \notin HasSession \cup HasTurn
      BY DEF PC, HasSession, HasTurn, SendPC, PreparePC, ProjectPC, DeltaPC, FinishPC
    <3>3. pc' \in [Task -> PC] /\ loc' \in [Task -> Locals]
      BY <1>2, <2>0, <3>2, BlankType DEF ProcessEnds
    <3> QED BY <3>1, <3>2, <3>3 DEF HostTypes, TaskTypeOK
  <2>5. \A q \in Proc : listed'[q] = listed[q] \/ listed'[q] = {}
    BY <1>2, <2>0 DEF ProcessEnds
  <2>6. UNCHANGED <<durable, artifacts, nextDraft, history>>
    BY <1>2 DEF ProcessEnds
  <2>7. HostTypeOK'
    BY <2>2, <2>3, <2>4, <2>6 DEF HostTypes, HostTypeOK, durable, history, Locals, ListedRow,
       SavedRow, DraftStore
  <2>8. TablesOK'
    <3>1. \A q \in Proc : IsFiniteSet(listed'[q])
      BY <2>0, <2>5, FS_EmptySet
    <3>2. \A q \in Proc : \E n \in Nat : \A r \in listed'[q] : r.sequence <= n
      BY <2>0, <2>5
    <3> QED BY <2>2, <2>6, <3>1, <3>2 DEF HostTypes, TablesOK, durable, history
  <2> QED BY <2>4, <2>7, <2>8 DEF HostTypes
<1> QED BY <1>1, <1>2

(* A process starts: only its start-up state changes *)
LEMMA ListingTypes ==
  ASSUME HostTypes, NEW p \in Proc, NEW b \in {"new", "down", "listing", "writing", "up"},
         NEW L \in SUBSET ListedRow, IsFiniteSet(L),
         \E n \in Nat : \A r \in L : r.sequence <= n,
         boot' = [boot EXCEPT ![p] = b], listed' = [listed EXCEPT ![p] = L]
  PROVE  /\ boot' \in [Proc -> {"new", "down", "listing", "writing", "up"}]
         /\ listed' \in [Proc -> SUBSET ListedRow]
         /\ \A q \in Proc : IsFiniteSet(listed'[q])
         /\ \A q \in Proc : \E n \in Nat : \A r \in listed'[q] : r.sequence <= n
<1>0. /\ boot \in [Proc -> {"new", "down", "listing", "writing", "up"}]
      /\ listed \in [Proc -> SUBSET ListedRow]
      /\ \A q \in Proc : IsFiniteSet(listed[q])
      /\ \A q \in Proc : \E n \in Nat : \A r \in listed[q] : r.sequence <= n
  BY DEF HostTypes, HostTypeOK, TablesOK
<1>1. /\ boot' \in [Proc -> {"new", "down", "listing", "writing", "up"}]
      /\ listed' \in [Proc -> SUBSET ListedRow]
  BY <1>0
<1>2. \A q \in Proc : listed'[q] = IF q = p THEN L ELSE listed[q]
  BY <1>0
<1> QED BY <1>0, <1>1, <1>2

LEMMA StartTypes ==
  ASSUME HostTypes, 
         boot' \in [Proc -> {"new", "down", "listing", "writing", "up"}],
         listed' \in [Proc -> SUBSET ListedRow],
         \A q \in Proc : IsFiniteSet(listed'[q]),
         \A q \in Proc : \E n \in Nat : \A r \in listed'[q] : r.sequence <= n,
         sessions' \in [SessionId -> [live : BOOLEAN, project : AnyProject]],
         turns' \in [TurnId -> TurnRow], events' \subseteq EventRow,
         \A t \in TurnId : turns'[t].state # "absent" => turns'[t].session \in SessionId,
         \E n \in Nat : \A t \in TurnId : turns'[t].ordinal <= n,
         \E n \in Nat : \A e \in events' : e.sequence <= n,
         UNCHANGED <<library, gate, slot, drafts, pc, loc, token, nextDraft, history>>
  PROVE  HostTypes'
<1>1. HostTypeOK'
  BY DEF HostTypes, HostTypeOK, library, history, TurnRow, EventRow, ListedRow
<1>2. TablesOK'
  BY DEF HostTypes, TablesOK, library, history
<1> QED BY <1>1, <1>2 DEF HostTypes, TaskTypeOK

(* The rows that list_inflight_turns reads *)
InflightRow(t) == [turn |-> t, session |-> turns[t].session, text |-> turns[t].text,
                   seen |-> NoProject, sequence |-> 0]

LEMMA BootListTypes ==
  ASSUME HostTypes, NEW p \in Proc, BootList(p)
  PROVE  HostTypes'
<1> DEFINE U == {u \in TurnId : Inflight(u)}
           L == {InflightRow(t) : t \in U}
           f == [t \in U |-> InflightRow(t)]
           b == "listing"
<1>0. /\ boot' = [boot EXCEPT ![p] = b] /\ b \in {"new", "down", "listing", "writing", "up"}
      /\ listed' = [listed EXCEPT ![p] = L]
      /\ UNCHANGED <<library, gate, slot, drafts, pc, loc, token, nextDraft, history, durable>>
  BY DEF BootList, InflightRow
<1>1. \A t \in U : InflightRow(t) \in ListedRow /\ InflightRow(t).sequence = 0
  <2> SUFFICES ASSUME NEW t \in U
               PROVE  InflightRow(t) \in ListedRow /\ InflightRow(t).sequence = 0
    OBVIOUS
  <2>1. turns[t].session \in SessionId /\ turns[t].text \in 0 .. MaxText /\ t \in TurnId
    BY DEF HostTypes, HostTypeOK, TablesOK, Inflight, InflightState
  <2> QED BY <2>1 DEF InflightRow, ListedRow, AnyProject
<1>2. IsFiniteSet(U)
  <2>1. IsFiniteSet(TurnId)
    BY FS_Interval, HostAssumption DEF TurnId
  <2>2. U \in SUBSET TurnId
    OBVIOUS
  <2> HIDE DEF U
  <2> QED BY <2>1, <2>2, FS_Subset
<1>3. IsFiniteSet(L)
  <2>1. f \in Surjection(U, L)
    BY DEF Surjection
  <2> HIDE DEF f, U, L
  <2> QED BY <1>2, <2>1, FS_Surjection
<1>4. L \in SUBSET ListedRow /\ \A r \in L : r.sequence <= 0
  BY <1>1
<1> HIDE DEF U, L, b
<1>5. /\ boot' \in [Proc -> {"new", "down", "listing", "writing", "up"}]
      /\ listed' \in [Proc -> SUBSET ListedRow]
      /\ \A q \in Proc : IsFiniteSet(listed'[q])
      /\ \A q \in Proc : \E n \in Nat : \A r \in listed'[q] : r.sequence <= n
  BY <1>0, <1>3, <1>4, ListingTypes
<1>6. /\ sessions' \in [SessionId -> [live : BOOLEAN, project : AnyProject]]
      /\ turns' \in [TurnId -> TurnRow] /\ events' \subseteq EventRow
      /\ \A t \in TurnId : turns'[t].state # "absent" => turns'[t].session \in SessionId
      /\ \E n \in Nat : \A t \in TurnId : turns'[t].ordinal <= n
      /\ \E n \in Nat : \A e \in events' : e.sequence <= n
  BY <1>0 DEF HostTypes, HostTypeOK, TablesOK, durable, TurnRow, EventRow
<1> QED BY <1>0, <1>5, <1>6, StartTypes

(* ... and what they are once their sessions and numbers are read *)
BeforeRow(p, r) == {q \in listed[p] : q.session = r.session /\ q.turn < r.turn}
NumberedRow(p, r) ==
  [r EXCEPT !.seen = sessions[r.session].project,
            !.sequence = NextEventSequence(r.session) + Cardinality(BeforeRow(p, r))]

LEMMA RowsBefore ==
  ASSUME HostTypes, NEW p \in Proc, NEW r \in listed[p]
  PROVE  /\ IsFiniteSet(listed[p]) /\ Cardinality(listed[p]) \in Nat
         /\ Cardinality(BeforeRow(p, r)) \in Nat
         /\ Cardinality(BeforeRow(p, r)) <= Cardinality(listed[p])
<1>1. IsFiniteSet(listed[p])
  BY DEF HostTypes, TablesOK
<1>2. BeforeRow(p, r) \in SUBSET listed[p]
  BY DEF BeforeRow
<1>3. /\ IsFiniteSet(BeforeRow(p, r))
      /\ Cardinality(BeforeRow(p, r)) <= Cardinality(listed[p])
  BY <1>1, <1>2, FS_Subset
<1> QED BY <1>1, <1>3, FS_CardinalityType

LEMMA NumberedRowType ==
  ASSUME HostTypes, NEW p \in Proc, NEW r \in listed[p]
  PROVE  /\ NumberedRow(p, r) \in ListedRow
         /\ NumberedRow(p, r).turn = r.turn /\ NumberedRow(p, r).session = r.session
         /\ NumberedRow(p, r).text = r.text
         /\ NumberedRow(p, r).sequence
              = NextEventSequence(r.session) + Cardinality(BeforeRow(p, r))
<1> DEFINE x == sessions[r.session].project
           n == NextEventSequence(r.session) + Cardinality(BeforeRow(p, r))
<1>1. r \in ListedRow
  BY DEF HostTypes, TablesOK
<1>2. x \in AnyProject
  BY <1>1 DEF HostTypes, HostTypeOK, ListedRow
<1>3. n \in Nat
  BY NextSequence, RowsBefore
<1>4. NumberedRow(p, r) = [r EXCEPT !.seen = x, !.sequence = n]
  BY DEF NumberedRow
<1> HIDE DEF x, n
<1>5. [r EXCEPT !.seen = x, !.sequence = n] \in ListedRow
  BY <1>1, <1>2, <1>3 DEF ListedRow
<1>6. /\ NumberedRow(p, r).turn = r.turn /\ NumberedRow(p, r).session = r.session
      /\ NumberedRow(p, r).text = r.text /\ NumberedRow(p, r).sequence = n
  BY <1>1, <1>4 DEF ListedRow
<1> QED BY <1>4, <1>5, <1>6 DEF n

LEMMA BootReadTypes ==
  ASSUME HostTypes, NEW p \in Proc, BootRead(p)
  PROVE  HostTypes'
<1> DEFINE L == {NumberedRow(p, r) : r \in listed[p]}
           f == [r \in listed[p] |-> NumberedRow(p, r)]
           b == "writing"
<1>0. /\ boot' = [boot EXCEPT ![p] = b] /\ b \in {"new", "down", "listing", "writing", "up"}
      /\ listed' = [listed EXCEPT ![p] = L]
      /\ UNCHANGED <<library, gate, slot, drafts, pc, loc, token, nextDraft, history, durable>>
  BY DEF BootRead, NumberedRow, BeforeRow
<1>1. \A r \in listed[p] : NumberedRow(p, r) \in ListedRow
  BY NumberedRowType
<1>2. IsFiniteSet(L)
  <2>0. IsFiniteSet(listed[p])
    BY DEF HostTypes, TablesOK
  <2>1. f \in Surjection(listed[p], L)
    BY DEF Surjection
  <2> HIDE DEF f, L
  <2> QED BY <2>0, <2>1, FS_Surjection
<1>3. \E n \in Nat : \A r \in L : r.sequence <= n
  <2>1. PICK m \in Nat : \A e \in events : e.sequence <= m
    BY DEF HostTypes, TablesOK
  <2>2. ASSUME NEW s PROVE NextEventSequence(s) \in Nat /\ NextEventSequence(s) <= m + 1
    BY <2>1, NextSequence DEF EventsOf
  <2> DEFINE c == Cardinality(listed[p])
  <2>3. ASSUME NEW r \in listed[p]
        PROVE  c \in Nat /\ NumberedRow(p, r).sequence <= m + 1 + c
    <3>1. NumberedRow(p, r).sequence
            = NextEventSequence(r.session) + Cardinality(BeforeRow(p, r))
      BY NumberedRowType
    <3>2. c \in Nat /\ Cardinality(BeforeRow(p, r)) \in Nat /\ Cardinality(BeforeRow(p, r)) <= c
      BY RowsBefore
    <3> HIDE DEF c
    <3> QED BY <2>2, <3>1, <3>2
  <2>4. c \in Nat
    <3>1. IsFiniteSet(listed[p])
      BY DEF HostTypes, TablesOK
    <3> QED BY <3>1, FS_CardinalityType
  <2> HIDE DEF c
  <2>5. m + 1 + c \in Nat
    BY <2>4
  <2>6. \A r \in L : r.sequence <= m + 1 + c
    BY <2>3
  <2> HIDE DEF L
  <2> QED BY <2>5, <2>6
<1>4. L \in SUBSET ListedRow
  BY <1>1
<1> HIDE DEF L, b
<1>5. /\ boot' \in [Proc -> {"new", "down", "listing", "writing", "up"}]
      /\ listed' \in [Proc -> SUBSET ListedRow]
      /\ \A q \in Proc : IsFiniteSet(listed'[q])
      /\ \A q \in Proc : \E n \in Nat : \A r \in listed'[q] : r.sequence <= n
  BY <1>0, <1>2, <1>3, <1>4, ListingTypes
<1>6. /\ sessions' \in [SessionId -> [live : BOOLEAN, project : AnyProject]]
      /\ turns' \in [TurnId -> TurnRow] /\ events' \subseteq EventRow
      /\ \A t \in TurnId : turns'[t].state # "absent" => turns'[t].session \in SessionId
      /\ \E n \in Nat : \A t \in TurnId : turns'[t].ordinal <= n
      /\ \E n \in Nat : \A e \in events' : e.sequence <= n
  BY <1>0 DEF HostTypes, HostTypeOK, TablesOK, durable, TurnRow, EventRow
<1> QED BY <1>0, <1>5, <1>6, StartTypes

(* The row that a start-up writes for a turn it has listed *)
InterruptedRow(p, t) ==
  [turns[t] EXCEPT !.state = "interrupted", !.code = "interrupted",
                   !.text = (CHOOSE r \in listed[p] : r.turn = t).text]

LEMMA InterruptedRowType ==
  ASSUME HostTypes, NEW p \in Proc, NEW t \in TurnId, \E r \in listed[p] : r.turn = t
  PROVE  /\ InterruptedRow(p, t) \in TurnRow
         /\ InterruptedRow(p, t).state = "interrupted"
         /\ InterruptedRow(p, t).session = turns[t].session
         /\ InterruptedRow(p, t).ordinal = turns[t].ordinal
         /\ InterruptedRow(p, t).project = turns[t].project
         /\ InterruptedRow(p, t).source = turns[t].source
         /\ InterruptedRow(p, t).code = "interrupted"
<1> DEFINE x == (CHOOSE r \in listed[p] : r.turn = t).text
           i == "interrupted"
           c == "interrupted"
<1>1. x \in 0 .. MaxText
  BY DEF HostTypes, TablesOK, ListedRow
<1>2. i \in TurnState /\ c \in ErrorCode /\ turns[t] \in TurnRow
  BY DEF TurnState, TerminalState, ErrorCode, HostTypes, HostTypeOK, TurnRow
<1>3. InterruptedRow(p, t) = [turns[t] EXCEPT !.state = i, !.code = c, !.text = x]
  BY DEF InterruptedRow
<1> HIDE DEF x
<1>4. /\ [turns[t] EXCEPT !.state = i, !.code = c, !.text = x] \in TurnRow
  BY <1>1, <1>2 DEF TurnRow
<1> QED BY <1>2, <1>3, <1>4 DEF TurnRow

LEMMA BootWriteTypes ==
  ASSUME HostTypes, NEW p \in Proc, BootWrite(p)
  PROVE  HostTypes'
<1> DEFINE b == IF \A r \in listed[p] : CanUpdateInflight(r.turn)
                                        /\ SequenceIsFree(r.session, r.sequence)
                THEN "up" ELSE "down"
           L == {}
<1>0. /\ turns \in [TurnId -> TurnRow] /\ events \subseteq EventRow
      /\ listed \in [Proc -> SUBSET ListedRow] /\ listed[p] \subseteq ListedRow
      /\ sessions \in [SessionId -> [live : BOOLEAN, project : AnyProject]]
  BY DEF HostTypes, HostTypeOK, TablesOK, TurnRow, EventRow
<1>1. /\ boot' = [boot EXCEPT ![p] = b] /\ b \in {"new", "down", "listing", "writing", "up"}
      /\ listed' = [listed EXCEPT ![p] = L]
      /\ UNCHANGED <<library, gate, slot, drafts, pc, loc, token, nextDraft, history>>
  BY DEF BootWrite
<1>2. /\ boot' \in [Proc -> {"new", "down", "listing", "writing", "up"}]
      /\ listed' \in [Proc -> SUBSET ListedRow]
      /\ \A q \in Proc : IsFiniteSet(listed'[q])
      /\ \A q \in Proc : \E n \in Nat : \A r \in listed'[q] : r.sequence <= n
  <2>1. L \in SUBSET ListedRow /\ IsFiniteSet(L) /\ \A r \in L : r.sequence <= 0
    BY FS_EmptySet
  <2> HIDE DEF L, b
  <2> QED BY <1>1, <2>1, ListingTypes
<1>3. CASE UNCHANGED durable
  BY <1>1, <1>2, <1>3, StartTypes, <1>0 DEF HostTypes, TablesOK, durable
<1>4. CASE /\ \A r \in listed[p] : CanUpdateInflight(r.turn) /\ SequenceIsFree(r.session, r.sequence)
           /\ turns' = [t \in TurnId |->
               IF \E r \in listed[p] : r.turn = t THEN InterruptedRow(p, t) ELSE turns[t]]
           /\ sessions' = [s \in SessionId |->
               IF \E r \in listed[p] : r.session = s
               THEN [sessions[s] EXCEPT !.project = (CHOOSE r \in listed[p] : r.session = s).seen]
               ELSE sessions[s]]
           /\ events' = events \cup
               {Event(r.session, r.turn, r.sequence, "turn_interrupted") : r \in listed[p]}
  <2>1. /\ turns' \in [TurnId -> TurnRow]
        /\ \A t \in TurnId : turns'[t].state # "absent" => turns'[t].session \in SessionId
        /\ \A t \in TurnId : turns'[t].ordinal = turns[t].ordinal
    <3>1. ASSUME NEW t \in TurnId
          PROVE  /\ turns'[t] \in TurnRow /\ turns'[t].ordinal = turns[t].ordinal
                 /\ turns'[t].state # "absent" => turns'[t].session \in SessionId
      <4>1. CASE \E r \in listed[p] : r.turn = t
        <5>1. turns'[t] = InterruptedRow(p, t)
          BY <1>4, <4>1
        <5>2. turns[t].state # "absent"
          BY <1>4, <4>1 DEF CanUpdateInflight, Inflight, InflightState
        <5>3. turns[t].session \in SessionId
          BY <5>2 DEF HostTypes, TablesOK
        <5> QED BY <4>1, <5>1, <5>3, InterruptedRowType
      <4>2. CASE ~ \E r \in listed[p] : r.turn = t
        <5>1. turns'[t] = turns[t]
          BY <1>4, <4>2
        <5> QED BY <1>0, <5>1 DEF HostTypes, TablesOK
      <4> QED BY <4>1, <4>2
    <3>2. turns' = [t \in TurnId |-> turns'[t]]
      BY <1>4
    <3> QED BY <3>1, <3>2
  <2>2. sessions' \in [SessionId -> [live : BOOLEAN, project : AnyProject]]
    <3>1. ASSUME NEW s \in SessionId PROVE sessions'[s] \in [live : BOOLEAN, project : AnyProject]
      <4>1. CASE \E r \in listed[p] : r.session = s
        <5> DEFINE x == (CHOOSE r \in listed[p] : r.session = s).seen
        <5>1. x \in AnyProject
          BY <1>0, <4>1 DEF ListedRow
        <5>2. sessions'[s] = [sessions[s] EXCEPT !.project = x]
          BY <1>4, <4>1
        <5> HIDE DEF x
        <5> QED BY <1>0, <5>1, <5>2
      <4>2. CASE ~ \E r \in listed[p] : r.session = s
        BY <1>0, <1>4, <4>2
      <4> QED BY <4>1, <4>2
    <3>2. sessions' = [s \in SessionId |-> sessions'[s]]
      BY <1>4
    <3> QED BY <3>1, <3>2
  <2>3. events' \subseteq EventRow
    <3>1. \A r \in listed[p] : Event(r.session, r.turn, r.sequence, "turn_interrupted") \in EventRow
      BY <1>0 DEF Event, EventRow, ListedRow, EventKind, TerminalKind
    <3> QED BY <1>0, <1>4, <3>1
  <2>4. \E n \in Nat : \A e \in events' : e.sequence <= n
    <3>1. PICK m \in Nat : \A e \in events : e.sequence <= m
      BY DEF HostTypes, TablesOK
    <3>2. PICK c \in Nat : \A r \in listed[p] : r.sequence <= c
      BY DEF HostTypes, TablesOK
    <3>3. ASSUME NEW e \in events' PROVE e.sequence <= m + c
      <4>1. CASE e \in events
        <5>1. e.sequence \in Nat /\ e.sequence <= m
          BY <1>0, <3>1, <4>1 DEF EventRow
        <5> QED BY <5>1
      <4>2. CASE e \notin events
        <5>1. PICK r \in listed[p] : e = Event(r.session, r.turn, r.sequence, "turn_interrupted")
          BY <1>4, <4>2
        <5>2. e.sequence = r.sequence /\ r.sequence \in Nat /\ r.sequence <= c
          BY <1>0, <3>2, <5>1 DEF Event, ListedRow
        <5> QED BY <5>2
      <4> QED BY <4>1, <4>2
    <3>4. m + c \in Nat
      OBVIOUS
    <3> QED BY <3>3, <3>4
  <2>5. \E n \in Nat : \A t \in TurnId : turns'[t].ordinal <= n
    BY <2>1 DEF HostTypes, TablesOK
  <2> QED BY <1>1, <1>2, <2>1, <2>2, <2>3, <2>4, <2>5, StartTypes
<1> QED BY <1>3, <1>4 DEF BootWrite, InterruptedRow

LEMMA InitTypes == HostInit => HostTypes
<1> SUFFICES ASSUME HostInit PROVE HostTypes
  OBVIOUS
<1> USE DEF HostInit
<1>1. EmptyDrafts \in DraftStore /\ NewSessionScope(0) \in Scope
  BY HostAssumption DEF EmptyDrafts, DraftStore, NewSessionScope, Scope
<1>2. TablesOK
  <2>1. drafts \in [Proc -> DraftStore]
    BY <1>1
  <2>2. /\ saving \in [Proc -> SUBSET SavedRow] /\ listed \in [Proc -> SUBSET ListedRow]
        /\ nextDraft \in Nat
    OBVIOUS
  <2>3. \A p \in Proc : IsFiniteSet(listed[p])
    BY FS_EmptySet
  <2>4. \A t \in TurnId : turns[t].state = "absent" /\ turns[t].ordinal <= 0
    BY DEF AbsentTurn
  <2>5. \A p \in Proc : \A r \in listed[p] : r.sequence <= 0
    OBVIOUS
  <2>6. \A e \in events : e.sequence <= 0
    OBVIOUS
  <2> QED BY <2>1, <2>2, <2>3, <2>4, <2>5, <2>6 DEF TablesOK
<1>3. HostTypeOK
  <2>1. /\ turns \in [TurnId -> TurnRow] /\ loc \in [Task -> Locals]
    BY BlankType
  <2>2. pc \in [Task -> PC]
    BY DEF PC
  <2>3. \A p \in Proc : drafts[p] \in DraftStore
    BY <1>1
  <2>4. captured \in [Handle -> Scope]
    BY <1>1
  <2>5. sessions \in [SessionId -> [live : BOOLEAN, project : AnyProject]]
          /\ assigned \in [SessionId -> AnyProject]
    BY DEF AnyProject
  <2> QED BY <2>1, <2>2, <2>3, <2>4, <2>5 DEF HostTypeOK, TurnRow, Locals, DraftStore
<1>4. \A k \in Task : TaskTypeOK(k)
  <2>1. "idle" \notin HasSession \cup HasTurn
    BY DEF HasSession, HasTurn, SendPC, PreparePC, ProjectPC, DeltaPC, FinishPC
  <2> QED BY <2>1 DEF TaskTypeOK
<1> QED BY <1>2, <1>3, <1>4 DEF HostTypes

LEMMA StutterTypes == HostTypes /\ UNCHANGED hostVars => HostTypes'
BY DEF hostVars, durable, library, process, history, HostTypes, HostTypeOK, TablesOK, TaskTypeOK,
   Inflight, EventsOf

LEMMA StepTypes == HostTypes /\ HostNext => HostTypes'
<1> SUFFICES ASSUME HostTypes, HostNext PROVE HostTypes'
  OBVIOUS
<1>1. ASSUME NEW k \in Task, TaskStep(k) PROVE HostTypes'
  BY <1>1, ReadTypes, AppendTypes, SendStartTypes, StreamTypes, DeltaWriteTypes,
     FinishWriteTypes, SetProjectTypes DEF TaskStep
<1>2. ASSUME NEW k \in Task, Command(k) PROVE HostTypes'
  BY <1>2, BeginTypes, ComposerTypes DEF Command
<1>3. ASSUME NEW p \in Proc, Start(p) PROVE HostTypes'
  BY <1>3, BootListTypes, BootReadTypes, BootWriteTypes DEF Start
<1> QED BY <1>1, <1>2, <1>3, FaultTypes, CancelTypes, ComposerTypes, LibraryTypes DEF HostNext

(* Whatever the commands of any number of processes do to one database,    *)
(* every row, event and local variable keeps its type and a turn's text    *)
(* its limit (agent.rs:762)                                                *)
THEOREM HostTypeCorrect == HostSpec => []HostTypeOK
<1>1. HostTypes /\ [HostNext]_hostVars => HostTypes'
  BY StepTypes, StutterTypes
<1>2. HostTypes => HostTypeOK
  BY DEF HostTypes
<1> QED BY InitTypes, <1>1, <1>2, PTL DEF HostSpec

---------------------------------------------------------------------------
(* The gate                                                                *)

(* What a step of a command that goes on does to its task and its slot; a  *)
(* send that has its turn keeps it                                         *)
Moves(k) ==
  /\ pc' = [pc EXCEPT ![k] = pc'[k]] /\ loc' = [loc EXCEPT ![k] = loc'[k]]
  /\ pc[k] # "idle" /\ pc'[k] # "idle"
  /\ pc[k] \in HasTurn => /\ pc'[k] \in HasTurn
                          /\ loc'[k].turn = loc[k].turn /\ loc'[k].session = loc[k].session
  /\ \/ slot' = slot
     \/ slot' = [slot EXCEPT ![ProcOf[k]] = loc[k].turn] /\ pc[k] \in HasTurn
  /\ UNCHANGED <<gate, boot, listed, library>>

LEMMA TaskShape ==
  ASSUME HostTypes, NEW k \in Task, TaskStep(k) \/ StoreFails(k)
  PROVE  pc[k] # "idle" /\ UNCHANGED <<boot, listed, library>> /\ (Moves(k) \/ Ends(k))
<1>0. pc \in [Task -> PC] /\ loc \in [Task -> Locals] /\ loc[k] \in Locals
  BY DEF HostTypes, HostTypeOK, Locals
<1> USE DEF HasTurn, SendPC, PreparePC, DeltaPC, FinishPC
<1>1. ASSUME NEW n \in HasTurn, NEW l \in Locals, pc[k] \in HasTurn,
             pc' = [pc EXCEPT ![k] = n], loc' = [loc EXCEPT ![k] = l],
             l.turn = loc[k].turn, l.session = loc[k].session,
             UNCHANGED <<gate, boot, listed, library>>,
             slot' = slot \/ slot' = [slot EXCEPT ![ProcOf[k]] = loc[k].turn]
      PROVE  Moves(k) \/ Ends(k)
  BY <1>0, <1>1 DEF Moves
<1>2. ASSUME pc[k] \in PreparePC \cup ProjectPC,
             pc' = [pc EXCEPT ![k] = pc'[k]], loc' = [loc EXCEPT ![k] = loc'[k]],
             pc'[k] # "idle", UNCHANGED <<gate, boot, listed, library, slot>>
      PROVE  Moves(k)
  BY <1>2 DEF Moves, ProjectPC
<1>3. ASSUME NEW g, NEW c, NEW e, Finishes(k, g, c, e), pc[k] \in HasTurn,
             UNCHANGED <<gate, boot, listed, library>>,
             slot' = slot \/ slot' = [slot EXCEPT ![ProcOf[k]] = loc[k].turn]
      PROVE  Moves(k)
  <2>1. /\ pc'[k] = "finTurn" /\ loc'[k].turn = loc[k].turn
        /\ loc'[k].session = loc[k].session
        /\ pc' = [pc EXCEPT ![k] = pc'[k]] /\ loc' = [loc EXCEPT ![k] = loc'[k]]
    BY <1>0, <1>3 DEF Finishes, Locals
  <2> QED BY <1>3, <2>1 DEF Moves
<1>4. ASSUME NEW r, StreamEnds(k, r), pc[k] \in HasTurn,
             UNCHANGED <<gate, boot, listed, library, slot>>
      PROVE  Moves(k)
  <2>1. /\ pc'[k] = "finalize" /\ loc'[k].turn = loc[k].turn
        /\ loc'[k].session = loc[k].session
        /\ pc' = [pc EXCEPT ![k] = pc'[k]] /\ loc' = [loc EXCEPT ![k] = loc'[k]]
    BY <1>0, <1>4 DEF StreamEnds, Locals
  <2> QED BY <1>4, <2>1 DEF Moves
<1>5. ASSUME NEW ok, FinishReturns(k, ok), pc[k] \in HasTurn,
             UNCHANGED <<boot, listed, library>>
      PROVE  Moves(k) \/ Ends(k)
  <2>1. CASE /\ pc' = [pc EXCEPT ![k] = "finalize"]
             /\ loc' = [loc EXCEPT ![k].already = ok,
                         ![k].result = IF ok THEN "output_limit" ELSE "agent_storage_unavailable"]
             /\ UNCHANGED <<gate, slot, token>>
    <3>1. /\ pc'[k] = "finalize" /\ loc'[k].turn = loc[k].turn
          /\ loc'[k].session = loc[k].session
          /\ pc' = [pc EXCEPT ![k] = pc'[k]] /\ loc' = [loc EXCEPT ![k] = loc'[k]]
      BY <1>0, <2>1 DEF Locals
    <3> QED BY <1>5, <2>1, <3>1 DEF Moves
  <2>2. CASE Goes(k, "recover") /\ UNCHANGED loc
    <3>1. /\ pc'[k] = "recover" /\ loc'[k] = loc[k]
          /\ pc' = [pc EXCEPT ![k] = pc'[k]] /\ loc' = [loc EXCEPT ![k] = loc'[k]]
      BY <1>0, <2>2 DEF Goes
    <3> QED BY <1>5, <2>2, <3>1 DEF Moves, Goes
  <2> QED BY <1>5, <2>1, <2>2 DEF FinishReturns
<1>6. ASSUME NEW n, Goes(k, n), n # "idle", pc[k] \in PreparePC \cup ProjectPC,
             UNCHANGED <<boot, listed, library>>, loc' = [loc EXCEPT ![k] = loc'[k]]
      PROVE  Moves(k)
  <2>1. pc'[k] = n /\ pc' = [pc EXCEPT ![k] = pc'[k]]
    BY <1>0, <1>6 DEF Goes
  <2> QED BY <1>2, <1>6, <2>1 DEF Goes
<1>7. CASE ReadInflight(k) \/ ReadSession(k) \/ ReadHistory(k) \/ ReadOrdinal(k)
             \/ ReadSequence(k) \/ SetProjectReadSession(k) \/ SetProjectReadSequence(k)
  <2>1. UNCHANGED <<boot, listed, library>> /\ pc[k] \in PreparePC \cup ProjectPC
    BY <1>7 DEF ReadInflight, ReadSession, ReadHistory, ReadOrdinal, ReadSequence,
       SetProjectReadSession, SetProjectReadSequence, ProjectPC
  <2>2. Ends(k) \/ loc' = [loc EXCEPT ![k] = loc'[k]]
    BY <1>0, <1>7 DEF ReadInflight, ReadSession, ReadHistory, ReadOrdinal, ReadSequence,
       SetProjectReadSession, SetProjectReadSequence
  <2>3. \/ Ends(k)
        \/ \E n \in {"append", "session", "history", "ordinal", "sequence", "pjSeq", "pjWrite"} :
             Goes(k, n)
    BY <1>7 DEF ReadInflight, ReadSession, ReadHistory, ReadOrdinal, ReadSequence,
       SetProjectReadSession, SetProjectReadSequence
  <2> QED BY <1>6, <2>1, <2>2, <2>3 DEF ProjectPC
<1>8. CASE CreateSession(k) \/ AppendTurn(k)
  <2>1. UNCHANGED <<boot, listed, library>> /\ pc[k] \in PreparePC
    BY <1>8 DEF CreateSession, AppendTurn
  <2>2. Ends(k) \/ (loc' = [loc EXCEPT ![k] = loc'[k]] /\ Goes(k, "assemble"))
    BY <1>0, <1>8 DEF CreateSession, AppendTurn
  <2> QED BY <1>6, <2>1, <2>2
<1>9. CASE SetProjectWrite(k) \/ Recover(k)
  BY <1>9 DEF SetProjectWrite, Recover
<1>10. CASE SendStart(k)
  <2>1. UNCHANGED <<gate, boot, listed, library>> /\ pc[k] \in HasTurn
    BY <1>10 DEF SendStart
  <2>2. slot' = slot \/ slot' = [slot EXCEPT ![ProcOf[k]] = loc[k].turn]
    BY <1>10 DEF SendStart
  <2>3. CASE \E c : Finishes(k, "failed", c, "end")
    BY <1>3, <2>1, <2>2, <2>3
  <2>4. CASE pc' = [pc EXCEPT ![k] = "refresh"] /\ UNCHANGED loc
    <3>1. pc'[k] = "refresh" /\ pc' = [pc EXCEPT ![k] = pc'[k]] /\ loc' = [loc EXCEPT ![k] = loc'[k]]
      BY <1>0, <2>4
    <3> QED BY <2>1, <2>2, <2>4, <3>1 DEF Moves
  <2> QED BY <1>10, <2>1, <2>3, <2>4 DEF SendStart
<1>11. CASE Refresh(k)
  <2>1. UNCHANGED <<gate, boot, listed, library, slot>> /\ pc[k] \in HasTurn
    BY <1>11 DEF Refresh, process
  <2>2. CASE \E g, c : Finishes(k, g, c, "end")
    BY <1>3, <2>1, <2>2
  <2>3. CASE pc' = [pc EXCEPT ![k] = "stream"] /\ UNCHANGED loc
    <3>1. pc'[k] = "stream" /\ pc' = [pc EXCEPT ![k] = pc'[k]] /\ loc' = [loc EXCEPT ![k] = loc'[k]]
      BY <1>0, <2>3
    <3> QED BY <2>1, <2>3, <3>1 DEF Moves
  <2> QED BY <1>11, <2>1, <2>2, <2>3 DEF Refresh
<1>12. CASE StreamCancelled(k) \/ StreamFails(k)
  <2>1. UNCHANGED <<gate, boot, listed, library, slot>> /\ pc[k] \in HasTurn
    BY <1>12 DEF StreamCancelled, StreamFails, process
  <2>2. \E r : StreamEnds(k, r)
    BY <1>12 DEF StreamCancelled, StreamFails
  <2> QED BY <1>4, <2>1, <2>2
<1>13. CASE StreamDelta(k) \/ StreamCompleted(k) \/ DeltaReadSequence(k)
  <2>1. UNCHANGED <<gate, boot, listed, library, slot>> /\ pc[k] \in HasTurn
    BY <1>13 DEF StreamDelta, StreamCompleted, DeltaReadSequence, process
  <2>2. /\ pc' = [pc EXCEPT ![k] = pc'[k]] /\ loc' = [loc EXCEPT ![k] = loc'[k]]
        /\ loc'[k].turn = loc[k].turn /\ loc'[k].session = loc[k].session
        /\ pc'[k] \in {"delta", "finalize", "deltaWrite"}
    BY <1>0, <1>13 DEF StreamDelta, StreamCompleted, DeltaReadSequence, Locals
  <2> QED BY <2>1, <2>2 DEF Moves
<1>14. CASE DeltaReadTurn(k)
  <2>1. UNCHANGED <<gate, boot, listed, library, slot>> /\ pc[k] \in HasTurn
    BY <1>14 DEF DeltaReadTurn, process
  <2>2. CASE StreamEnds(k, "agent_storage_unavailable")
    BY <1>4, <2>1, <2>2
  <2>3. CASE ~ StreamEnds(k, "agent_storage_unavailable")
    <3>1. /\ pc' = [pc EXCEPT ![k] = pc'[k]] /\ loc' = [loc EXCEPT ![k] = loc'[k]]
          /\ loc'[k].turn = loc[k].turn /\ loc'[k].session = loc[k].session
          /\ pc'[k] \in {"finSession", "deltaSeq", "deltaWrite"}
      BY <1>0, <1>14, <2>3 DEF DeltaReadTurn, Locals
    <3> QED BY <2>1, <3>1 DEF Moves
  <2> QED BY <2>1, <2>2, <2>3
<1>15. CASE DeltaWrite(k)
  <2>1. UNCHANGED <<gate, boot, listed, library, slot>> /\ pc[k] \in HasTurn
    BY <1>15 DEF DeltaWrite, process
  <2>2. CASE \E r : StreamEnds(k, r)
    BY <1>4, <2>1, <2>2
  <2>3. CASE pc' = [pc EXCEPT ![k] = "stream"] /\ UNCHANGED loc
    <3>1. pc'[k] = "stream" /\ pc' = [pc EXCEPT ![k] = pc'[k]] /\ loc' = [loc EXCEPT ![k] = loc'[k]]
      BY <1>0, <2>3
    <3> QED BY <2>1, <2>3, <3>1 DEF Moves
  <2> QED BY <1>15, <2>1, <2>2, <2>3 DEF DeltaWrite
<1>16. CASE Finalize(k)
  <2>1. CASE Ends(k)
    BY <1>16, <2>1 DEF Finalize
  <2>2. CASE ~ Ends(k)
    <3>1. \E g, c : Finishes(k, g, c, "end")
      BY <1>16, <2>2 DEF Finalize
    <3>2. UNCHANGED <<gate, boot, listed, library, slot>> /\ pc[k] \in HasTurn
      BY <1>16, <2>2 DEF Finalize
    <3> QED BY <1>3, <3>1, <3>2
  <2> QED BY <2>1, <2>2
<1>17. CASE FinishReadTurn(k) \/ FinishReadSession(k) \/ FinishReadSequence(k)
  <2>1. UNCHANGED <<boot, listed, library>> /\ pc[k] \in HasTurn
    BY <1>17 DEF FinishReadTurn, FinishReadSession, FinishReadSequence
  <2>2. CASE FinishReturns(k, FALSE)
    BY <1>5, <2>1, <2>2
  <2>3. CASE ~ FinishReturns(k, FALSE)
    <3>1. /\ pc' = [pc EXCEPT ![k] = pc'[k]] /\ loc' = [loc EXCEPT ![k] = loc'[k]]
          /\ loc'[k].turn = loc[k].turn /\ loc'[k].session = loc[k].session
          /\ pc'[k] \in {"finSession", "finSeq", "finWrite"} /\ UNCHANGED <<gate, slot>>
      <4>1. /\ \E n \in {"finSession", "finSeq", "finWrite"} : pc' = [pc EXCEPT ![k] = n]
            /\ UNCHANGED <<gate, slot>>
        BY <1>17, <2>3 DEF FinishReadTurn, FinishReadSession, FinishReadSequence, Goes
      <4>2. \E x : \/ loc' = [loc EXCEPT ![k].text = x]
                   \/ loc' = [loc EXCEPT ![k].seen = x]
                   \/ loc' = [loc EXCEPT ![k].sequence = x]
        BY <1>17, <2>3 DEF FinishReadTurn, FinishReadSession, FinishReadSequence
      <4>3. /\ loc' = [loc EXCEPT ![k] = loc'[k]]
            /\ loc'[k].turn = loc[k].turn /\ loc'[k].session = loc[k].session
        BY <1>0, <4>2 DEF Locals
      <4>4. pc' = [pc EXCEPT ![k] = pc'[k]] /\ pc'[k] \in {"finSession", "finSeq", "finWrite"}
        BY <1>0, <4>1
      <4> QED BY <4>1, <4>3, <4>4
    <3> QED BY <2>1, <3>1 DEF Moves
  <2> QED BY <2>1, <2>2, <2>3
<1>18. CASE FinishWrite(k)
  <2>1. UNCHANGED <<boot, listed, library>> /\ pc[k] \in HasTurn
    BY <1>18 DEF FinishWrite
  <2>2. \E ok : FinishReturns(k, ok)
    BY <1>18 DEF FinishWrite
  <2> QED BY <1>5, <2>1, <2>2
<1>19. CASE StoreFails(k)
  <2>1. UNCHANGED <<boot, listed, library>> /\ pc[k] \in StorePC
    BY <1>19 DEF StoreFails
  <2>2. CASE pc[k] \in DeltaPC
    <3>1. StreamEnds(k, "agent_storage_unavailable") /\ UNCHANGED <<gate, slot>>
      BY <1>19, <2>2 DEF StoreFails, ProjectPC
    <3> QED BY <1>4, <2>1, <2>2, <3>1
  <2>3. CASE pc[k] \in FinishPC
    <3>1. FinishReturns(k, FALSE)
      BY <1>19, <2>3 DEF StoreFails, ProjectPC
    <3> QED BY <1>5, <2>1, <2>3, <3>1
  <2>4. CASE pc[k] \in PreparePC \cup ProjectPC
    BY <1>19, <2>1, <2>4 DEF StoreFails, ProjectPC
  <2> QED BY <2>1, <2>2, <2>3, <2>4 DEF StorePC
<1> QED BY <1>7, <1>8, <1>9, <1>10, <1>11, <1>12, <1>13, <1>14, <1>15, <1>16, <1>17, <1>18,
           <1>19 DEF TaskStep

(* The gate of a process that is not up is open, and the send in the slot  *)
(* already has its turn: that is what makes GateIsHeld inductive           *)
Busy(p) == \E k \in Task : ProcOf[k] = p /\ pc[k] # "idle"

GateOf(p) ==
  /\ gate[p] = Busy(p)
  /\ \A k, j \in Task : (ProcOf[k] = p /\ ProcOf[j] = p /\ pc[k] # "idle" /\ pc[j] # "idle")
                          => k = j
  /\ slot[p] # None => \E k \in Task : /\ ProcOf[k] = p /\ pc[k] \in HasTurn
                                      /\ loc[k].turn = slot[p]
  /\ boot[p] # "up" => ~ Busy(p)

GateInv == \A p \in Proc : GateOf(p)

LEMMA GateBegins ==
  ASSUME HostTypes, GateInv, NEW k \in Task, TryOperation(k), NEW n, n # "idle",
         pc' = [pc EXCEPT ![k] = n], UNCHANGED <<slot, boot>>,
         NEW l, loc' = [loc EXCEPT ![k] = l]
  PROVE  GateInv'
<1>0. /\ pc \in [Task -> PC] /\ loc \in [Task -> Locals] /\ gate \in [Proc -> BOOLEAN]
      /\ ProcOf[k] \in Proc
  BY HostAssumption DEF HostTypes, HostTypeOK, Locals
<1> SUFFICES ASSUME NEW p \in Proc PROVE GateOf(p)'
  BY DEF GateInv
<1>1. /\ pc'[k] = n /\ \A j \in Task : j # k => pc'[j] = pc[j] /\ loc'[j] = loc[j]
      /\ \A q \in Proc : gate'[q] = IF q = ProcOf[k] THEN TRUE ELSE gate[q]
      /\ pc[k] = "idle" /\ boot[ProcOf[k]] = "up" /\ ~ gate[ProcOf[k]]
  BY <1>0 DEF TryOperation, Idle
<1>2. GateOf(p) /\ GateOf(ProcOf[k])
  BY <1>0 DEF GateInv
<1>3. CASE p = ProcOf[k]
  <2>1. \A j \in Task : ProcOf[j] = p => pc[j] = "idle"
    BY <1>1, <1>2, <1>3 DEF GateOf, Busy
  <2>2. slot[p] = None
    <3>1. "idle" \notin HasTurn
      BY DEF HasTurn, SendPC, PreparePC, DeltaPC, FinishPC
    <3> QED BY <1>2, <2>1, <3>1 DEF GateOf
  <2> QED BY <1>1, <1>3, <2>1, <2>2 DEF GateOf, Busy
<1>4. CASE p # ProcOf[k]
  <2>1. \A j \in Task : ProcOf[j] = p => pc'[j] = pc[j] /\ loc'[j] = loc[j]
    BY <1>1, <1>4
  <2>2. Busy(p)' = Busy(p)
    BY <2>1 DEF Busy
  <2>3. gate'[p] = gate[p]
    BY <1>1, <1>4
  <2> QED BY <1>2, <2>1, <2>2, <2>3 DEF GateOf
<1> QED BY <1>3, <1>4

LEMMA GateMoves ==
  ASSUME HostTypes, GateInv, NEW k \in Task, Moves(k)
  PROVE  GateInv'
<1>0. /\ pc \in [Task -> PC] /\ loc \in [Task -> Locals] /\ gate \in [Proc -> BOOLEAN]
      /\ slot \in [Proc -> {None} \cup TurnId] /\ ProcOf[k] \in Proc
  BY HostAssumption DEF HostTypes, HostTypeOK, Locals
<1> SUFFICES ASSUME NEW p \in Proc PROVE GateOf(p)'
  BY DEF GateInv
<1>1. /\ \A j \in Task : j # k => pc'[j] = pc[j] /\ loc'[j] = loc[j]
      /\ pc[k] # "idle" /\ pc'[k] # "idle" /\ gate' = gate /\ boot' = boot
      /\ pc[k] \in HasTurn => pc'[k] \in HasTurn /\ loc'[k].turn = loc[k].turn
  BY <1>0 DEF Moves
<1>2. GateOf(p)
  BY DEF GateInv
<1>3. Busy(p)' = Busy(p)
  BY <1>1 DEF Busy
<1>4. \A i, j \in Task : (ProcOf[i] = p /\ ProcOf[j] = p /\ pc'[i] # "idle" /\ pc'[j] # "idle")
                          => i = j
  BY <1>1, <1>2 DEF GateOf
<1>5. slot'[p] # None => \E j \in Task : /\ ProcOf[j] = p /\ pc'[j] \in HasTurn
                                         /\ loc'[j].turn = slot'[p]
  <2>1. CASE slot'[p] = slot[p]
    BY <1>1, <1>2, <2>1 DEF GateOf
  <2>2. CASE slot'[p] # slot[p]
    <3>1. slot' = [slot EXCEPT ![ProcOf[k]] = loc[k].turn] /\ pc[k] \in HasTurn
      BY <2>2 DEF Moves
    <3>2. p = ProcOf[k] /\ slot'[p] = loc[k].turn
      BY <1>0, <2>2, <3>1
    <3> QED BY <1>1, <3>1, <3>2
  <2> QED BY <2>1, <2>2
<1> QED BY <1>1, <1>2, <1>3, <1>4, <1>5 DEF GateOf

LEMMA GateEnds ==
  ASSUME HostTypes, GateInv, NEW k \in Task, Ends(k), pc[k] # "idle", UNCHANGED boot
  PROVE  GateInv'
<1>0. /\ pc \in [Task -> PC] /\ loc \in [Task -> Locals] /\ gate \in [Proc -> BOOLEAN]
      /\ slot \in [Proc -> {None} \cup TurnId] /\ ProcOf[k] \in Proc
  BY HostAssumption DEF HostTypes, HostTypeOK, Locals
<1> SUFFICES ASSUME NEW p \in Proc PROVE GateOf(p)'
  BY DEF GateInv
<1>1. /\ \A j \in Task : j # k => pc'[j] = pc[j] /\ loc'[j] = loc[j]
      /\ pc'[k] = "idle" /\ boot' = boot
      /\ \A q \in Proc : gate'[q] = IF q = ProcOf[k] THEN FALSE ELSE gate[q]
  BY <1>0 DEF Ends
<1>2. \A q \in Proc : slot'[q] = IF q = ProcOf[k] /\ pc[k] \in SendPC THEN None ELSE slot[q]
  BY <1>0 DEF Ends
<1>3. GateOf(p)
  BY DEF GateInv
<1>4. CASE p = ProcOf[k]
  <2>1. \A j \in Task : ProcOf[j] = p => pc'[j] = "idle"
    BY <1>1, <1>3, <1>4 DEF GateOf
  <2>2. slot'[p] = None
    <3>1. CASE pc[k] \in SendPC
      BY <1>2, <1>4, <3>1
    <3>2. CASE pc[k] \notin SendPC
      <4>1. "idle" \notin HasTurn /\ pc[k] \notin HasTurn
        BY <3>2 DEF HasTurn, SendPC, PreparePC, DeltaPC, FinishPC
      <4>2. \A j \in Task : ProcOf[j] = p /\ pc[j] # "idle" => j = k
        BY <1>3, <1>4 DEF GateOf
      <4> QED BY <1>2, <1>3, <3>2, <4>1, <4>2 DEF GateOf
    <3> QED BY <3>1, <3>2
  <2> QED BY <1>1, <1>4, <2>1, <2>2 DEF GateOf, Busy
<1>5. CASE p # ProcOf[k]
  <2>1. Busy(p)' = Busy(p)
    BY <1>1, <1>5 DEF Busy
  <2>2. slot'[p] = slot[p] /\ gate'[p] = gate[p]
    BY <1>1, <1>2, <1>5
  <2> QED BY <1>1, <1>3, <1>5, <2>1, <2>2 DEF GateOf
<1> QED BY <1>4, <1>5

LEMMA GateStep ==
  ASSUME HostTypes, GateInv, [HostNext]_hostVars
  PROVE  GateInv'
<1>0. /\ pc \in [Task -> PC] /\ loc \in [Task -> Locals] /\ gate \in [Proc -> BOOLEAN]
      /\ slot \in [Proc -> {None} \cup TurnId] /\ ProcOf \in [Task -> Proc]
      /\ boot \in [Proc -> {"new", "down", "listing", "writing", "up"}]
  BY HostAssumption DEF HostTypes, HostTypeOK, Locals
<1>1. ASSUME UNCHANGED <<pc, loc, gate, slot, boot>> PROVE GateInv'
  <2>1. ASSUME NEW p \in Proc PROVE GateOf(p)'
    <3>1. GateOf(p)
      BY DEF GateInv
    <3>2. Busy(p)' = Busy(p)
      BY <1>1 DEF Busy
    <3>3. pc' = pc /\ loc' = loc /\ gate' = gate /\ slot' = slot /\ boot' = boot
      BY <1>1
    <3> HIDE DEF Busy
    <3> QED BY ONLY <3>1, <3>2, <3>3 DEF GateOf
  <2> QED BY <2>1 DEF GateInv
<1>2. ASSUME NEW k \in Task, TaskStep(k) \/ StoreFails(k) PROVE GateInv'
  BY <1>2, TaskShape, GateMoves, GateEnds
<1>3. ASSUME NEW k \in Task, Command(k) PROVE GateInv'
  <2>1. CASE PickEnd(k)
    BY <2>1, GateEnds DEF PickEnd
  <2>2. CASE SendBegin(k)
    <3>1. /\ TryOperation(k) /\ pc' = [pc EXCEPT ![k] = "inflight"] /\ UNCHANGED <<slot, boot>>
          /\ \E l : loc' = [loc EXCEPT ![k] = l]
      BY <2>2 DEF SendBegin
    <3> DEFINE n == "inflight"
    <3>2. pc' = [pc EXCEPT ![k] = n] /\ n # "idle"
      BY <3>1
    <3> HIDE DEF n
    <3> QED BY <3>1, <3>2, GateBegins
  <2>3. CASE SetProjectBegin(k)
    <3>1. /\ TryOperation(k) /\ pc' = [pc EXCEPT ![k] = "pjSession"] /\ UNCHANGED <<slot, boot>>
          /\ \E l : loc' = [loc EXCEPT ![k] = l]
      BY <2>3 DEF SetProjectBegin
    <3> DEFINE n == "pjSession"
    <3>2. pc' = [pc EXCEPT ![k] = n] /\ n # "idle"
      BY <3>1
    <3> HIDE DEF n
    <3> QED BY <3>1, <3>2, GateBegins
  <2>4. CASE PickBegin(k)
    <3>1. /\ TryOperation(k) /\ pc' = [pc EXCEPT ![k] = "pick"] /\ UNCHANGED <<slot, boot>>
          /\ loc' = [loc EXCEPT ![k] = loc[k]]
      BY <1>0, <2>4 DEF PickBegin
    <3> DEFINE n == "pick"
    <3>2. pc' = [pc EXCEPT ![k] = n] /\ n # "idle"
      BY <3>1
    <3> HIDE DEF n
    <3> QED BY <3>1, <3>2, GateBegins
  <2> QED BY <1>3, <2>1, <2>2, <2>3, <2>4 DEF Command
<1>4. ASSUME NEW p \in Proc, Start(p) PROVE GateInv'
  <2>1. UNCHANGED <<pc, loc, gate, slot>> /\ boot[p] # "up" /\ \E b : boot' = [boot EXCEPT ![p] = b]
    BY <1>4 DEF Start, BootList, BootRead, BootWrite
  <2>2. \A q \in Proc : boot'[q] # "up" => boot[q] # "up"
    BY <1>0, <2>1
  <2>3. \A q \in Proc : Busy(q)' = Busy(q)
    BY <2>1 DEF Busy
  <2> QED BY <2>1, <2>2, <2>3 DEF GateInv, GateOf
<1>5. ASSUME NEW p \in Proc, ProcessEnds(p) PROVE GateInv'
  <2> SUFFICES ASSUME NEW q \in Proc PROVE GateOf(q)'
    BY DEF GateInv
  <2>1. /\ gate'[q] = (IF q = p THEN FALSE ELSE gate[q])
        /\ slot'[q] = (IF q = p THEN None ELSE slot[q])
        /\ boot'[q] = (IF q = p THEN "down" ELSE boot[q])
        /\ \A k \in Task : /\ pc'[k] = (IF ProcOf[k] = p THEN "idle" ELSE pc[k])
                           /\ loc'[k] = (IF ProcOf[k] = p THEN Blank ELSE loc[k])
    BY <1>0, <1>5 DEF ProcessEnds
  <2>2. GateOf(q)
    BY DEF GateInv
  <2>3. CASE q = p
    BY <2>1, <2>3 DEF GateOf, Busy
  <2>4. CASE q # p
    <3>1. \A k \in Task : ProcOf[k] = q => pc'[k] = pc[k] /\ loc'[k] = loc[k]
      BY <2>1, <2>4
    <3>2. Busy(q)' = Busy(q)
      BY <3>1 DEF Busy
    <3> QED BY <2>1, <2>2, <2>4, <3>1, <3>2 DEF GateOf
  <2> QED BY <2>3, <2>4
<1>6. ASSUME NEW p \in Proc, CancelAgentTurn(p) \/ ClearDraft(p) \/ SetScope(p) \/ SaveRead(p)
                             \/ SaveWrite(p)
      PROVE  GateInv'
  BY <1>1, <1>6 DEF CancelAgentTurn, ClearDraft, SetScope, SaveRead, SaveWrite, process
<1>7. CASE UNCHANGED hostVars
  BY <1>1, <1>7 DEF hostVars, process
<1> QED BY <1>2, <1>3, <1>4, <1>5, <1>6, <1>7 DEF HostNext

(* The gate of a process is closed exactly while one of its commands is    *)
(* under way, and the slot names the turn of a send that is still there:   *)
(* no way out of a command, however it ends, leaves either behind          *)
(* (agents.rs:111-129)                                                     *)
THEOREM GateHeld == HostSpec => []GateIsHeld
<1>1. HostInit => GateInv
  BY DEF HostInit, GateInv, GateOf, Busy
<1>2. HostTypes /\ GateInv /\ [HostNext]_hostVars => HostTypes' /\ GateInv'
  BY StepTypes, StutterTypes, GateStep
<1>3. GateInv => GateIsHeld
  <2>1. \A k \in Task : pc[k] \in HasTurn => pc[k] \in SendPC
    BY DEF HasTurn
  <2> QED BY <2>1 DEF GateInv, GateOf, Busy, GateIsHeld
<1> QED BY InitTypes, <1>1, <1>2, <1>3, PTL DEF HostSpec

---------------------------------------------------------------------------
(* Who writes the tables, and which step leads where                       *)
LEMMA Writes ==
  ASSUME [HostNext]_hostVars
  PROVE  \/ UNCHANGED durable
         \/ \E k \in Task : CreateSession(k) \/ AppendTurn(k) \/ DeltaWrite(k) \/ FinishWrite(k)
                            \/ SetProjectWrite(k)
         \/ \E p \in Proc : BootWrite(p)
<1>1. ASSUME NEW k \in Task, TaskStep(k)
      PROVE  \/ UNCHANGED durable
             \/ CreateSession(k) \/ AppendTurn(k) \/ DeltaWrite(k) \/ FinishWrite(k)
                                \/ SetProjectWrite(k)
  BY <1>1 DEF TaskStep, ReadInflight, ReadSession, ReadHistory, ReadOrdinal, ReadSequence,
     SendStart, Refresh, StreamCancelled, StreamDelta, StreamCompleted, StreamFails,
     DeltaReadTurn, DeltaReadSequence, Finalize, FinishReadTurn, FinishReadSession,
     FinishReadSequence, Recover, SetProjectReadSession, SetProjectReadSequence
<1>2. ASSUME NEW k \in Task, Command(k) \/ StoreFails(k) PROVE UNCHANGED durable
  BY <1>2 DEF Command, StoreFails, SendBegin, SetProjectBegin, PickBegin, PickEnd
<1>3. ASSUME NEW p \in Proc, CancelAgentTurn(p) \/ ClearDraft(p) \/ SetScope(p)
                     \/ SaveRead(p) \/ SaveWrite(p) \/ Start(p) \/ ProcessEnds(p)
      PROVE  UNCHANGED durable \/ BootWrite(p)
  BY <1>3 DEF CancelAgentTurn, ClearDraft, SetScope, SaveRead, SaveWrite, Start, ProcessEnds,
     BootList, BootRead
<1>4. CASE UNCHANGED hostVars
  BY <1>4 DEF hostVars, durable
<1> QED BY <1>1, <1>2, <1>3, <1>4 DEF HostNext

LEMMA Arrivals ==
  ASSUME HostTypes, NEW k \in Task, TaskStep(k) \/ StoreFails(k)
  PROVE  /\ pc'[k] = "session"  => ReadInflight(k)
         /\ pc'[k] = "history"  => ReadSession(k)
         /\ pc'[k] = "ordinal"  => ReadHistory(k)
         /\ pc'[k] = "sequence" => ReadOrdinal(k)
         /\ pc'[k] = "append"   => ReadSequence(k) \/ ReadInflight(k)
         /\ pc'[k] = "assemble" => CreateSession(k) \/ AppendTurn(k)
         /\ pc'[k] = "refresh"  => SendStart(k)
         /\ pc'[k] = "stream"   => Refresh(k) \/ DeltaWrite(k)
         /\ pc'[k] = "delta"    => StreamDelta(k)
         /\ pc'[k] = "deltaSeq"   => DeltaReadTurn(k)
         /\ pc'[k] = "deltaWrite" => DeltaReadTurn(k) \/ DeltaReadSequence(k)
         /\ pc'[k] = "finTurn"    => SendStart(k) \/ Refresh(k) \/ Finalize(k)
         /\ pc'[k] = "finSession" => FinishReadTurn(k) \/ DeltaReadTurn(k)
         /\ pc'[k] = "finSeq"     => FinishReadSession(k)
         /\ pc'[k] = "finWrite"   => FinishReadSequence(k)
         /\ pc'[k] = "pjSeq"      => SetProjectReadSession(k)
         /\ pc'[k] = "pjWrite"    => SetProjectReadSequence(k)
         /\ pc'[k] \notin {"inflight", "pjSession", "pick"}
<1>0. pc \in [Task -> PC]
  BY DEF HostTypes, HostTypeOK
<1>1. Ends(k) => pc'[k] = "idle"
  BY <1>0 DEF Ends
<1>2. \A ok : FinishReturns(k, ok) => pc'[k] \in {"idle", "finalize", "recover"}
  BY <1>0, <1>1 DEF FinishReturns, Goes
<1>3. \A r : StreamEnds(k, r) => pc'[k] = "finalize"
  BY <1>0 DEF StreamEnds
<1>4. \A g, c, e : Finishes(k, g, c, e) => pc'[k] = "finTurn"
  BY <1>0 DEF Finishes
<1>5. \A n : Goes(k, n) => pc'[k] = n
  BY <1>0 DEF Goes
<1>6. /\ ReadInflight(k) => pc'[k] \in {"idle", "append", "session"}
      /\ ReadSession(k)  => pc'[k] \in {"idle", "history"}
      /\ ReadHistory(k)  => pc'[k] \in {"idle", "ordinal"}
      /\ ReadOrdinal(k)  => pc'[k] = "sequence"
      /\ ReadSequence(k) => pc'[k] = "append"
      /\ CreateSession(k) => pc'[k] = "assemble"
      /\ AppendTurn(k)    => pc'[k] \in {"idle", "assemble"}
  BY <1>1, <1>5 DEF ReadInflight, ReadSession, ReadHistory, ReadOrdinal, ReadSequence,
     CreateSession, AppendTurn
<1>7. /\ SendStart(k) => pc'[k] \in {"finTurn", "refresh"}
      /\ Refresh(k)   => pc'[k] \in {"finTurn", "stream"}
      /\ StreamCancelled(k) \/ StreamCompleted(k) \/ StreamFails(k) => pc'[k] = "finalize"
      /\ StreamDelta(k) => pc'[k] = "delta"
      /\ DeltaReadSequence(k) => pc'[k] = "deltaWrite"
  BY <1>0, <1>3, <1>4 DEF SendStart, Refresh, StreamCancelled, StreamCompleted, StreamFails,
     StreamDelta, DeltaReadSequence
<1>8. /\ DeltaReadTurn(k) => pc'[k] \in {"finalize", "finSession", "deltaSeq", "deltaWrite"}
      /\ DeltaWrite(k) => pc'[k] \in {"finalize", "stream"}
  BY <1>0, <1>3 DEF DeltaReadTurn, DeltaWrite
<1>9. /\ Finalize(k) => pc'[k] \in {"idle", "finTurn"}
      /\ FinishReadTurn(k) => pc'[k] \in {"idle", "finalize", "recover", "finSession"}
      /\ FinishReadSession(k) => pc'[k] = "finSeq"
      /\ FinishReadSequence(k) => pc'[k] = "finWrite"
      /\ FinishWrite(k) => pc'[k] \in {"idle", "finalize", "recover"}
      /\ Recover(k) => pc'[k] = "idle"
  BY <1>1, <1>2, <1>4, <1>5 DEF Finalize, FinishReadTurn, FinishReadSession,
     FinishReadSequence, FinishWrite, Recover
<1>10. /\ SetProjectReadSession(k) => pc'[k] = "pjSeq"
       /\ SetProjectReadSequence(k) => pc'[k] = "pjWrite"
       /\ SetProjectWrite(k) => pc'[k] = "idle"
  BY <1>1, <1>5 DEF SetProjectReadSession, SetProjectReadSequence, SetProjectWrite
<1>11. StoreFails(k) => pc'[k] \in {"idle", "finalize", "recover"}
  BY <1>1, <1>2, <1>3 DEF StoreFails
<1> QED BY <1>6, <1>7, <1>8, <1>9, <1>10, <1>11 DEF TaskStep

(* What a delta is about to write is the state of a turn in flight         *)
DeltaOK(k) ==
  pc[k] \in {"deltaSeq", "deltaWrite"} =>
    /\ loc[k].state \in InflightState
    /\ loc[k].first => loc[k].state = "streaming"
    /\ pc[k] = "deltaSeq" => loc[k].first

DeltaInv == \A k \in Task : DeltaOK(k)

(* A step of one task leaves the others where they are *)
LEMMA OthersStay ==
  ASSUME HostTypes, NEW k \in Task, TaskStep(k) \/ StoreFails(k) \/ Command(k),
         NEW j \in Task, j # k
  PROVE  pc'[j] = pc[j] /\ loc'[j] = loc[j]
<1>0. pc \in [Task -> PC] /\ loc \in [Task -> Locals]
  BY DEF HostTypes, HostTypeOK, Locals
<1>1. Moves(k) \/ Ends(k) => pc'[j] = pc[j] /\ loc'[j] = loc[j]
  BY <1>0 DEF Moves, Ends
<1>2. CASE Command(k)
  BY <1>0, <1>1, <1>2 DEF Command, SendBegin, SetProjectBegin, PickBegin, PickEnd
<1> QED BY <1>1, <1>2, TaskShape

(* A command begins with blank local variables and no turn *)
LEMMA Beginnings ==
  ASSUME HostTypes, NEW k \in Task, Command(k)
  PROVE  /\ pc'[k] \in {"idle", "inflight", "pjSession", "pick"}
         /\ pc'[k] \in {"inflight", "pjSession"} => loc'[k].turn = None
         /\ pc'[k] = "idle" => loc'[k] = Blank
         /\ pc'[k] = "pick" => pc[k] = "idle" /\ loc'[k] = loc[k]
<1>0. pc \in [Task -> PC] /\ loc \in [Task -> Locals]
  BY DEF HostTypes, HostTypeOK, Locals
<1>1. CASE PickEnd(k)
  BY <1>0, <1>1 DEF PickEnd, Ends
<1>2. CASE PickBegin(k)
  BY <1>0, <1>2 DEF PickBegin, TryOperation, Idle
<1>3. CASE SendBegin(k)
  <2>1. PICK s \in {None} \cup SessionId, pr \in AnyProject, h \in {None} \cup Handle :
          loc' = [loc EXCEPT ![k] = [Blank EXCEPT !.session = s, !.project = pr, !.draft = h]]
    BY <1>3 DEF SendBegin
  <2>2. pc'[k] = "inflight" /\ loc'[k].turn = None
    BY <1>0, <1>3, <2>1 DEF SendBegin, Blank
  <2> QED BY <2>2
<1>4. CASE SetProjectBegin(k)
  <2>1. PICK s, pr : loc' = [loc EXCEPT ![k] = [Blank EXCEPT !.session = s, !.project = pr]]
    BY <1>4 DEF SetProjectBegin
  <2>2. pc'[k] = "pjSession" /\ loc'[k].turn = None
    BY <1>0, <1>4, <2>1 DEF SetProjectBegin, Blank
  <2> QED BY <2>2
<1> QED BY <1>1, <1>2, <1>3, <1>4 DEF Command

(* Every other step leaves each task where it is, or blank and idle *)
LEMMA BystandersStay ==
  ASSUME HostTypes, NEW j \in Task,
         \/ UNCHANGED hostVars
         \/ \E p \in Proc : \/ CancelAgentTurn(p) \/ ClearDraft(p) \/ SetScope(p)
                            \/ SaveRead(p) \/ SaveWrite(p) \/ Start(p) \/ ProcessEnds(p)
  PROVE  \/ pc'[j] = pc[j] /\ loc'[j] = loc[j]
         \/ pc'[j] = "idle" /\ loc'[j] = Blank
<1>1. CASE \E p \in Proc : ProcessEnds(p)
  BY <1>1 DEF ProcessEnds
<1>2. ASSUME NEW p \in Proc,
             CancelAgentTurn(p) \/ ClearDraft(p) \/ SetScope(p) \/ SaveRead(p) \/ SaveWrite(p) \/ Start(p)
      PROVE  UNCHANGED <<pc, loc>>
  BY <1>2 DEF CancelAgentTurn, ClearDraft, SetScope, SaveRead, SaveWrite, Start, BootList,
     BootRead, BootWrite
<1> QED BY <1>1, <1>2 DEF hostVars

LEMMA DeltaStep ==
  ASSUME HostTypes, DeltaInv, [HostNext]_hostVars
  PROVE  DeltaInv'
<1> SUFFICES ASSUME NEW j \in Task PROVE DeltaOK(j)'
  BY DEF DeltaInv
<1>0. pc \in [Task -> PC] /\ loc \in [Task -> Locals] /\ loc[j] \in Locals /\ DeltaOK(j)
  BY DEF HostTypes, HostTypeOK, Locals, DeltaInv
<1>1. CASE pc'[j] = pc[j] /\ loc'[j] = loc[j]
  BY <1>0, <1>1 DEF DeltaOK
<1>2. CASE pc'[j] \notin {"deltaSeq", "deltaWrite"}
  BY <1>2 DEF DeltaOK
<1>3. ASSUME TaskStep(j) \/ StoreFails(j), pc'[j] \in {"deltaSeq", "deltaWrite"}
      PROVE  DeltaOK(j)'
  <2>1. CASE DeltaReadSequence(j)
    <3>1. /\ pc[j] = "deltaSeq" /\ pc'[j] = "deltaWrite"
          /\ loc'[j].state = loc[j].state /\ loc'[j].first = loc[j].first
      BY <1>0, <2>1 DEF DeltaReadSequence, Locals
    <3> QED BY <1>0, <3>1 DEF DeltaOK
  <2>2. CASE DeltaReadTurn(j)
    <3> DEFINE row == turns[loc[j].turn]
               first == row.state = "pending" /\ loc[j].delta > 0
    <3>1. /\ row.state \in InflightState
          /\ pc'[j] = IF first THEN "deltaSeq" ELSE "deltaWrite"
          /\ loc'[j].state = IF first THEN "streaming" ELSE row.state
          /\ loc'[j].first = first
      BY <1>0, <1>3, <2>2 DEF DeltaReadTurn, StreamEnds, Locals
    <3> QED BY <3>1 DEF DeltaOK, InflightState
  <2> QED BY <1>3, <2>1, <2>2, Arrivals
<1>4. ASSUME Command(j) PROVE DeltaOK(j)'
  BY <1>2, <1>4, Beginnings
<1> QED BY <1>1, <1>2, <1>3, <1>4, OthersStay, BystandersStay DEF HostNext

(* The only ways in which a row of agent_turns changes *)
LEMMA TurnWriters ==
  ASSUME HostTypes, [HostNext]_hostVars, NEW t \in TurnId
  PROVE  \/ turns'[t] = turns[t]
         \/ /\ turns[t].state = "absent"
            /\ \E k \in Task, s \in SessionId :
                 /\ CreateSession(k) \/ AppendTurn(k)
                 /\ turns'[t] = PendingTurn(k, s)
         \/ /\ Inflight(t)
            /\ \E p \in Proc : /\ BootWrite(p) /\ turns'[t] = InterruptedRow(p, t)
                               /\ \E r \in listed[p] : r.turn = t
         \/ /\ Inflight(t)
            /\ \E k \in Task :
                 /\ DeltaWrite(k) /\ pc[k] \in HasTurn /\ loc[k].turn = t
                 /\ turns'[t] = [turns[t] EXCEPT !.text = loc[k].text, !.state = loc[k].state]
         \/ /\ Inflight(t)
            /\ \E k \in Task :
                 /\ FinishWrite(k) /\ pc[k] \in HasTurn /\ loc[k].turn = t
                 /\ turns'[t] = [turns[t] EXCEPT !.state = loc[k].goal, !.text = loc[k].text,
                                   !.code = CodeFor(loc[k].goal, loc[k].code)]
<1>0. turns \in [TurnId -> TurnRow]
  BY DEF HostTypes, HostTypeOK, TurnRow
<1>1. CASE UNCHANGED durable
  BY <1>1 DEF durable
<1>2. ASSUME NEW k \in Task, CreateSession(k), turns'[t] # turns[t]
      PROVE  turns[t].state = "absent" /\ \E s \in SessionId : turns'[t] = PendingTurn(k, s)
  <2>1. PICK s \in SessionId, u \in TurnId : /\ turns[u].state = "absent"
                                             /\ turns' = [turns EXCEPT ![u] = PendingTurn(k, s)]
    BY <1>2 DEF CreateSession
  <2>2. u = t
    BY <1>0, <1>2, <2>1
  <2> QED BY <1>0, <2>1, <2>2
<1>3. ASSUME NEW k \in Task, AppendTurn(k), turns'[t] # turns[t]
      PROVE  turns[t].state = "absent" /\ \E s \in SessionId : turns'[t] = PendingTurn(k, s)
  <2>0. loc[k].session \in SessionId
    <3>1. loc[k].session # None /\ loc[k].session \in {None} \cup SessionId
      BY <1>3 DEF AppendTurn, HostTypes, HostTypeOK
    <3> QED BY <3>1
  <2>1. PICK u \in TurnId : /\ turns[u].state = "absent"
                            /\ turns' = [turns EXCEPT ![u] = PendingTurn(k, loc[k].session)]
    BY <1>3 DEF AppendTurn, durable
  <2>2. u = t
    BY <1>0, <1>3, <2>1
  <2> QED BY <1>0, <2>0, <2>1, <2>2
<1>4. ASSUME NEW k \in Task, DeltaWrite(k), turns'[t] # turns[t]
      PROVE  /\ Inflight(t) /\ pc[k] \in HasTurn /\ loc[k].turn = t
             /\ turns'[t] = [turns[t] EXCEPT !.text = loc[k].text, !.state = loc[k].state]
  <2>1. /\ CanUpdateInflight(loc[k].turn)
        /\ turns' = [turns EXCEPT ![loc[k].turn].text = loc[k].text,
                                  ![loc[k].turn].state = loc[k].state]
    BY <1>4 DEF DeltaWrite
  <2>2. loc[k].turn = t
    BY <1>0, <1>4, <2>1
  <2>3. pc[k] \in HasTurn
    BY <1>4 DEF DeltaWrite, HasTurn, SendPC, PreparePC, DeltaPC
  <2> QED BY <1>0, <2>1, <2>2, <2>3 DEF CanUpdateInflight
<1>5. ASSUME NEW k \in Task, FinishWrite(k), turns'[t] # turns[t]
      PROVE  /\ Inflight(t) /\ pc[k] \in HasTurn /\ loc[k].turn = t
             /\ turns'[t] = [turns[t] EXCEPT !.state = loc[k].goal, !.text = loc[k].text,
                               !.code = CodeFor(loc[k].goal, loc[k].code)]
  <2>1. /\ CanUpdateInflight(loc[k].turn)
        /\ turns' = [turns EXCEPT ![loc[k].turn].state = loc[k].goal,
                                  ![loc[k].turn].text = loc[k].text,
                                  ![loc[k].turn].code = CodeFor(loc[k].goal, loc[k].code)]
    BY <1>5 DEF FinishWrite, durable
  <2>2. loc[k].turn = t
    BY <1>0, <1>5, <2>1
  <2>3. pc[k] \in HasTurn
    BY <1>5 DEF FinishWrite, HasTurn, SendPC, PreparePC, FinishPC
  <2> QED BY <1>0, <2>1, <2>2, <2>3 DEF CanUpdateInflight
<1>6. ASSUME NEW k \in Task, SetProjectWrite(k) PROVE turns'[t] = turns[t]
  BY <1>6 DEF SetProjectWrite
<1>7. ASSUME NEW p \in Proc, BootWrite(p), turns'[t] # turns[t]
      PROVE  /\ Inflight(t) /\ turns'[t] = InterruptedRow(p, t)
             /\ \E r \in listed[p] : r.turn = t
  <2>1. /\ \A r \in listed[p] : CanUpdateInflight(r.turn)
        /\ turns' = [u \in TurnId |-> IF \E r \in listed[p] : r.turn = u
                                      THEN InterruptedRow(p, u) ELSE turns[u]]
    BY <1>7 DEF BootWrite, InterruptedRow, durable
  <2> QED BY <1>7, <2>1 DEF CanUpdateInflight
<1> QED BY <1>1, <1>2, <1>3, <1>4, <1>5, <1>6, <1>7, Writes

(* A row keeps who it belongs to, and a turn that has ended keeps its row  *)
Lasting ==
  \A t \in TurnId :
    /\ turns[t].state # "absent" =>
         /\ turns'[t].state # "absent"
         /\ turns'[t].session = turns[t].session /\ turns'[t].ordinal = turns[t].ordinal
         /\ turns'[t].project = turns[t].project /\ turns'[t].source = turns[t].source
    /\ turns[t].state \in TerminalState => turns'[t] = turns[t]

LEMMA RowsLast ==
  ASSUME HostTypes, DeltaInv, [HostNext]_hostVars
  PROVE  Lasting
<1> SUFFICES ASSUME NEW t \in TurnId
             PROVE  /\ turns[t].state # "absent" =>
                        /\ turns'[t].state # "absent"
                        /\ turns'[t].session = turns[t].session
                        /\ turns'[t].ordinal = turns[t].ordinal
                        /\ turns'[t].project = turns[t].project
                        /\ turns'[t].source = turns[t].source
                    /\ turns[t].state \in TerminalState => turns'[t] = turns[t]
  BY DEF Lasting
<1>0. turns[t] \in TurnRow /\ \A k \in Task : loc[k].goal \in TerminalState
  BY DEF HostTypes, HostTypeOK, TurnRow
<1>1. CASE turns'[t] = turns[t] \/ turns[t].state = "absent"
  BY <1>1 DEF TerminalState
<1>2. ASSUME NEW p \in Proc, Inflight(t), turns'[t] = InterruptedRow(p, t),
             \E r \in listed[p] : r.turn = t
      PROVE  /\ turns'[t].state # "absent" /\ turns[t].state \notin TerminalState
             /\ turns'[t].session = turns[t].session /\ turns'[t].ordinal = turns[t].ordinal
             /\ turns'[t].project = turns[t].project /\ turns'[t].source = turns[t].source
  BY <1>2, InterruptedRowType DEF Inflight, InflightState, TerminalState
<1>3. ASSUME NEW k \in Task, Inflight(t), DeltaWrite(k),
             turns'[t] = [turns[t] EXCEPT !.text = loc[k].text, !.state = loc[k].state]
      PROVE  /\ turns'[t].state # "absent" /\ turns[t].state \notin TerminalState
             /\ turns'[t].session = turns[t].session /\ turns'[t].ordinal = turns[t].ordinal
             /\ turns'[t].project = turns[t].project /\ turns'[t].source = turns[t].source
  <2>1. loc[k].state \in InflightState
    BY <1>3 DEF DeltaInv, DeltaOK, DeltaWrite
  <2> QED BY <1>0, <1>3, <2>1 DEF Inflight, InflightState, TerminalState, TurnRow
<1>4. ASSUME NEW k \in Task, Inflight(t),
             turns'[t] = [turns[t] EXCEPT !.state = loc[k].goal, !.text = loc[k].text,
                            !.code = CodeFor(loc[k].goal, loc[k].code)]
      PROVE  /\ turns'[t].state # "absent" /\ turns[t].state \notin TerminalState
             /\ turns'[t].session = turns[t].session /\ turns'[t].ordinal = turns[t].ordinal
             /\ turns'[t].project = turns[t].project /\ turns'[t].source = turns[t].source
  <2>1. loc[k].goal \in TerminalState
    BY <1>0
  <2> QED BY <1>0, <1>4, <2>1 DEF Inflight, InflightState, TerminalState, TurnRow
<1> QED BY <1>1, <1>2, <1>3, <1>4, TurnWriters

(* A terminal turn never changes again, whichever command, callback or     *)
(* start-up of another process is about to write it (sqlite/agents.rs:493) *)
THEOREM TerminalStays == HostSpec => TerminalIsFinal
<1>1. HostInit => HostTypes /\ DeltaInv
  BY InitTypes DEF HostInit, DeltaInv, DeltaOK
<1>2. HostTypes /\ DeltaInv /\ [HostNext]_hostVars => HostTypes' /\ DeltaInv'
  BY StepTypes, StutterTypes, DeltaStep
<1>3. HostTypes /\ DeltaInv /\ [HostNext]_hostVars =>
        [\A t \in TurnId : turns[t].state \in TerminalState => turns'[t] = turns[t]]_hostVars
  BY RowsLast DEF Lasting
<1> QED BY <1>1, <1>2, <1>3, PTL DEF HostSpec, TerminalIsFinal

---------------------------------------------------------------------------
(* Artifacts                                                               *)

(* What is saved, or has been read to be saved, is the row of a turn that  *)
(* is completed                                                            *)
Saved(a) ==
  /\ a \in SavedRow
  /\ turns[a.turn].state = "completed" /\ turns[a.turn].text = a.text
  /\ turns[a.turn].project = a.project /\ turns[a.turn].session = a.session

SavedInv == (\A a \in artifacts : Saved(a)) /\ \A p \in Proc : \A a \in saving[p] : Saved(a)

LEMMA SavedStep ==
  ASSUME HostTypes, DeltaInv, SavedInv, [HostNext]_hostVars
  PROVE  SavedInv'
<1>0. saving \in [Proc -> SUBSET SavedRow] /\ turns \in [TurnId -> TurnRow]
  BY DEF HostTypes, HostTypeOK, TablesOK, TurnRow
<1>1. ASSUME NEW a, Saved(a) PROVE Saved(a)'
  <2>1. a.turn \in TurnId /\ turns[a.turn].state \in TerminalState
    BY <1>1 DEF Saved, SavedRow, TerminalState
  <2>2. turns'[a.turn] = turns[a.turn]
    BY <2>1, RowsLast DEF Lasting
  <2> QED BY <1>1, <2>2 DEF Saved
<1>2. ASSUME UNCHANGED library PROVE SavedInv'
  BY <1>1, <1>2 DEF SavedInv, library
<1>3. ASSUME NEW p \in Proc, SaveRead(p) PROVE SavedInv'
  <2>1. PICK t \in TurnId : CanBeSaved(turns[t]) /\ saving' = [saving EXCEPT ![p] =
           {[turn |-> t, session |-> turns[t].session, text |-> turns[t].text,
             project |-> turns[t].project]}]
    BY <1>3 DEF SaveRead
  <2>2. PICK a : a = [turn |-> t, session |-> turns[t].session, text |-> turns[t].text,
                      project |-> turns[t].project]
    OBVIOUS
  <2>3. Saved(a)
    <3>1. turns[t].state = "completed" /\ turns[t].text > 0
      BY <2>1 DEF CanBeSaved
    <3>2. turns[t].text \in 0 .. MaxText /\ MaxText \in Nat /\ turns[t].project \in AnyProject
      BY <1>0, HostAssumption DEF TurnRow
    <3>3. turns[t].session \in SessionId
      BY <3>1 DEF HostTypes, TablesOK
    <3> QED BY <2>2, <3>1, <3>2, <3>3 DEF Saved, SavedRow
  <2>4. \A q \in Proc : saving'[q] = IF q = p THEN {a} ELSE saving[q]
    BY <1>0, <2>1, <2>2
  <2>5. UNCHANGED artifacts
    BY <1>3 DEF SaveRead
  <2> QED BY <1>1, <2>3, <2>4, <2>5 DEF SavedInv
<1>4. ASSUME NEW p \in Proc, SaveWrite(p) \/ ProcessEnds(p) PROVE SavedInv'
  <2>1. /\ \A q \in Proc : saving'[q] = {} \/ saving'[q] = saving[q]
        /\ artifacts' = artifacts \/ artifacts' = artifacts \cup saving[p]
    BY <1>0, <1>4 DEF SaveWrite, ProcessEnds
  <2> QED BY <1>1, <2>1 DEF SavedInv
<1>5. ASSUME NEW k \in Task, TaskStep(k) \/ StoreFails(k) \/ Command(k) PROVE UNCHANGED library
  BY <1>5, TaskShape DEF Command, SendBegin, SetProjectBegin, PickBegin, PickEnd
<1>6. ASSUME NEW p \in Proc, CancelAgentTurn(p) \/ ClearDraft(p) \/ SetScope(p) \/ Start(p)
      PROVE  UNCHANGED library
  BY <1>6 DEF CancelAgentTurn, ClearDraft, SetScope, Start, BootList, BootRead, BootWrite
<1>7. CASE UNCHANGED hostVars
  BY <1>2, <1>7 DEF hostVars
<1> QED BY <1>2, <1>3, <1>4, <1>5, <1>6, <1>7 DEF HostNext

(* An Artifact holds the text and the Project that its turn was completed  *)
(* with, although create_artifact_from_turn reads the row and inserts the  *)
(* Artifact in two calls and without the gate                              *)
(* (artifact_use_cases.rs:37-62)                                           *)
THEOREM ArtifactExact == HostSpec => []ArtifactIsExact
<1>1. HostInit => HostTypes /\ DeltaInv /\ SavedInv
  BY InitTypes DEF HostInit, DeltaInv, DeltaOK, SavedInv
<1>2. HostTypes /\ DeltaInv /\ SavedInv /\ [HostNext]_hostVars
        => HostTypes' /\ DeltaInv' /\ SavedInv'
  BY StepTypes, StutterTypes, DeltaStep, SavedStep
<1>3. SavedInv => ArtifactIsExact
  BY DEF SavedInv, Saved, ArtifactIsExact, ListArtifacts
<1> QED BY <1>1, <1>2, <1>3, PTL DEF HostSpec

---------------------------------------------------------------------------
(* The end of a turn                                                       *)

(* list_inflight_turns returns a turn once *)
ListedOnce == \A p \in Proc : \A q, r \in listed[p] : q.turn = r.turn => q = r

LEMMA ListedStep ==
  ASSUME HostTypes, ListedOnce, [HostNext]_hostVars
  PROVE  ListedOnce'
<1>0. listed \in [Proc -> SUBSET ListedRow]
  BY DEF HostTypes, TablesOK
<1>1. ASSUME \A p \in Proc : listed'[p] = listed[p] \/ listed'[p] = {} PROVE ListedOnce'
  BY <1>1 DEF ListedOnce
<1>2. ASSUME NEW p \in Proc, BootList(p) PROVE ListedOnce'
  <2>1. /\ \A q \in Proc : q # p => listed'[q] = listed[q]
        /\ listed'[p] = {InflightRow(t) : t \in {u \in TurnId : Inflight(u)}}
    BY <1>0, <1>2 DEF BootList, InflightRow
  <2>2. \A t \in TurnId : InflightRow(t).turn = t
    BY DEF InflightRow
  <2> QED BY <2>1, <2>2 DEF ListedOnce
<1>3. ASSUME NEW p \in Proc, BootRead(p) PROVE ListedOnce'
  <2>1. /\ \A q \in Proc : q # p => listed'[q] = listed[q]
        /\ listed'[p] = {NumberedRow(p, r) : r \in listed[p]}
    BY <1>0, <1>3 DEF BootRead, NumberedRow, BeforeRow
  <2>2. \A r \in listed[p] : NumberedRow(p, r).turn = r.turn
    BY NumberedRowType
  <2> QED BY <2>1, <2>2 DEF ListedOnce
<1>4. ASSUME NEW p \in Proc, BootWrite(p) \/ ProcessEnds(p) PROVE ListedOnce'
  <2>1. listed' = [listed EXCEPT ![p] = {}]
    BY <1>4 DEF BootWrite, ProcessEnds
  <2> QED BY <1>0, <1>1, <2>1
<1>5. ASSUME NEW k \in Task, TaskStep(k) \/ StoreFails(k) \/ Command(k) PROVE UNCHANGED listed
  BY <1>5, TaskShape DEF Command, SendBegin, SetProjectBegin, PickBegin, PickEnd
<1>6. ASSUME NEW p \in Proc, CancelAgentTurn(p) \/ ClearDraft(p) \/ SetScope(p) \/ SaveRead(p)
                             \/ SaveWrite(p)
      PROVE  UNCHANGED listed
  BY <1>6 DEF CancelAgentTurn, ClearDraft, SetScope, SaveRead, SaveWrite, process
<1>7. CASE UNCHANGED hostVars
  BY <1>1, <1>7 DEF hostVars, process
<1> QED BY <1>1, <1>2, <1>3, <1>4, <1>5, <1>6, <1>7 DEF HostNext, Start

(* What is known of the events of a turn, given its state *)
EndOf(t) ==
  /\ turns[t].state \in TerminalState =>
       \E e \in TerminalEvents(t) : /\ TerminalEvents(t) = {e}
                                    /\ e.kind = ForTerminalState(turns[t].state)
  /\ turns[t].state \notin TerminalState => TerminalEvents(t) = {}

LEMMA EndStep ==
  ASSUME HostTypes, DeltaInv, ListedOnce, OneTerminalEvent, [HostNext]_hostVars
  PROVE  OneTerminalEvent'
<1> SUFFICES ASSUME NEW t \in TurnId PROVE EndOf(t)'
  BY DEF OneTerminalEvent, EndOf
<1>0. /\ EndOf(t) /\ turns \in [TurnId -> TurnRow] /\ events \subseteq EventRow
      /\ None \notin TurnId
  BY DEF OneTerminalEvent, EndOf, HostTypes, HostTypeOK, TurnRow, EventRow, TurnId, None
<1>1. ASSUME TerminalEvents(t)' = TerminalEvents(t), turns'[t] = turns[t] PROVE EndOf(t)'
  BY <1>0, <1>1 DEF EndOf
<1>1a. ASSUME TerminalEvents(t)' = TerminalEvents(t), turns'[t].state \notin TerminalState,
              turns[t].state \notin TerminalState
       PROVE  EndOf(t)'
  BY <1>0, <1>1a DEF EndOf
<1>2. CASE UNCHANGED durable
  BY <1>1, <1>2 DEF durable, TerminalEvents
<1>3. ASSUME NEW k \in Task, CreateSession(k) \/ AppendTurn(k) PROVE EndOf(t)'
  <2>1. ASSUME NEW u \in TurnId, turns[u].state = "absent",
               turns'[u].state = "pending" /\ \A v \in TurnId : v # u => turns'[v] = turns[v]
        PROVE  \/ turns'[t] = turns[t]
               \/ turns'[t].state \notin TerminalState /\ turns[t].state \notin TerminalState
    BY <2>1 DEF TerminalState
  <2>2. \/ turns'[t] = turns[t]
        \/ turns'[t].state \notin TerminalState /\ turns[t].state \notin TerminalState
    <3>1. \A s \in SessionId : PendingTurn(k, s).state = "pending"
      BY DEF PendingTurn
    <3>2. "absent" \notin TerminalState /\ "pending" \notin TerminalState
      BY DEF TerminalState
    <3>3. CASE CreateSession(k)
      <4>1. PICK s \in SessionId, u \in TurnId : /\ turns[u].state = "absent"
                                                 /\ turns' = [turns EXCEPT ![u] = PendingTurn(k, s)]
        BY <3>3 DEF CreateSession
      <4> QED BY <1>0, <3>1, <3>2, <4>1
    <3>4. CASE AppendTurn(k)
      <4>1. CASE UNCHANGED turns
        BY <4>1
      <4>2. CASE ~ UNCHANGED turns
        <5>1. loc[k].session \in SessionId
          <6>1. loc[k].session # None /\ loc[k].session \in {None} \cup SessionId
            BY <3>4 DEF AppendTurn, HostTypes, HostTypeOK
          <6> QED BY <6>1
        <5>2. PICK u \in TurnId : /\ turns[u].state = "absent"
                                  /\ turns' = [turns EXCEPT ![u] = PendingTurn(k, loc[k].session)]
          BY <3>4, <4>2 DEF AppendTurn, durable
        <5> QED BY <1>0, <3>1, <3>2, <5>1, <5>2
      <4> QED BY <4>1, <4>2
    <3> QED BY <1>3, <3>3, <3>4
  <2>3. TerminalEvents(t)' = TerminalEvents(t)
    <3>1. \A s, u, n : Event(s, u, n, "turn_pending").kind \notin TerminalKind
                       /\ Event(s, u, n, "session_created").kind \notin TerminalKind
      BY DEF Event, TerminalKind
    <3>2. events \subseteq events' /\ \A e \in events' \ events : e.kind \notin TerminalKind
      <4>1. CASE CreateSession(k)
        <5>1. \E s, u : events' = events \cup {Event(s, None, 0, "session_created"),
                                               Event(s, u, 1, "turn_pending")}
          BY <4>1 DEF CreateSession
        <5> QED BY <3>1, <5>1
      <4>2. CASE AppendTurn(k)
        <5>1. \/ events' = events
              \/ \E u : events' = events \cup {Event(loc[k].session, u, loc[k].sequence, "turn_pending")}
          BY <4>2 DEF AppendTurn, durable
        <5> QED BY <3>1, <5>1
      <4> QED BY <1>3, <4>1, <4>2
    <3> QED BY <3>2 DEF TerminalEvents
  <2> QED BY <1>1, <1>1a, <2>2, <2>3
<1>4. ASSUME NEW k \in Task, DeltaWrite(k) PROVE EndOf(t)'
  <2>1. TerminalEvents(t)' = TerminalEvents(t)
    <3>1. \A s, u, n : Event(s, u, n, "turn_streaming").kind \notin TerminalKind
      BY DEF Event, TerminalKind
    <3>2. events \subseteq events' /\ \A e \in events' \ events : e.kind \notin TerminalKind
      BY <1>4, <3>1 DEF DeltaWrite
    <3> QED BY <3>2 DEF TerminalEvents
  <2>2. CASE turns'[t] = turns[t]
    BY <1>1, <2>1, <2>2
  <2>3. CASE turns'[t] # turns[t]
    <3>1. /\ CanUpdateInflight(loc[k].turn)
          /\ turns' = [turns EXCEPT ![loc[k].turn].text = loc[k].text,
                                    ![loc[k].turn].state = loc[k].state]
      BY <1>4, <2>3 DEF DeltaWrite
    <3>2. loc[k].state \in InflightState
      BY <1>4 DEF DeltaInv, DeltaOK, DeltaWrite
    <3>3. loc[k].turn = t /\ turns'[t].state = loc[k].state
      BY <1>0, <2>3, <3>1 DEF TurnRow
    <3> QED BY <1>1a, <2>1, <3>1, <3>2, <3>3
          DEF CanUpdateInflight, Inflight, InflightState, TerminalState
  <2> QED BY <2>2, <2>3
<1>5. ASSUME NEW k \in Task, FinishWrite(k) PROVE EndOf(t)'
  <2>1. CASE UNCHANGED durable
    BY <1>2, <2>1
  <2>2. CASE ~ UNCHANGED durable
    <3> DEFINE x == Event(loc[k].session, loc[k].turn, loc[k].sequence,
                          ForTerminalState(loc[k].goal))
    <3>1. /\ CanUpdateInflight(loc[k].turn)
          /\ turns' = [turns EXCEPT ![loc[k].turn].state = loc[k].goal,
                                    ![loc[k].turn].text = loc[k].text,
                                    ![loc[k].turn].code = CodeFor(loc[k].goal, loc[k].code)]
          /\ events' = events \cup {x}
      BY <1>5, <2>2 DEF FinishWrite
    <3>2. loc[k].goal \in TerminalState /\ loc[k].code \in ErrorCode
      BY DEF HostTypes, HostTypeOK
    <3>3. x.turn = loc[k].turn /\ x.kind = ForTerminalState(loc[k].goal) /\ x.kind \in TerminalKind
      BY <3>2, EndKinds DEF Event
    <3> HIDE DEF x
    <3>4. CASE t = loc[k].turn
      <4>1. turns'[t].state = loc[k].goal
        BY <1>0, <3>1, <3>4 DEF TurnRow
      <4>2. TerminalEvents(t) = {}
        BY <1>0, <3>1, <3>4 DEF EndOf, CanUpdateInflight, Inflight, InflightState, TerminalState
      <4>3. TerminalEvents(t)' = {x}
        BY <3>1, <3>3, <3>4, <4>2 DEF TerminalEvents
      <4> QED BY <3>2, <3>3, <4>1, <4>3 DEF EndOf
    <3>5. CASE t # loc[k].turn
      <4>1. turns'[t] = turns[t]
        BY <1>0, <3>1, <3>5
      <4>2. TerminalEvents(t)' = TerminalEvents(t)
        BY <3>1, <3>3, <3>5 DEF TerminalEvents
      <4> QED BY <1>1, <4>1, <4>2
    <3> QED BY <3>4, <3>5
  <2> QED BY <2>1, <2>2
<1>6. ASSUME NEW k \in Task, SetProjectWrite(k) PROVE EndOf(t)'
  <2>1. turns' = turns
    BY <1>6 DEF SetProjectWrite
  <2>2. \A s, u, n : Event(s, u, n, "project_association_changed").kind \notin TerminalKind
    BY DEF Event, TerminalKind
  <2>3. events \subseteq events' /\ \A e \in events' \ events : e.kind \notin TerminalKind
    BY <1>6, <2>2 DEF SetProjectWrite
  <2>4. TerminalEvents(t)' = TerminalEvents(t)
    BY <2>3 DEF TerminalEvents
  <2> QED BY <1>1, <2>1, <2>4
<1>7. ASSUME NEW p \in Proc, BootWrite(p) PROVE EndOf(t)'
  <2>1. CASE UNCHANGED durable
    BY <1>2, <2>1
  <2>2. CASE ~ UNCHANGED durable
    <3> DEFINE E(r) == Event(r.session, r.turn, r.sequence, "turn_interrupted")
    <3>1. /\ \A r \in listed[p] : CanUpdateInflight(r.turn)
          /\ turns' = [u \in TurnId |-> IF \E r \in listed[p] : r.turn = u
                                        THEN InterruptedRow(p, u) ELSE turns[u]]
          /\ events' = events \cup {E(r) : r \in listed[p]}
      BY <1>7, <2>2 DEF BootWrite, InterruptedRow
    <3>2. \A r : E(r).turn = r.turn /\ E(r).kind = "turn_interrupted"
      BY DEF Event
    <3> HIDE DEF E
    <3>3. CASE \E r \in listed[p] : r.turn = t
      <4>1. PICK r \in listed[p] : r.turn = t
        BY <3>3
      <4>2. \A q \in listed[p] : q.turn = t => q = r
        BY <4>1 DEF ListedOnce
      <4>3. turns'[t].state = "interrupted"
        BY <3>1, <3>3, InterruptedRowType
      <4>4. TerminalEvents(t) = {}
        BY <1>0, <3>1, <4>1 DEF EndOf, CanUpdateInflight, Inflight, InflightState, TerminalState
      <4>5. TerminalEvents(t)' = {E(r)}
        BY <3>1, <3>2, <4>1, <4>2, <4>4 DEF TerminalEvents, TerminalKind
      <4> QED BY <3>2, <4>3, <4>5 DEF EndOf, ForTerminalState, TerminalState
    <3>4. CASE ~ \E r \in listed[p] : r.turn = t
      <4>1. turns'[t] = turns[t]
        BY <3>1, <3>4
      <4>2. TerminalEvents(t)' = TerminalEvents(t)
        BY <3>1, <3>2, <3>4 DEF TerminalEvents
      <4> QED BY <1>1, <4>1, <4>2
    <3> QED BY <3>3, <3>4
  <2> QED BY <2>1, <2>2
<1> QED BY <1>2, <1>3, <1>4, <1>5, <1>6, <1>7, Writes

(* A turn has exactly one terminal event, of the kind of its state, and    *)
(* none before it ends, whoever ends it (agent_use_cases.rs:286, 379)      *)
THEOREM TerminalEventOnce == HostSpec => []OneTerminalEvent
<1>1. HostInit => HostTypes /\ DeltaInv /\ ListedOnce /\ OneTerminalEvent
  <2>1. HostInit => DeltaInv /\ ListedOnce
    BY DEF HostInit, DeltaInv, DeltaOK, ListedOnce
  <2>2. HostInit => OneTerminalEvent
    BY DEF HostInit, OneTerminalEvent, TerminalEvents, AbsentTurn, TerminalState
  <2> QED BY <2>1, <2>2, InitTypes
<1>2. HostTypes /\ DeltaInv /\ ListedOnce /\ OneTerminalEvent /\ [HostNext]_hostVars
        => HostTypes' /\ DeltaInv' /\ ListedOnce' /\ OneTerminalEvent'
  BY StepTypes, StutterTypes, DeltaStep, ListedStep, EndStep
<1> QED BY <1>1, <1>2, PTL DEF HostSpec

---------------------------------------------------------------------------
(* The sessions.                                                           *)

(* The ways in which a step leaves one task: where it was, idle, at the    *)
(* beginning of a command, further along with its turn, after a read on    *)
(* the way to its turn, or with its new turn                               *)
Stays(j)  == pc'[j] = pc[j] /\ loc'[j] = loc[j]
Idles(j)  == pc'[j] = "idle" /\ loc'[j] = Blank
Begins(j) == /\ Command(j) /\ pc[j] = "idle" /\ UNCHANGED durable
             /\ \/ pc'[j] \in {"inflight", "pjSession"} /\ loc'[j].turn = None
                \/ pc'[j] = "pick" /\ loc'[j] = loc[j]
Carries(j) == /\ TaskStep(j) \/ StoreFails(j)
              /\ pc[j] \in HasTurn /\ pc'[j] \in HasTurn
              /\ loc'[j].turn = loc[j].turn /\ loc'[j].session = loc[j].session
Reads(j)  == /\ TaskStep(j) \/ StoreFails(j)
             /\ pc[j] \in PreparePC \cup ProjectPC /\ pc'[j] \in PreparePC \cup ProjectPC
             /\ loc'[j].turn = loc[j].turn /\ loc'[j].session = loc[j].session
             /\ UNCHANGED durable
Inserts(j) == /\ CreateSession(j) \/ AppendTurn(j)
              /\ pc[j] = "append" /\ pc'[j] = "assemble"

LEMMA TaskCases ==
  ASSUME HostTypes, [HostNext]_hostVars, NEW j \in Task
  PROVE  Stays(j) \/ Idles(j) \/ Begins(j) \/ Carries(j) \/ Reads(j) \/ Inserts(j)
<1>0. pc \in [Task -> PC] /\ loc \in [Task -> Locals] /\ loc[j] \in Locals
  BY DEF HostTypes, HostTypeOK, Locals
<1>1. ASSUME Command(j) PROVE Idles(j) \/ Begins(j)
  <2>1. CASE PickEnd(j)
    BY <1>0, <2>1 DEF PickEnd, Ends, Idles
  <2>2. CASE ~ PickEnd(j)
    <3>1. pc[j] = "idle" /\ UNCHANGED durable /\ pc'[j] # "idle"
      BY <1>0, <1>1, <2>2 DEF Command, SendBegin, SetProjectBegin, PickBegin, TryOperation, Idle
    <3> QED BY <1>1, <3>1, Beginnings DEF Begins
  <2> QED BY <2>1, <2>2
<1>2. ASSUME TaskStep(j) \/ StoreFails(j)
      PROVE  Idles(j) \/ Carries(j) \/ Reads(j) \/ Inserts(j)
  <2>1. CASE Ends(j)
    BY <1>0, <2>1 DEF Ends, Idles
  <2>2. CASE ~ Ends(j)
    <3>1. Moves(j)
      BY <1>2, <2>2, TaskShape
    <3>2. CASE pc[j] \in HasTurn
      BY <1>2, <3>1, <3>2 DEF Moves, Carries
    <3>3. CASE pc[j] \notin HasTurn
      <4>1. \/ ReadInflight(j) \/ ReadSession(j) \/ ReadHistory(j) \/ ReadOrdinal(j)
            \/ ReadSequence(j) \/ CreateSession(j) \/ AppendTurn(j) \/ SetProjectReadSession(j)
            \/ SetProjectReadSequence(j)
        <5>1. ~ StoreFails(j)
          BY <2>2, <3>3 DEF StoreFails, StorePC, HasTurn, SendPC, PreparePC, DeltaPC, FinishPC,
             ProjectPC
        <5>2. ~ SetProjectWrite(j) /\ ~ Recover(j)
          BY <2>2 DEF SetProjectWrite, Recover
        <5> QED BY <1>2, <3>3, <5>1, <5>2 DEF TaskStep, SendStart, Refresh, StreamCancelled,
               StreamDelta, StreamCompleted, StreamFails, DeltaReadTurn, DeltaReadSequence,
               DeltaWrite, Finalize, FinishReadTurn, FinishReadSession, FinishReadSequence,
               FinishWrite, HasTurn, SendPC, PreparePC, DeltaPC, FinishPC
      <4>2. CASE CreateSession(j) \/ AppendTurn(j)
        BY <1>0, <2>2, <4>2 DEF CreateSession, AppendTurn, Goes, Inserts
      <4>3. CASE ReadInflight(j)
        <5>1. loc' = loc /\ pc'[j] \in {"append", "session"} /\ pc[j] = "inflight" /\ UNCHANGED durable
          BY <1>0, <2>2, <4>3 DEF ReadInflight, Goes
        <5> QED BY <1>2, <5>1 DEF Reads, PreparePC
      <4>4. CASE ReadSession(j) \/ ReadHistory(j) \/ ReadOrdinal(j) \/ ReadSequence(j)
        <5>1. /\ loc'[j].turn = loc[j].turn /\ loc'[j].session = loc[j].session
              /\ pc[j] \in PreparePC /\ pc'[j] \in PreparePC /\ UNCHANGED durable
          BY <1>0, <2>2, <4>4 DEF ReadSession, ReadHistory, ReadOrdinal, ReadSequence, Goes,
             Locals, PreparePC
        <5> QED BY <1>2, <5>1 DEF Reads
      <4>5. CASE SetProjectReadSession(j) \/ SetProjectReadSequence(j)
        <5>1. /\ loc'[j].turn = loc[j].turn /\ loc'[j].session = loc[j].session
              /\ pc[j] \in ProjectPC /\ pc'[j] \in ProjectPC /\ UNCHANGED durable
          BY <1>0, <4>5 DEF SetProjectReadSession, SetProjectReadSequence, Goes, Locals, ProjectPC
        <5> QED BY <1>2, <5>1 DEF Reads
      <4> QED BY <4>1, <4>2, <4>3, <4>4, <4>5
    <3> QED BY <3>2, <3>3
  <2> QED BY <2>1, <2>2
<1>3. ASSUME NEW k \in Task, k # j, TaskStep(k) \/ StoreFails(k) \/ Command(k) PROVE Stays(j)
  BY <1>3, OthersStay DEF Stays
<1>4. CASE \/ UNCHANGED hostVars
           \/ \E p \in Proc : \/ CancelAgentTurn(p) \/ ClearDraft(p) \/ SetScope(p)
                              \/ SaveRead(p) \/ SaveWrite(p) \/ Start(p) \/ ProcessEnds(p)
  BY <1>4, BystandersStay DEF Stays, Idles
<1> QED BY <1>1, <1>2, <1>3, <1>4 DEF HostNext

---------------------------------------------------------------------------
(* Who a turn belongs to                                                   *)

(* A command has a turn from its insertion on, in its session, and a delta *)
(* that is about to be written still finds the state it has read, unless   *)
(* the turn has ended                                                      *)
TaskOwns(k) ==
  /\ pc[k] \in {"idle", "pick"} => loc[k] = Blank
  /\ loc[k].session # None => sessions[loc[k].session].live
  /\ pc[k] \notin HasTurn => loc[k].turn = None
  /\ pc[k] \in HasTurn => /\ turns[loc[k].turn].state # "absent"
                          /\ turns[loc[k].turn].session = loc[k].session
  /\ pc[k] \in {"deltaSeq", "deltaWrite"} =>
       turns[loc[k].turn].state \in
         TerminalState \cup {IF loc[k].first THEN "pending" ELSE loc[k].state}

OwnersDiffer ==
  \A j, k \in Task : pc[j] \in HasTurn /\ pc[k] \in HasTurn /\ loc[j].turn = loc[k].turn => j = k

(* The rows and the events of a session come after it, the events of a     *)
(* turn after the turn, and those of a pending turn say so                 *)
RowsOwned ==
  /\ \A t \in TurnId : turns[t].state # "absent" => sessions[turns[t].session].live
  /\ \A p \in Proc : \A r \in listed[p] :
       turns[r.turn].state # "absent" /\ turns[r.turn].session = r.session
  /\ \A e \in events :
       /\ sessions[e.session].live
       /\ e.turn # None => /\ turns[e.turn].state # "absent"
                           /\ turns[e.turn].session = e.session
                           /\ turns[e.turn].state = "pending" => e.kind = "turn_pending"

OwnInv == DeltaInv /\ ListedOnce /\ (\A k \in Task : TaskOwns(k)) /\ OwnersDiffer /\ RowsOwned

LEMMA SessionsLast ==
  ASSUME HostTypes, [HostNext]_hostVars, NEW s \in SessionId, sessions[s].live
  PROVE  sessions'[s].live
<1>0. sessions \in [SessionId -> [live : BOOLEAN, project : AnyProject]]
  BY DEF HostTypes, HostTypeOK
<1>1. CASE UNCHANGED durable
  BY <1>1 DEF durable
<1>2. ASSUME NEW k \in Task, CreateSession(k) PROVE sessions'[s].live
  <2>1. PICK r \in SessionId : sessions' = [sessions EXCEPT ![r] = [live |-> TRUE, project |-> loc[k].project]]
    BY <1>2 DEF CreateSession
  <2> QED BY <1>0, <2>1
<1>3. ASSUME NEW r, NEW x, sessions' = [sessions EXCEPT ![r].project = x] PROVE sessions'[s].live
  BY <1>0, <1>3
<1>4. ASSUME NEW k \in Task, AppendTurn(k) \/ FinishWrite(k) \/ SetProjectWrite(k) \/ DeltaWrite(k)
      PROVE  sessions' = sessions \/ \E r, x : sessions' = [sessions EXCEPT ![r].project = x]
  BY <1>4 DEF AppendTurn, FinishWrite, SetProjectWrite, DeltaWrite, durable
<1>5. ASSUME NEW p \in Proc, BootWrite(p) PROVE sessions'[s].live
  <2>1. CASE UNCHANGED durable
    BY <1>1, <2>1
  <2>2. CASE ~ UNCHANGED durable
    <3> DEFINE x == (CHOOSE r \in listed[p] : r.session = s).seen
    <3>1. sessions'[s] = IF \E r \in listed[p] : r.session = s
                         THEN [sessions[s] EXCEPT !.project = x] ELSE sessions[s]
      BY <1>5, <2>2 DEF BootWrite
    <3> HIDE DEF x
    <3> QED BY <1>0, <3>1
  <2> QED BY <2>1, <2>2
<1> QED BY <1>1, <1>2, <1>3, <1>4, <1>5, Writes

(* The turn that a command inserts was nobody's *)
LEMMA InsertedTurn ==
  ASSUME HostTypes, NEW j \in Task, Inserts(j)
  PROVE  /\ loc'[j].turn \in TurnId /\ turns[loc'[j].turn].state = "absent"
         /\ loc'[j].session \in SessionId
         /\ turns'[loc'[j].turn] = PendingTurn(j, loc'[j].session)
         /\ \A u \in TurnId : u # loc'[j].turn => turns'[u] = turns[u]
         /\ sessions'[loc'[j].session].live \/ loc'[j].session = loc[j].session
         /\ \A e \in events' \ events : /\ e.session = loc'[j].session
                                        /\ e.turn \in {None, loc'[j].turn}
                                        /\ e.turn # None => e.kind = "turn_pending"
                                        /\ e.turn # None \/ ~ sessions[e.session].live
         /\ events \subseteq events'
         /\ \A k \in Task : k # j => pc'[k] = pc[k] /\ loc'[k] = loc[k]
<1>0. /\ loc \in [Task -> Locals] /\ loc[j] \in Locals /\ turns \in [TurnId -> TurnRow]
      /\ sessions \in [SessionId -> [live : BOOLEAN, project : AnyProject]]
      /\ pc \in [Task -> PC]
  BY DEF HostTypes, HostTypeOK, Locals, TurnRow
<1>1. CASE CreateSession(j)
  <2>1. PICK s \in SessionId, t \in TurnId :
          /\ ~ sessions[s].live /\ turns[t].state = "absent"
          /\ sessions' = [sessions EXCEPT ![s] = [live |-> TRUE, project |-> loc[j].project]]
          /\ turns' = [turns EXCEPT ![t] = PendingTurn(j, s)]
          /\ events' = events \cup {Event(s, None, 0, "session_created"),
                                    Event(s, t, 1, "turn_pending")}
          /\ loc' = [loc EXCEPT ![j].session = s, ![j].turn = t]
    BY <1>1 DEF CreateSession
  <2>2. loc'[j].session = s /\ loc'[j].turn = t /\ \A k \in Task : k # j => loc'[k] = loc[k]
    BY <1>0, <2>1 DEF Locals
  <2>3. \A k \in Task : k # j => pc'[k] = pc[k]
    BY <1>0, <1>1 DEF CreateSession, Goes
  <2>4. /\ turns'[t] = PendingTurn(j, s) /\ sessions'[s].live
        /\ \A u \in TurnId : u # t => turns'[u] = turns[u]
    BY <1>0, <2>1
  <2>5. \A e \in events' \ events : /\ e.session = s /\ e.turn \in {None, t}
                                    /\ e.turn # None => e.kind = "turn_pending"
    BY <2>1 DEF Event
  <2> QED BY <2>1, <2>2, <2>3, <2>4, <2>5
<1>2. CASE AppendTurn(j)
  <2>0. loc[j].session \in SessionId
    BY <1>0, <1>2 DEF AppendTurn, Locals
  <2>1. ~ Ends(j)
    BY <1>0 DEF Inserts, Ends
  <2>2. PICK t \in TurnId :
          /\ turns[t].state = "absent"
          /\ turns' = [turns EXCEPT ![t] = PendingTurn(j, loc[j].session)]
          /\ events' = events \cup {Event(loc[j].session, t, loc[j].sequence, "turn_pending")}
          /\ loc' = [loc EXCEPT ![j].turn = t]
    BY <1>2, <2>1 DEF AppendTurn
  <2>3. loc'[j].session = loc[j].session /\ loc'[j].turn = t /\ \A k \in Task : k # j => loc'[k] = loc[k]
    BY <1>0, <2>2 DEF Locals
  <2>4. \A k \in Task : k # j => pc'[k] = pc[k]
    BY <1>0, <1>2, <2>1 DEF AppendTurn, Goes
  <2>5. turns'[t] = PendingTurn(j, loc[j].session) /\ \A u \in TurnId : u # t => turns'[u] = turns[u]
    BY <1>0, <2>2
  <2>6. \A e \in events' \ events : /\ e.session = loc[j].session /\ e.turn = t
                                    /\ e.kind = "turn_pending"
    BY <2>2 DEF Event
  <2>7. t # None
    BY DEF TurnId, None
  <2> QED BY <2>0, <2>2, <2>3, <2>4, <2>5, <2>6, <2>7
<1> QED BY <1>1, <1>2 DEF Inserts

LEMMA TaskOwnsStep ==
  ASSUME HostTypes, HostTypes', OwnInv, [HostNext]_hostVars, NEW j \in Task
  PROVE  TaskOwns(j)'
<1>0. /\ pc \in [Task -> PC] /\ loc \in [Task -> Locals] /\ loc[j] \in Locals
      /\ TaskOwns(j) /\ TaskTypeOK(j) /\ DeltaOK(j) /\ Lasting
  BY RowsLast DEF HostTypes, HostTypeOK, Locals, OwnInv, DeltaInv
<1>1. \A s \in SessionId : sessions[s].live => sessions'[s].live
  BY SessionsLast
<1>2. "idle" \notin HasTurn /\ "pick" \notin HasTurn /\ "inflight" \notin HasTurn
      /\ "pjSession" \notin HasTurn /\ "deltaSeq" \in HasTurn /\ "deltaWrite" \in HasTurn
      /\ "assemble" \in HasTurn /\ \A n \in PreparePC \cup ProjectPC : n \notin HasTurn
      /\ "pick" \notin PreparePC \cup ProjectPC /\ "idle" \notin PreparePC \cup ProjectPC
  BY DEF HasTurn, SendPC, PreparePC, DeltaPC, FinishPC, ProjectPC
<1>3. loc[j].session # None => loc[j].session \in SessionId
  BY <1>0 DEF Locals
<1>4. Blank.session = None /\ Blank.turn = None
  BY DEF Blank
<1>5. CASE Stays(j)
  <2>1. pc[j] \in HasTurn => /\ loc[j].turn \in TurnId
                             /\ turns'[loc[j].turn].state # "absent"
                             /\ turns'[loc[j].turn].session = loc[j].session
    BY <1>0 DEF TaskOwns, TaskTypeOK, Lasting
  <2>2. ASSUME pc[j] \in {"deltaSeq", "deltaWrite"}
        PROVE  turns'[loc[j].turn].state \in
                 TerminalState \cup {IF loc[j].first THEN "pending" ELSE loc[j].state}
    <3> DEFINE t == loc[j].turn
    <3>1. t \in TurnId /\ turns[t].state # "absent" /\ pc[j] \in HasTurn
      BY <1>0, <1>2, <2>2 DEF TaskOwns, TaskTypeOK
    <3>2. CASE turns'[t] = turns[t]
      BY <1>0, <2>2, <3>2 DEF TaskOwns
    <3>3. ASSUME NEW p \in Proc, turns'[t] = InterruptedRow(p, t), \E r \in listed[p] : r.turn = t
          PROVE  turns'[t].state \in TerminalState
      BY <3>1, <3>3, InterruptedRowType DEF TerminalState
    <3>4. ASSUME NEW k \in Task, DeltaWrite(k) \/ FinishWrite(k), pc[k] \in HasTurn, loc[k].turn = t
          PROVE  FALSE
      <4>1. k = j
        BY <3>1, <3>4 DEF OwnInv, OwnersDiffer
      <4>2. DeltaWrite(j)
        BY <2>2, <3>4, <4>1 DEF FinishWrite
      <4>3. pc'[j] # pc[j]
        BY <1>0, <4>2 DEF DeltaWrite, StreamEnds
      <4> QED BY <1>5, <4>3 DEF Stays
    <3> HIDE DEF t
    <3>5. \/ turns'[t] = turns[t]
          \/ turns[t].state = "absent"
          \/ \E p \in Proc : turns'[t] = InterruptedRow(p, t) /\ \E r \in listed[p] : r.turn = t
          \/ \E k \in Task : /\ DeltaWrite(k) \/ FinishWrite(k)
                             /\ pc[k] \in HasTurn /\ loc[k].turn = t
      BY <3>1, TurnWriters
    <3>6. turns'[t] = turns[t] \/ turns'[t].state \in TerminalState
      BY <3>1, <3>3, <3>4, <3>5
    <3> QED BY <3>2, <3>6 DEF t
  <2> QED BY <1>0, <1>1, <1>3, <1>5, <2>1, <2>2 DEF TaskOwns, Stays
<1>6. CASE Idles(j)
  BY <1>2, <1>4, <1>6 DEF TaskOwns, Idles
<1>7. CASE Begins(j)
  <2>1. loc'[j].session # None => sessions'[loc'[j].session].live
    <3>1. CASE SendBegin(j)
      <4>1. PICK s \in {None} \cup SessionId, pr \in AnyProject, h \in {None} \cup Handle :
              /\ s # None => sessions[s].live
              /\ loc' = [loc EXCEPT ![j] = [Blank EXCEPT !.session = s, !.project = pr, !.draft = h]]
        BY <3>1 DEF SendBegin
      <4>2. loc'[j].session = s
        BY <1>0, <4>1 DEF Blank
      <4> QED BY <1>1, <4>1, <4>2
    <3>2. CASE SetProjectBegin(j)
      <4>1. PICK s \in SessionId, pr \in AnyProject :
              /\ sessions[s].live
              /\ loc' = [loc EXCEPT ![j] = [Blank EXCEPT !.session = s, !.project = pr]]
        BY <3>2 DEF SetProjectBegin
      <4>2. loc'[j].session = s
        BY <1>0, <4>1 DEF Blank
      <4> QED BY <1>1, <4>1, <4>2
    <3>3. CASE PickBegin(j) \/ PickEnd(j)
      <4>1. loc'[j] = Blank \/ loc'[j] = loc[j]
        BY <1>0, <3>3 DEF PickBegin, PickEnd, Ends
      <4> QED BY <1>0, <1>1, <1>3, <1>4, <4>1 DEF TaskOwns
    <3> QED BY <1>7, <3>1, <3>2, <3>3 DEF Begins, Command
  <2> QED BY <1>0, <1>2, <1>4, <1>7, <2>1 DEF TaskOwns, Begins
<1>8. CASE Carries(j)
  <2>1. /\ loc[j].turn \in TurnId /\ loc[j].session \in SessionId
        /\ turns'[loc[j].turn].state # "absent"
        /\ turns'[loc[j].turn].session = loc[j].session
    BY <1>0, <1>8 DEF TaskOwns, TaskTypeOK, Lasting, Carries
  <2>2. ASSUME pc'[j] \in {"deltaSeq", "deltaWrite"}
        PROVE  turns'[loc[j].turn].state \in
                 TerminalState \cup {IF loc'[j].first THEN "pending" ELSE loc'[j].state}
    <3>1. CASE DeltaReadSequence(j)
      <4>1. /\ pc[j] = "deltaSeq" /\ UNCHANGED turns
            /\ loc'[j].state = loc[j].state /\ loc'[j].first = loc[j].first
        BY <1>0, <3>1 DEF DeltaReadSequence, Locals, durable
      <4> QED BY <1>0, <4>1 DEF TaskOwns
    <3>2. CASE DeltaReadTurn(j)
      <4> DEFINE row == turns[loc[j].turn]
                 first == row.state = "pending" /\ loc[j].delta > 0
      <4>1. /\ loc'[j].state = IF first THEN "streaming" ELSE row.state
            /\ loc'[j].first = first /\ UNCHANGED turns
        BY <1>0, <2>2, <3>2 DEF DeltaReadTurn, StreamEnds, Locals, durable
      <4> QED BY <4>1
    <3> QED BY <1>8, <2>2, <3>1, <3>2, Arrivals DEF Carries
  <2> QED BY <1>0, <1>1, <1>2, <1>8, <2>1, <2>2 DEF TaskOwns, Carries
<1>9. CASE Reads(j)
  <2>1. pc[j] \notin HasTurn /\ pc'[j] \notin HasTurn /\ pc'[j] \notin {"idle", "pick"}
    BY <1>2, <1>9 DEF Reads
  <2> QED BY <1>0, <1>1, <1>2, <1>3, <1>9, <2>1 DEF TaskOwns, Reads
<1>10. CASE Inserts(j)
  <2>1. /\ loc'[j].turn \in TurnId /\ loc'[j].session \in SessionId
        /\ turns'[loc'[j].turn] = PendingTurn(j, loc'[j].session)
        /\ sessions'[loc'[j].session].live \/ loc'[j].session = loc[j].session
    BY <1>10, InsertedTurn
  <2>2. PendingTurn(j, loc'[j].session).state = "pending"
          /\ PendingTurn(j, loc'[j].session).session = loc'[j].session
    BY DEF PendingTurn
  <2>3. loc[j].session # None => sessions'[loc[j].session].live
    BY <1>0, <1>1, <1>3 DEF TaskOwns
  <2>4. loc'[j].session # None
    BY <2>1 DEF SessionId, None
  <2>5. sessions'[loc'[j].session].live
    BY <2>1, <2>3, <2>4
  <2>6. pc'[j] = "assemble"
    BY <1>10 DEF Inserts
  <2> QED BY <1>2, <2>1, <2>2, <2>5, <2>6 DEF TaskOwns
<1> QED BY <1>5, <1>6, <1>7, <1>8, <1>9, <1>10, TaskCases

LEMMA OwnersStep ==
  ASSUME HostTypes, HostTypes', OwnInv, [HostNext]_hostVars
  PROVE  OwnersDiffer'
<1> SUFFICES ASSUME NEW j \in Task, NEW k \in Task, pc'[j] \in HasTurn, pc'[k] \in HasTurn,
                    loc'[j].turn = loc'[k].turn, j # k
             PROVE  FALSE
  BY DEF OwnersDiffer
<1>1. \A i \in Task : pc'[i] \in HasTurn =>
        (pc[i] \in HasTurn /\ loc'[i].turn = loc[i].turn) \/ Inserts(i)
  <2> SUFFICES ASSUME NEW i \in Task, pc'[i] \in HasTurn
               PROVE  (pc[i] \in HasTurn /\ loc'[i].turn = loc[i].turn) \/ Inserts(i)
    OBVIOUS
  <2>1. ~ Idles(i) /\ ~ Begins(i) /\ ~ Reads(i)
    BY DEF Idles, Begins, Reads, HasTurn, SendPC, PreparePC, DeltaPC, FinishPC, ProjectPC
  <2> QED BY <2>1, TaskCases DEF Stays, Carries
<1>2. \A i \in Task : pc[i] \in HasTurn => turns[loc[i].turn].state # "absent"
  BY DEF OwnInv, TaskOwns
<1>3. \A i, h \in Task : Inserts(i) /\ h # i => pc'[h] = pc[h] /\ loc'[h] = loc[h]
  BY InsertedTurn
<1>4. \A i \in Task : Inserts(i) => turns[loc'[i].turn].state = "absent" /\ pc'[i] # pc[i]
  BY InsertedTurn DEF Inserts
<1>5. ~ Inserts(j)
  BY <1>1, <1>2, <1>3, <1>4
<1>6. ~ Inserts(k)
  BY <1>1, <1>2, <1>3, <1>4
<1> QED BY <1>1, <1>5, <1>6 DEF OwnInv, OwnersDiffer

LEMMA Inserters ==
  ASSUME HostTypes, NEW k \in Task, CreateSession(k) \/ AppendTurn(k)
  PROVE  Inserts(k) \/ UNCHANGED durable
<1>0. pc \in [Task -> PC]
  BY DEF HostTypes, HostTypeOK
<1>1. CASE CreateSession(k)
  BY <1>0, <1>1 DEF CreateSession, Goes, Inserts
<1>2. CASE AppendTurn(k)
  BY <1>0, <1>2 DEF AppendTurn, Goes, Inserts
<1> QED BY <1>1, <1>2

(* Where a new event comes from *)
LEMMA NewEvents ==
  ASSUME HostTypes, [HostNext]_hostVars
  PROVE  \/ events' = events
         \/ \E k \in Task : Inserts(k)
         \/ \E k \in Task :
              /\ DeltaWrite(k) /\ CanUpdateInflight(loc[k].turn) /\ loc[k].first
              /\ pc[k] = "deltaWrite" /\ SequenceIsFree(loc[k].session, loc[k].sequence)
              /\ turns' = [turns EXCEPT ![loc[k].turn].text = loc[k].text,
                                        ![loc[k].turn].state = loc[k].state]
              /\ events' = events \cup
                   {Event(loc[k].session, loc[k].turn, loc[k].sequence, "turn_streaming")}
         \/ \E k \in Task :
              /\ FinishWrite(k) /\ CanUpdateInflight(loc[k].turn) /\ pc[k] = "finWrite"
              /\ SequenceIsFree(loc[k].session, loc[k].sequence)
              /\ turns' = [turns EXCEPT ![loc[k].turn].state = loc[k].goal,
                                        ![loc[k].turn].text = loc[k].text,
                                        ![loc[k].turn].code = CodeFor(loc[k].goal, loc[k].code)]
              /\ events' = events \cup {Event(loc[k].session, loc[k].turn, loc[k].sequence,
                                              ForTerminalState(loc[k].goal))}
         \/ \E k \in Task :
              /\ SetProjectWrite(k) /\ pc[k] = "pjWrite"
              /\ SequenceIsFree(loc[k].session, loc[k].sequence)
              /\ turns' = turns
              /\ events' = events \cup {Event(loc[k].session, None, loc[k].sequence,
                                              "project_association_changed")}
         \/ \E p \in Proc :
              /\ BootWrite(p) /\ boot[p] = "writing"
              /\ \A r \in listed[p] : CanUpdateInflight(r.turn) /\ SequenceIsFree(r.session, r.sequence)
              /\ turns' = [u \in TurnId |-> IF \E r \in listed[p] : r.turn = u
                                            THEN InterruptedRow(p, u) ELSE turns[u]]
              /\ events' = events \cup
                   {Event(r.session, r.turn, r.sequence, "turn_interrupted") : r \in listed[p]}
<1>1. CASE UNCHANGED durable
  BY <1>1 DEF durable
<1>2. ASSUME NEW k \in Task, CreateSession(k) \/ AppendTurn(k) PROVE Inserts(k) \/ events' = events
  BY <1>2, Inserters DEF durable
<1>3. ASSUME NEW k \in Task, DeltaWrite(k), events' # events
      PROVE  /\ CanUpdateInflight(loc[k].turn) /\ loc[k].first
             /\ pc[k] = "deltaWrite" /\ SequenceIsFree(loc[k].session, loc[k].sequence)
             /\ turns' = [turns EXCEPT ![loc[k].turn].text = loc[k].text,
                                       ![loc[k].turn].state = loc[k].state]
             /\ events' = events \cup
                  {Event(loc[k].session, loc[k].turn, loc[k].sequence, "turn_streaming")}
  BY <1>3 DEF DeltaWrite
<1>4. ASSUME NEW k \in Task, FinishWrite(k), events' # events
      PROVE  /\ CanUpdateInflight(loc[k].turn) /\ pc[k] = "finWrite"
             /\ SequenceIsFree(loc[k].session, loc[k].sequence)
             /\ turns' = [turns EXCEPT ![loc[k].turn].state = loc[k].goal,
                                       ![loc[k].turn].text = loc[k].text,
                                       ![loc[k].turn].code = CodeFor(loc[k].goal, loc[k].code)]
             /\ events' = events \cup {Event(loc[k].session, loc[k].turn, loc[k].sequence,
                                             ForTerminalState(loc[k].goal))}
  BY <1>4 DEF FinishWrite, durable
<1>5. ASSUME NEW k \in Task, SetProjectWrite(k), events' # events
      PROVE  /\ pc[k] = "pjWrite" /\ SequenceIsFree(loc[k].session, loc[k].sequence)
             /\ turns' = turns
             /\ events' = events \cup {Event(loc[k].session, None, loc[k].sequence,
                                             "project_association_changed")}
  BY <1>5 DEF SetProjectWrite
<1>6. ASSUME NEW p \in Proc, BootWrite(p), events' # events
      PROVE  /\ boot[p] = "writing"
             /\ \A r \in listed[p] : CanUpdateInflight(r.turn) /\ SequenceIsFree(r.session, r.sequence)
             /\ turns' = [u \in TurnId |-> IF \E r \in listed[p] : r.turn = u
                                           THEN InterruptedRow(p, u) ELSE turns[u]]
             /\ events' = events \cup
                  {Event(r.session, r.turn, r.sequence, "turn_interrupted") : r \in listed[p]}
  BY <1>6 DEF BootWrite, InterruptedRow, durable
<1> QED BY <1>1, <1>2, <1>3, <1>4, <1>5, <1>6, Writes

(* A turn that is pending after a step was pending or not there before it  *)
LEMMA PendingBefore ==
  ASSUME HostTypes, OwnInv, [HostNext]_hostVars, NEW t \in TurnId,
         turns[t].state # "absent", turns'[t].state = "pending"
  PROVE  turns[t].state = "pending"
<1>0. turns[t] \in TurnRow
  BY DEF HostTypes, HostTypeOK, TurnRow
<1>1. ASSUME NEW k \in Task, Inflight(t), DeltaWrite(k), loc[k].turn = t,
             turns'[t] = [turns[t] EXCEPT !.text = loc[k].text, !.state = loc[k].state]
      PROVE  turns[t].state = "pending"
  <2>1. turns'[t].state = loc[k].state
    BY <1>0, <1>1 DEF TurnRow
  <2>2. pc[k] = "deltaWrite"
    BY <1>1 DEF DeltaWrite
  <2>3. loc[k].first => loc[k].state = "streaming"
    BY <2>2 DEF OwnInv, DeltaInv, DeltaOK
  <2>4. turns[t].state \in TerminalState \cup {IF loc[k].first THEN "pending" ELSE loc[k].state}
    BY <1>1, <2>2 DEF OwnInv, TaskOwns
  <2> QED BY <1>1, <2>1, <2>3, <2>4 DEF Inflight, InflightState, TerminalState
<1>2. ASSUME NEW k \in Task,
             turns'[t] = [turns[t] EXCEPT !.state = loc[k].goal, !.text = loc[k].text,
                            !.code = CodeFor(loc[k].goal, loc[k].code)]
      PROVE  FALSE
  <2>1. turns'[t].state = loc[k].goal /\ loc[k].goal \in TerminalState
    BY <1>0, <1>2 DEF TurnRow, HostTypes, HostTypeOK
  <2> QED BY <2>1 DEF TerminalState
<1>3. ASSUME NEW p \in Proc, turns'[t] = InterruptedRow(p, t), \E r \in listed[p] : r.turn = t
      PROVE  FALSE
  BY <1>3, InterruptedRowType
<1> QED BY <1>1, <1>2, <1>3, TurnWriters

LEMMA RowsStep ==
  ASSUME HostTypes, HostTypes', OwnInv, [HostNext]_hostVars
  PROVE  RowsOwned'
<1>0. /\ turns \in [TurnId -> TurnRow] /\ events \subseteq EventRow /\ Lasting
      /\ listed \in [Proc -> SUBSET ListedRow] /\ RowsOwned /\ None \notin TurnId
  <2>1. DeltaInv /\ RowsOwned
    BY DEF OwnInv
  <2>2. Lasting
    BY <2>1, RowsLast
  <2>3. turns \in [TurnId -> TurnRow] /\ events \subseteq EventRow
    BY DEF HostTypes, HostTypeOK, TurnRow, EventRow
  <2>4. listed \in [Proc -> SUBSET ListedRow]
    BY DEF HostTypes, TablesOK
  <2>5. None \notin TurnId
    BY DEF None, TurnId
  <2> QED BY <2>1, <2>2, <2>3, <2>4, <2>5
<1>1. \A s \in SessionId : sessions[s].live => sessions'[s].live
  BY SessionsLast
<1>2. \A k \in Task : TaskOwns(k)'
  BY TaskOwnsStep
<1>3. ASSUME NEW t \in TurnId, turns'[t].state # "absent"
      PROVE  sessions'[turns'[t].session].live
  <2>1. CASE turns[t].state # "absent"
    <3>1. turns[t].session \in SessionId /\ turns'[t].session = turns[t].session
      BY <1>0, <2>1 DEF HostTypes, TablesOK, Lasting
    <3> QED BY <1>0, <1>1, <2>1, <3>1 DEF RowsOwned
  <2>2. CASE turns[t].state = "absent"
    <3>1. PICK k \in Task : (CreateSession(k) \/ AppendTurn(k)) /\ turns'[t] # turns[t]
      BY <1>3, <2>2, TurnWriters DEF Inflight, InflightState
    <3>2. Inserts(k)
      BY <3>1, Inserters DEF durable
    <3>3. t = loc'[k].turn /\ loc'[k].session \in SessionId /\ pc'[k] = "assemble"
      BY <3>1, <3>2, InsertedTurn DEF Inserts
    <3>4. "assemble" \in HasTurn /\ None \notin SessionId
      BY DEF HasTurn, SendPC, PreparePC, None, SessionId
    <3> QED BY <1>2, <3>3, <3>4 DEF TaskOwns
  <2> QED BY <2>1, <2>2
<1>4. ASSUME NEW p \in Proc, NEW r \in listed'[p]
      PROVE  turns'[r.turn].state # "absent" /\ turns'[r.turn].session = r.session
  <2>1. ASSUME r.turn \in TurnId, turns[r.turn].state # "absent", turns[r.turn].session = r.session
        PROVE  turns'[r.turn].state # "absent" /\ turns'[r.turn].session = r.session
    BY <1>0, <2>1 DEF Lasting
  <2>2. ASSUME r \in listed[p]
        PROVE  r.turn \in TurnId /\ turns[r.turn].state # "absent" /\ turns[r.turn].session = r.session
    BY <1>0, <2>2 DEF RowsOwned, ListedRow
  <2>3. ASSUME r \notin listed[p]
        PROVE  r.turn \in TurnId /\ turns[r.turn].state # "absent" /\ turns[r.turn].session = r.session
    <3>1. CASE BootList(p)
      <4>1. PICK t \in TurnId : Inflight(t) /\ r = InflightRow(t)
        BY <1>0, <3>1 DEF BootList, InflightRow
      <4>2. r.turn = t /\ r.session = turns[t].session
        BY <4>1 DEF InflightRow
      <4> QED BY <4>1, <4>2 DEF Inflight, InflightState
    <3>2. CASE BootRead(p)
      <4>1. PICK q \in listed[p] : r = NumberedRow(p, q)
        BY <1>0, <3>2 DEF BootRead, NumberedRow, BeforeRow
      <4>2. r.turn = q.turn /\ r.session = q.session
        BY <4>1, NumberedRowType
      <4> QED BY <1>0, <4>1, <4>2 DEF RowsOwned, ListedRow
    <3>3. BootList(p) \/ BootRead(p)
      <4>1. ASSUME NEW k \in Task, TaskStep(k) \/ StoreFails(k) \/ Command(k) PROVE UNCHANGED listed
        BY <4>1, TaskShape DEF Command, SendBegin, SetProjectBegin, PickBegin, PickEnd
      <4>2. ASSUME NEW q \in Proc, CancelAgentTurn(q) \/ ClearDraft(q) \/ SetScope(q) \/ SaveRead(q)
                                   \/ SaveWrite(q)
            PROVE  UNCHANGED listed
        BY <4>2 DEF CancelAgentTurn, ClearDraft, SetScope, SaveRead, SaveWrite, process
      <4>3. ASSUME NEW q \in Proc, BootWrite(q) \/ ProcessEnds(q) PROVE listed'[p] \subseteq listed[p]
        <5>1. listed' = [listed EXCEPT ![q] = {}]
          BY <4>3 DEF BootWrite, ProcessEnds
        <5> QED BY <1>0, <5>1
      <4>4. ASSUME NEW q \in Proc, q # p, BootList(q) \/ BootRead(q) PROVE listed'[p] = listed[p]
        BY <1>0, <4>4 DEF BootList, BootRead
      <4>5. CASE UNCHANGED hostVars
        BY <2>3, <4>5 DEF hostVars, process
      <4> QED BY <2>3, <4>1, <4>2, <4>3, <4>4, <4>5 DEF HostNext, Start
    <3> QED BY <3>1, <3>2, <3>3
  <2> QED BY <2>1, <2>2, <2>3
<1>5. ASSUME NEW e \in events
      PROVE  /\ sessions'[e.session].live
             /\ e.turn # None => /\ turns'[e.turn].state # "absent"
                                 /\ turns'[e.turn].session = e.session
                                 /\ turns'[e.turn].state = "pending" => e.kind = "turn_pending"
  <2>1. e.session \in SessionId /\ e.turn \in {None} \cup TurnId
    BY <1>0 DEF EventRow
  <2>2. sessions[e.session].live
    BY <1>0 DEF RowsOwned
  <2>3. ASSUME e.turn # None
        PROVE  /\ turns'[e.turn].state # "absent"
               /\ turns'[e.turn].session = e.session
               /\ turns'[e.turn].state = "pending" => e.kind = "turn_pending"
    <3>1. /\ e.turn \in TurnId /\ turns[e.turn].state # "absent" /\ turns[e.turn].session = e.session
          /\ turns[e.turn].state = "pending" => e.kind = "turn_pending"
      BY <1>0, <2>1, <2>3 DEF RowsOwned
    <3>2. turns'[e.turn].state = "pending" => turns[e.turn].state = "pending"
      BY <3>1, PendingBefore
    <3> QED BY <1>0, <3>1, <3>2 DEF Lasting
  <2> QED BY <1>1, <2>1, <2>2, <2>3
<1>6. ASSUME NEW e \in events', e \notin events
      PROVE  /\ sessions'[e.session].live
             /\ e.turn # None => /\ turns'[e.turn].state # "absent"
                                 /\ turns'[e.turn].session = e.session
                                 /\ turns'[e.turn].state = "pending" => e.kind = "turn_pending"
  <2>1. ASSUME NEW k \in Task, pc[k] \in HasTurn, e.session = loc[k].session, e.turn = loc[k].turn,
               turns'[e.turn].state # "pending"
        PROVE  /\ sessions'[e.session].live
               /\ turns'[e.turn].state # "absent" /\ turns'[e.turn].session = e.session
    <3>1. /\ loc[k].session \in SessionId /\ loc[k].turn \in TurnId /\ sessions[loc[k].session].live
          /\ turns[loc[k].turn].state # "absent" /\ turns[loc[k].turn].session = loc[k].session
      <4>1. TaskOwns(k) /\ TaskTypeOK(k) /\ None \notin SessionId
        BY DEF OwnInv, HostTypes, SessionId, None
      <4> QED BY <2>1, <4>1 DEF TaskOwns, TaskTypeOK
    <3> QED BY <1>0, <1>1, <2>1, <3>1 DEF Lasting
  <2>2. ASSUME NEW k \in Task, Inserts(k)
        PROVE  /\ sessions'[e.session].live
               /\ e.turn # None => /\ turns'[e.turn].state # "absent"
                                   /\ turns'[e.turn].session = e.session
                                   /\ e.kind = "turn_pending"
    <3>1. /\ e.session = loc'[k].session /\ e.turn \in {None, loc'[k].turn}
          /\ e.turn # None => e.kind = "turn_pending"
          /\ loc'[k].session \in SessionId /\ pc'[k] = "assemble"
      BY <1>6, <2>2, InsertedTurn DEF Inserts
    <3>2. "assemble" \in HasTurn /\ None \notin SessionId
      BY DEF HasTurn, SendPC, PreparePC, None, SessionId
    <3> QED BY <1>2, <3>1, <3>2 DEF TaskOwns
  <2>3. ASSUME NEW k \in Task, pc[k] = "deltaWrite", loc[k].first,
               turns' = [turns EXCEPT ![loc[k].turn].text = loc[k].text,
                                      ![loc[k].turn].state = loc[k].state],
               e = Event(loc[k].session, loc[k].turn, loc[k].sequence, "turn_streaming")
        PROVE  /\ sessions'[e.session].live
               /\ turns'[e.turn].state # "absent" /\ turns'[e.turn].session = e.session
               /\ turns'[e.turn].state # "pending"
    <3>1. pc[k] \in HasTurn /\ e.session = loc[k].session /\ e.turn = loc[k].turn
      BY <2>3 DEF HasTurn, SendPC, PreparePC, DeltaPC, Event
    <3>2. loc[k].turn \in TurnId /\ loc[k].state = "streaming"
      BY <2>3, <3>1 DEF HostTypes, TaskTypeOK, OwnInv, DeltaInv, DeltaOK
    <3>3. turns'[e.turn].state # "pending"
      BY <1>0, <2>3, <3>1, <3>2 DEF TurnRow
    <3> QED BY <2>1, <3>1, <3>3
  <2>4. ASSUME NEW k \in Task, pc[k] = "finWrite",
               turns' = [turns EXCEPT ![loc[k].turn].state = loc[k].goal,
                                      ![loc[k].turn].text = loc[k].text,
                                      ![loc[k].turn].code = CodeFor(loc[k].goal, loc[k].code)],
               e = Event(loc[k].session, loc[k].turn, loc[k].sequence, ForTerminalState(loc[k].goal))
        PROVE  /\ sessions'[e.session].live
               /\ turns'[e.turn].state # "absent" /\ turns'[e.turn].session = e.session
               /\ turns'[e.turn].state # "pending"
    <3>1. pc[k] \in HasTurn /\ e.session = loc[k].session /\ e.turn = loc[k].turn
      BY <2>4 DEF HasTurn, SendPC, PreparePC, FinishPC, Event
    <3>2. loc[k].turn \in TurnId /\ loc[k].goal \in TerminalState
      BY <2>4, <3>1 DEF HostTypes, HostTypeOK, TaskTypeOK
    <3>3. turns'[e.turn].state # "pending"
      BY <1>0, <2>4, <3>1, <3>2 DEF TurnRow, TerminalState
    <3> QED BY <2>1, <3>1, <3>3
  <2>5. ASSUME NEW k \in Task, pc[k] = "pjWrite",
               e = Event(loc[k].session, None, loc[k].sequence, "project_association_changed")
        PROVE  e.turn = None /\ sessions'[e.session].live
    <3>1. e.turn = None /\ e.session = loc[k].session
      BY <2>5 DEF Event
    <3>2. loc[k].session \in SessionId /\ None \notin SessionId
      BY <2>5 DEF HostTypes, TaskTypeOK, HasSession, ProjectPC, SessionId, None
    <3> QED BY <1>1, <3>1, <3>2 DEF OwnInv, TaskOwns
  <2>6. ASSUME NEW p \in Proc, NEW r \in listed[p],
               turns' = [u \in TurnId |-> IF \E q \in listed[p] : q.turn = u
                                          THEN InterruptedRow(p, u) ELSE turns[u]],
               e = Event(r.session, r.turn, r.sequence, "turn_interrupted")
        PROVE  /\ sessions'[e.session].live
               /\ turns'[e.turn].state # "absent" /\ turns'[e.turn].session = e.session
               /\ turns'[e.turn].state # "pending"
    <3>1. e.turn = r.turn /\ e.session = r.session
      BY <2>6 DEF Event
    <3>2. /\ r.turn \in TurnId /\ r.session \in SessionId
          /\ turns[r.turn].state # "absent" /\ turns[r.turn].session = r.session
      BY <1>0 DEF RowsOwned, ListedRow
    <3>3. turns'[r.turn] = InterruptedRow(p, r.turn)
      BY <2>6, <3>2
    <3>4. turns'[r.turn].state = "interrupted" /\ turns'[r.turn].session = r.session
      BY <3>2, <3>3, InterruptedRowType
    <3>5. sessions[r.session].live
      BY <1>0, <3>2 DEF RowsOwned
    <3> QED BY <1>1, <3>1, <3>2, <3>4, <3>5
  <2> DEFINE Good == /\ sessions'[e.session].live
                     /\ e.turn # None => /\ turns'[e.turn].state # "absent"
                                         /\ turns'[e.turn].session = e.session
                                         /\ turns'[e.turn].state = "pending" => e.kind = "turn_pending"
  <2>7. ASSUME NEW k \in Task, Inserts(k) PROVE Good
    BY <2>2, <2>7
  <2>8. ASSUME NEW k \in Task, pc[k] = "deltaWrite", loc[k].first,
               turns' = [turns EXCEPT ![loc[k].turn].text = loc[k].text,
                                      ![loc[k].turn].state = loc[k].state],
               events' = events \cup
                   {Event(loc[k].session, loc[k].turn, loc[k].sequence, "turn_streaming")}
        PROVE  Good
    <3>1. e = Event(loc[k].session, loc[k].turn, loc[k].sequence, "turn_streaming")
      BY <1>6, <2>8
    <3> QED BY <2>3, <2>8, <3>1
  <2>9. ASSUME NEW k \in Task, pc[k] = "finWrite",
               turns' = [turns EXCEPT ![loc[k].turn].state = loc[k].goal,
                                      ![loc[k].turn].text = loc[k].text,
                                      ![loc[k].turn].code = CodeFor(loc[k].goal, loc[k].code)],
               events' = events \cup {Event(loc[k].session, loc[k].turn, loc[k].sequence,
                                            ForTerminalState(loc[k].goal))}
        PROVE  Good
    <3>1. e = Event(loc[k].session, loc[k].turn, loc[k].sequence, ForTerminalState(loc[k].goal))
      BY <1>6, <2>9
    <3> QED BY <2>4, <2>9, <3>1
  <2>10. ASSUME NEW k \in Task, pc[k] = "pjWrite",
                events' = events \cup {Event(loc[k].session, None, loc[k].sequence,
                                             "project_association_changed")}
         PROVE  Good
    <3>1. e = Event(loc[k].session, None, loc[k].sequence, "project_association_changed")
      BY <1>6, <2>10
    <3> QED BY <2>5, <2>10, <3>1
  <2>11. ASSUME NEW p \in Proc,
                turns' = [u \in TurnId |-> IF \E q \in listed[p] : q.turn = u
                                           THEN InterruptedRow(p, u) ELSE turns[u]],
                events' = events \cup
                   {Event(r.session, r.turn, r.sequence, "turn_interrupted") : r \in listed[p]}
         PROVE  Good
    <3>1. PICK r \in listed[p] : e = Event(r.session, r.turn, r.sequence, "turn_interrupted")
      BY <1>6, <2>11
    <3> QED BY <2>6, <2>11, <3>1
  <2> HIDE DEF Good
  <2>12. Good
    BY <1>6, <2>7, <2>8, <2>9, <2>10, <2>11, NewEvents
  <2> QED BY <2>12 DEF Good
<1> QED BY <1>3, <1>4, <1>5, <1>6 DEF RowsOwned

LEMMA OwnStep ==
  ASSUME HostTypes, OwnInv, [HostNext]_hostVars
  PROVE  OwnInv'
<1>1. HostTypes'
  BY StepTypes, StutterTypes
<1>2. DeltaInv' /\ ListedOnce'
  BY DeltaStep, ListedStep DEF OwnInv
<1>3. OwnersDiffer' /\ RowsOwned' /\ \A k \in Task : TaskOwns(k)'
  BY <1>1, TaskOwnsStep, OwnersStep, RowsStep
<1> QED BY <1>2, <1>3 DEF OwnInv

LEMMA OwnInit == HostInit => OwnInv
<1> SUFFICES ASSUME HostInit PROVE OwnInv
  OBVIOUS
<1>1. "idle" \notin HasTurn
  BY DEF HasTurn, SendPC, PreparePC, DeltaPC, FinishPC
<1>2. DeltaInv /\ ListedOnce /\ RowsOwned
  BY DEF HostInit, DeltaInv, DeltaOK, ListedOnce, RowsOwned, AbsentTurn
<1>3. OwnersDiffer /\ \A k \in Task : TaskOwns(k)
  BY <1>1 DEF HostInit, OwnersDiffer, TaskOwns, Blank
<1> QED BY <1>2, <1>3 DEF OwnInv


---------------------------------------------------------------------------
(* The log of a session                                                    *)

Numbers(s) == {e.sequence : e \in EventsOf(s)}

(* The numbers of a session are those below the next one                   *)
Gapless == \A s \in SessionId : Numbers(s) = 0 .. NextEventSequence(s) - 1

Distinct == \A e, f \in events : e.session = f.session /\ e.sequence = f.sequence => e = f

InOrder ==
  \A e, f \in events :
    (e.turn = f.turn /\ e.turn # None /\ e.sequence < f.sequence) =>
      /\ e.kind \notin TerminalKind
      /\ f.kind = "turn_streaming" => e.kind = "turn_pending"

(* A command that will number an event with what it has read is not ahead  *)
(* of the log, so the number is the next one or is taken                   *)
WillNumber(k) == \/ pc[k] \in {"finWrite", "pjWrite"}
                 \/ pc[k] = "append" /\ loc[k].session # None
                 \/ pc[k] = "deltaWrite" /\ loc[k].first

NotAhead == \A k \in Task : WillNumber(k) => loc[k].sequence <= NextEventSequence(loc[k].session)

(* ... and neither is a start-up, which has consecutive numbers            *)
RowsOf(p, s) == {r \in listed[p] : r.session = s}

ConsecutiveRows(p, s) ==
  /\ \E b, m \in Nat : /\ b <= NextEventSequence(s)
                       /\ {r.sequence : r \in RowsOf(p, s)} = b .. b + m - 1
  /\ \A q, r \in RowsOf(p, s) : q.sequence = r.sequence => q = r

Consecutive ==
  \A p \in Proc : boot[p] = "writing" => \A s \in SessionId : ConsecutiveRows(p, s)

LogInv == OneTerminalEvent /\ Gapless /\ Distinct /\ InOrder /\ NotAhead /\ Consecutive

NextBounds ==
  \A s \in SessionId :
    /\ NextEventSequence(s) \in Nat
    /\ \A e \in EventsOf(s) : e.sequence \in Nat /\ e.sequence < NextEventSequence(s)
    /\ NextEventSequence(s) # 0 =>
         \E e \in EventsOf(s) : e.sequence = NextEventSequence(s) - 1

LEMMA NextBounded == HostTypes => NextBounds
  BY NextSequence DEF NextBounds

LEMMA NextBoundedLater == HostTypes' => NextBounds'
  BY NextBounded, PTL

(* A log that was continued at its end has no gap and no double            *)
NewOf(s) == {e \in events' \ events : e.session = s}

Continued(s) ==
  /\ \E m \in Nat : {e.sequence : e \in NewOf(s)}
                      = NextEventSequence(s) .. NextEventSequence(s) + m - 1
  /\ \A e, f \in NewOf(s) : e.sequence = f.sequence => e = f

LEMMA NextGrows ==
  ASSUME HostTypes, HostTypes', events \subseteq events', NEW s \in SessionId
  PROVE  /\ NextEventSequence(s) \in Nat /\ NextEventSequence(s)' \in Nat
         /\ NextEventSequence(s) <= NextEventSequence(s)'
<1>1. NextBounds /\ NextBounds'
  BY NextBounded, NextBoundedLater
<1> DEFINE n == NextEventSequence(s)
           w == NextEventSequence(s)'
<1>2. n \in Nat /\ (n # 0 => \E e \in EventsOf(s) : e.sequence = n - 1)
  BY <1>1 DEF NextBounds
<1>3. w \in Nat /\ \A e \in EventsOf(s)' : e.sequence \in Nat /\ e.sequence < w
  BY <1>1 DEF NextBounds
<1>4. \A e \in EventsOf(s) : e \in EventsOf(s)'
  BY DEF EventsOf
<1> HIDE DEF n, w
<1>5. n <= w
  BY <1>2, <1>3, <1>4
<1> QED BY <1>2, <1>3, <1>5 DEF n, w

LEMMA LogContinued ==
  ASSUME HostTypes, HostTypes', Gapless, Distinct, events \subseteq events',
         \A s \in SessionId : Continued(s)
  PROVE  Gapless' /\ Distinct'
<1>0. events \subseteq EventRow /\ events' \subseteq EventRow
  BY DEF HostTypes, HostTypeOK, EventRow
<1>1. ASSUME NEW s \in SessionId PROVE Numbers(s)' = 0 .. NextEventSequence(s)' - 1
  <2> DEFINE n == NextEventSequence(s)
             w == NextEventSequence(s)'
  <2>1. NextBounds /\ NextBounds'
    BY NextBounded, NextBoundedLater
  <2>2. n \in Nat /\ Numbers(s) = 0 .. n - 1
    BY <2>1 DEF NextBounds, Gapless
  <2>3. PICK m \in Nat : {e.sequence : e \in NewOf(s)} = n .. n + m - 1
    BY DEF Continued
  <2>4. EventsOf(s)' = EventsOf(s) \cup NewOf(s)
    BY DEF EventsOf, NewOf
  <2>5. Numbers(s)' = Numbers(s) \cup {e.sequence : e \in NewOf(s)}
    BY <2>4 DEF Numbers
  <2>6. w \in Nat /\ (\A e \in EventsOf(s)' : e.sequence \in Nat /\ e.sequence < w)
          /\ (w # 0 => \E e \in EventsOf(s)' : e.sequence = w - 1)
    BY <2>1 DEF NextBounds
  <2>7. (\A i \in Numbers(s)' : i \in Nat /\ i < w) /\ (w # 0 => w - 1 \in Numbers(s)')
    BY <2>6 DEF Numbers
  <2> HIDE DEF n, w
  <2>8. Numbers(s)' = 0 .. n + m - 1
    BY <2>2, <2>3, <2>5
  <2>9. w = n + m
    <3>1. n + m \in Nat /\ (n + m # 0 => n + m - 1 \in Numbers(s)')
      BY <2>2, <2>8
    <3>2. n + m # 0 => n + m - 1 < w
      BY <2>7, <3>1
    <3>3. w # 0 => w - 1 \in 0 .. n + m - 1
      BY <2>7, <2>8
    <3>4. w \in Nat
      BY <2>6
    <3> QED BY <2>2, <3>1, <3>2, <3>3, <3>4
  <2> QED BY <2>2, <2>8, <2>9 DEF w
<1>2. ASSUME NEW e \in events', NEW f \in events', e.session = f.session, e.sequence = f.sequence
      PROVE  e = f
  <2>1. e.session \in SessionId
    BY <1>0 DEF EventRow
  <2> DEFINE s == e.session
             n == NextEventSequence(s)
  <2>2. n \in Nat /\ \A d \in EventsOf(s) : d.sequence \in Nat /\ d.sequence < n
    BY <2>1, NextBounded DEF NextBounds
  <2>3. PICK m \in Nat : {d.sequence : d \in NewOf(s)} = n .. n + m - 1
    BY <2>1 DEF Continued
  <2>4. \A d \in NewOf(s) : d.sequence \in n .. n + m - 1
    BY <2>3
  <2>5. \A d \in NewOf(s) : d.sequence >= n
    BY <2>2, <2>4
  <2>6. e \in EventsOf(s) \cup NewOf(s) /\ f \in EventsOf(s) \cup NewOf(s)
    BY <1>2 DEF EventsOf, NewOf
  <2> HIDE DEF n
  <2>7. e \in EventsOf(s) <=> f \in EventsOf(s)
    <3>1. \A c, d : c \in EventsOf(s) /\ d \in NewOf(s) => c.sequence # d.sequence
      <4> SUFFICES ASSUME NEW c \in EventsOf(s), NEW d \in NewOf(s), c.sequence = d.sequence
                   PROVE  FALSE
        OBVIOUS
      <4>1. c.sequence \in Nat /\ c.sequence < n /\ c.sequence >= n
        BY <2>2, <2>5
      <4> QED BY <2>2, <4>1
    <3>2. \A d \in NewOf(s) : d \notin EventsOf(s)
      BY DEF NewOf, EventsOf
    <3> QED BY <1>2, <2>6, <3>1, <3>2
  <2>8. e \in EventsOf(s) => e = f
    BY <1>2, <2>7 DEF EventsOf, Distinct
  <2>9. e \notin EventsOf(s) => e = f
    BY <1>2, <2>1, <2>6, <2>7 DEF Continued
  <2> QED BY <2>8, <2>9
<1> QED BY <1>1, <1>2 DEF Gapless, Distinct


(* A free number that is not ahead of the log is the next one              *)
LEMMA NumberIsNext ==
  ASSUME HostTypes, Gapless, NEW s \in SessionId, NEW n \in Nat,
         n <= NextEventSequence(s), SequenceIsFree(s, n)
  PROVE  n = NextEventSequence(s)
<1>1. NextEventSequence(s) \in Nat /\ Numbers(s) = 0 .. NextEventSequence(s) - 1
  BY NextBounded DEF NextBounds, Gapless
<1>2. n \notin Numbers(s)
  BY DEF SequenceIsFree, Numbers
<1> QED BY <1>1, <1>2

LEMMA ContinuedByNone ==
  ASSUME HostTypes, NEW s \in SessionId, NewOf(s) = {}
  PROVE  Continued(s)
<1>1. NextEventSequence(s) \in Nat
  BY NextBounded DEF NextBounds
<1>2. {e.sequence : e \in NewOf(s)} = NextEventSequence(s) .. NextEventSequence(s) + 0 - 1
  BY <1>1
<1> QED BY <1>2 DEF Continued

LEMMA ContinuedByOne ==
  ASSUME HostTypes, Gapless, NEW s \in SessionId, NEW n \in Nat, NEW t, NEW kind,
         n <= NextEventSequence(s), SequenceIsFree(s, n),
         events' = events \cup {Event(s, t, n, kind)}
  PROVE  \A r \in SessionId : Continued(r)
<1>1. n = NextEventSequence(s)
  BY NumberIsNext
<1> SUFFICES ASSUME NEW r \in SessionId PROVE Continued(r)
  OBVIOUS
<1>2. CASE r = s
  <2> DEFINE x == Event(s, t, n, kind)
  <2>1. x.session = s /\ x.sequence = n
    BY DEF Event
  <2>2. x \notin events
    BY <2>1 DEF SequenceIsFree, EventsOf
  <2> HIDE DEF x
  <2>3. NewOf(s) = {x}
    BY <2>1, <2>2 DEF NewOf, x
  <2>4. {e.sequence : e \in NewOf(s)} = {n}
    BY <2>1, <2>3
  <2>5. {n} = NextEventSequence(s) .. NextEventSequence(s) + 1 - 1
    BY <1>1
  <2> QED BY <1>2, <2>3, <2>4, <2>5 DEF Continued
<1>3. CASE r # s
  <2>1. NewOf(r) = {}
    BY <1>3 DEF NewOf, Event
  <2> QED BY <2>1, ContinuedByNone
<1> QED BY <1>2, <1>3

LEMMA ContinuedByCreation ==
  ASSUME HostTypes, RowsOwned, NEW s \in SessionId, NEW t, ~ sessions[s].live,
         events' = events \cup {Event(s, None, 0, "session_created"), Event(s, t, 1, "turn_pending")}
  PROVE  \A r \in SessionId : Continued(r)
<1>1. EventsOf(s) = {} /\ NextEventSequence(s) = 0
  BY DEF RowsOwned, EventsOf, NextEventSequence
<1> SUFFICES ASSUME NEW r \in SessionId PROVE Continued(r)
  OBVIOUS
<1>2. CASE r = s
  <2> DEFINE x == Event(s, None, 0, "session_created")
             y == Event(s, t, 1, "turn_pending")
  <2>1. x.session = s /\ x.sequence = 0 /\ y.session = s /\ y.sequence = 1
    BY DEF Event
  <2>2. x \notin events /\ y \notin events
    BY <1>1, <2>1 DEF EventsOf
  <2> HIDE DEF x, y
  <2>3. NewOf(s) = {x, y}
    BY <2>1, <2>2 DEF NewOf, x, y
  <2>4. {e.sequence : e \in NewOf(s)} = {0, 1}
    BY <2>1, <2>3
  <2>5. {0, 1} = 0 .. 0 + 2 - 1
    OBVIOUS
  <2>6. \A e, f \in NewOf(s) : e.sequence = f.sequence => e = f
    BY <2>1, <2>3
  <2> QED BY <1>1, <1>2, <2>4, <2>5, <2>6 DEF Continued
<1>3. CASE r # s
  <2>1. NewOf(r) = {}
    BY <1>3 DEF NewOf, Event
  <2> QED BY <2>1, ContinuedByNone
<1> QED BY <1>2, <1>3

LEMMA ContinuedByStartUp ==
  ASSUME HostTypes, Gapless, NEW p \in Proc, \A r \in SessionId : ConsecutiveRows(p, r),
         \A r \in listed[p] : SequenceIsFree(r.session, r.sequence),
         events' = events \cup
           {Event(r.session, r.turn, r.sequence, "turn_interrupted") : r \in listed[p]},
         NEW s \in SessionId
  PROVE  Continued(s)
<1> DEFINE n == NextEventSequence(s)
           Ev(r) == Event(r.session, r.turn, r.sequence, "turn_interrupted")
<1>0. n \in Nat /\ listed[p] \subseteq ListedRow
  BY NextBounded DEF NextBounds, HostTypes, TablesOK
<1>1. PICK b, m \in Nat : b <= n /\ {r.sequence : r \in RowsOf(p, s)} = b .. b + m - 1
  BY DEF ConsecutiveRows
<1>2. \A r \in listed[p] : Ev(r).session = r.session /\ Ev(r).sequence = r.sequence
  BY DEF Event
<1>3. \A r \in listed[p] : Ev(r) \notin events
  BY <1>2 DEF SequenceIsFree, EventsOf
<1>4. NewOf(s) = {Ev(r) : r \in RowsOf(p, s)}
  <2> HIDE DEF Ev
  <2>1. events' = events \cup {Ev(r) : r \in listed[p]}
    BY DEF Ev
  <2> QED BY <1>2, <1>3, <2>1 DEF NewOf, RowsOf
<1> HIDE DEF Ev
<1>5. {e.sequence : e \in NewOf(s)} = b .. b + m - 1
  <2>1. {e.sequence : e \in NewOf(s)} = {r.sequence : r \in RowsOf(p, s)}
    BY <1>2, <1>4 DEF RowsOf
  <2> QED BY <1>1, <2>1
<1>6. \A e, f \in NewOf(s) : e.sequence = f.sequence => e = f
  <2> SUFFICES ASSUME NEW e \in NewOf(s), NEW f \in NewOf(s), e.sequence = f.sequence PROVE e = f
    OBVIOUS
  <2>1. PICK q \in RowsOf(p, s) : e = Ev(q)
    BY <1>4
  <2>2. PICK r \in RowsOf(p, s) : f = Ev(r)
    BY <1>4
  <2>3. q.sequence = r.sequence
    BY <1>2, <2>1, <2>2 DEF RowsOf
  <2>4. q = r
    BY <2>3 DEF ConsecutiveRows
  <2> QED BY <2>1, <2>2, <2>4
<1>7. CASE m = 0
  <2>1. NewOf(s) = {}
    <3>1. b .. b + m - 1 = {}
      BY <1>1, <1>7
    <3> QED BY <1>5, <3>1
  <2> QED BY <2>1, ContinuedByNone
<1>8. CASE m # 0
  <2>1. b \in b .. b + m - 1
    BY <1>1, <1>8
  <2>2. PICK r \in RowsOf(p, s) : r.sequence = b
    BY <1>1, <2>1
  <2>3. SequenceIsFree(s, b)
    BY <2>2 DEF RowsOf
  <2>4. b = n
    BY <1>1, <2>3, NumberIsNext
  <2> QED BY <1>1, <1>5, <1>6, <2>4 DEF Continued
<1> QED BY <1>1, <1>7, <1>8


LEMMA LogGrows ==
  ASSUME HostTypes, OwnInv, LogInv, [HostNext]_hostVars
  PROVE  events \subseteq events' /\ \A s \in SessionId : Continued(s)
<1>0. /\ Gapless /\ NotAhead /\ Consecutive /\ RowsOwned /\ None \notin SessionId
      /\ \A k \in Task : loc[k].sequence \in Nat
  BY DEF LogInv, OwnInv, None, SessionId, HostTypes, HostTypeOK
<1>1. CASE events' = events
  <2>1. \A s \in SessionId : NewOf(s) = {}
    BY <1>1 DEF NewOf
  <2> QED BY <1>1, <2>1, ContinuedByNone
<1>2. ASSUME NEW k \in Task, WillNumber(k), loc[k].session \in SessionId, NEW t, NEW kind,
             SequenceIsFree(loc[k].session, loc[k].sequence),
             events' = events \cup {Event(loc[k].session, t, loc[k].sequence, kind)}
      PROVE  events \subseteq events' /\ \A s \in SessionId : Continued(s)
  <2>1. loc[k].sequence \in Nat /\ loc[k].sequence <= NextEventSequence(loc[k].session)
    BY <1>0, <1>2 DEF NotAhead
  <2>2. \A s \in SessionId : Continued(s)
    BY <1>0, <1>2, <2>1, ContinuedByOne
  <2> QED BY <1>2, <2>2
<1>3. ASSUME NEW k \in Task, Inserts(k)
      PROVE  events \subseteq events' /\ \A s \in SessionId : Continued(s)
  <2>1. CASE CreateSession(k)
    <3>1. PICK s \in SessionId, t \in TurnId :
            /\ ~ sessions[s].live
            /\ events' = events \cup {Event(s, None, 0, "session_created"),
                                      Event(s, t, 1, "turn_pending")}
      BY <2>1 DEF CreateSession
    <3>2. \A r \in SessionId : Continued(r)
      BY <1>0, <3>1, ContinuedByCreation
    <3> QED BY <3>1, <3>2
  <2>2. CASE AppendTurn(k)
    <3>1. ~ Ends(k)
      <4>1. pc \in [Task -> PC]
        BY DEF HostTypes, HostTypeOK
      <4> QED BY <1>3, <4>1 DEF Inserts, Ends
    <3>2. loc[k].session \in SessionId /\ WillNumber(k)
      BY <2>2 DEF AppendTurn, HostTypes, HostTypeOK, WillNumber
    <3>3. PICK t \in TurnId :
            events' = events \cup {Event(loc[k].session, t, loc[k].sequence, "turn_pending")}
      BY <2>2, <3>1 DEF AppendTurn
    <3>4. SequenceIsFree(loc[k].session, loc[k].sequence)
      BY <2>2, <3>1 DEF AppendTurn
    <3> QED BY <1>2, <3>2, <3>3, <3>4
  <2> QED BY <1>3, <2>1, <2>2 DEF Inserts
<1>4. ASSUME NEW k \in Task, pc[k] \in {"deltaWrite", "finWrite", "pjWrite"}
      PROVE  loc[k].session \in SessionId
  BY <1>4 DEF HostTypes, TaskTypeOK, HasSession, HasTurn, ProjectPC, SendPC, PreparePC, DeltaPC,
     FinishPC
<1>5. ASSUME NEW p \in Proc, boot[p] = "writing",
             \A r \in listed[p] : SequenceIsFree(r.session, r.sequence),
             events' = events \cup
               {Event(r.session, r.turn, r.sequence, "turn_interrupted") : r \in listed[p]}
      PROVE  events \subseteq events' /\ \A s \in SessionId : Continued(s)
  <2>1. \A r \in SessionId : ConsecutiveRows(p, r)
    BY <1>0, <1>5 DEF Consecutive
  <2>2. \A s \in SessionId : Continued(s)
    BY <1>0, <1>5, <2>1, ContinuedByStartUp
  <2> QED BY <1>5, <2>2
<1>6. \/ events' = events
      \/ \E k \in Task : Inserts(k)
      \/ \E k \in Task :
           /\ pc[k] \in {"deltaWrite", "finWrite", "pjWrite"} /\ WillNumber(k)
           /\ SequenceIsFree(loc[k].session, loc[k].sequence)
           /\ \E t, kind : events' = events \cup {Event(loc[k].session, t, loc[k].sequence, kind)}
      \/ \E p \in Proc :
           /\ boot[p] = "writing"
           /\ \A r \in listed[p] : SequenceIsFree(r.session, r.sequence)
           /\ events' = events \cup
                {Event(r.session, r.turn, r.sequence, "turn_interrupted") : r \in listed[p]}
  BY NewEvents DEF WillNumber
<1> QED BY <1>1, <1>2, <1>3, <1>4, <1>5, <1>6

(* What the turn of a new event was before                                 *)
Fits(e) ==
  e.turn # None =>
    \/ turns[e.turn].state = "absent" /\ e.kind = "turn_pending"
    \/ turns[e.turn].state = "pending" /\ e.kind = "turn_streaming"
    \/ Inflight(e.turn) /\ e.kind \in TerminalKind

LEMMA NewEventsFit ==
  ASSUME HostTypes, OwnInv, [HostNext]_hostVars
  PROVE  /\ \A e \in events' \ events : Fits(e)
         /\ \A e, f \in events' \ events : e.turn = f.turn /\ e.turn # None => e = f
<1> DEFINE New == events' \ events
           Good == /\ \A e \in New : Fits(e)
                   /\ \A e, f \in New : e.turn = f.turn /\ e.turn # None => e = f
<1>1. ASSUME NEW x, events' = events \cup {x}, Fits(x) PROVE Good
  BY <1>1
<1>2. ASSUME events' = events PROVE Good
  BY <1>2
<1>3. ASSUME NEW k \in Task, Inserts(k) PROVE Good
  <2>1. CASE CreateSession(k)
    <3>1. PICK s \in SessionId, t \in TurnId :
            /\ turns[t].state = "absent"
            /\ events' = events \cup {Event(s, None, 0, "session_created"),
                                      Event(s, t, 1, "turn_pending")}
      BY <2>1 DEF CreateSession
    <3> DEFINE x == Event(s, None, 0, "session_created")
               y == Event(s, t, 1, "turn_pending")
    <3>2. x.turn = None /\ y.turn = t /\ y.kind = "turn_pending"
      BY DEF Event
    <3>3. events' = events \cup {x, y}
      BY <3>1
    <3> HIDE DEF x, y
    <3> QED BY <3>1, <3>2, <3>3 DEF Fits
  <2>2. CASE AppendTurn(k)
    <3>1. ~ Ends(k)
      <4>1. pc \in [Task -> PC]
        BY DEF HostTypes, HostTypeOK
      <4> QED BY <1>3, <4>1 DEF Inserts, Ends
    <3>2. PICK t \in TurnId :
            /\ turns[t].state = "absent"
            /\ events' = events \cup {Event(loc[k].session, t, loc[k].sequence, "turn_pending")}
      BY <2>2, <3>1 DEF AppendTurn
    <3>3. Fits(Event(loc[k].session, t, loc[k].sequence, "turn_pending"))
      BY <3>2 DEF Fits, Event
    <3> QED BY <1>1, <3>2, <3>3
  <2> QED BY <1>3, <2>1, <2>2 DEF Inserts
<1>4. ASSUME NEW k \in Task, pc[k] = "deltaWrite", loc[k].first, CanUpdateInflight(loc[k].turn),
             events' = events \cup
               {Event(loc[k].session, loc[k].turn, loc[k].sequence, "turn_streaming")}
      PROVE  Good
  <2>1. turns[loc[k].turn].state = "pending"
    <3>1. turns[loc[k].turn].state \in TerminalState \cup {"pending"}
      BY <1>4 DEF OwnInv, TaskOwns
    <3> QED BY <1>4, <3>1 DEF CanUpdateInflight, Inflight, InflightState, TerminalState
  <2>2. Fits(Event(loc[k].session, loc[k].turn, loc[k].sequence, "turn_streaming"))
    BY <2>1 DEF Fits, Event
  <2> QED BY <1>1, <1>4, <2>2
<1>5. ASSUME NEW k \in Task, CanUpdateInflight(loc[k].turn),
             events' = events \cup {Event(loc[k].session, loc[k].turn, loc[k].sequence,
                                          ForTerminalState(loc[k].goal))}
      PROVE  Good
  <2>1. ForTerminalState(loc[k].goal) \in TerminalKind
    BY EndKinds DEF HostTypes, HostTypeOK
  <2>2. Fits(Event(loc[k].session, loc[k].turn, loc[k].sequence, ForTerminalState(loc[k].goal)))
    BY <1>5, <2>1 DEF Fits, Event, CanUpdateInflight
  <2> QED BY <1>1, <1>5, <2>2
<1>6. ASSUME NEW k \in Task,
             events' = events \cup {Event(loc[k].session, None, loc[k].sequence,
                                          "project_association_changed")}
      PROVE  Good
  <2>1. Fits(Event(loc[k].session, None, loc[k].sequence, "project_association_changed"))
    BY DEF Fits, Event
  <2> QED BY <1>1, <1>6, <2>1
<1>7. ASSUME NEW p \in Proc, \A r \in listed[p] : CanUpdateInflight(r.turn),
             events' = events \cup
               {Event(r.session, r.turn, r.sequence, "turn_interrupted") : r \in listed[p]}
      PROVE  Good
  <2> DEFINE Ev(r) == Event(r.session, r.turn, r.sequence, "turn_interrupted")
  <2>1. \A r : Ev(r).turn = r.turn /\ Ev(r).kind = "turn_interrupted"
    BY DEF Event
  <2>2. events' = events \cup {Ev(r) : r \in listed[p]}
    BY <1>7
  <2>3. \A q, r \in listed[p] : q.turn = r.turn => q = r
    BY DEF OwnInv, ListedOnce
  <2> HIDE DEF Ev
  <2>4. \A e \in New : \E r \in listed[p] : e = Ev(r)
    BY <2>2
  <2>5. "turn_interrupted" \in TerminalKind
    BY DEF TerminalKind
  <2> QED BY <1>7, <2>1, <2>3, <2>4, <2>5 DEF Fits, CanUpdateInflight
<1> HIDE DEF Good
<1>8. \/ events' = events
      \/ \E k \in Task : Inserts(k)
      \/ \E k \in Task :
           /\ pc[k] = "deltaWrite" /\ loc[k].first /\ CanUpdateInflight(loc[k].turn)
           /\ events' = events \cup
                {Event(loc[k].session, loc[k].turn, loc[k].sequence, "turn_streaming")}
      \/ \E k \in Task :
           /\ CanUpdateInflight(loc[k].turn)
           /\ events' = events \cup {Event(loc[k].session, loc[k].turn, loc[k].sequence,
                                           ForTerminalState(loc[k].goal))}
      \/ \E k \in Task :
           events' = events \cup {Event(loc[k].session, None, loc[k].sequence,
                                        "project_association_changed")}
      \/ \E p \in Proc :
           /\ \A r \in listed[p] : CanUpdateInflight(r.turn)
           /\ events' = events \cup
                {Event(r.session, r.turn, r.sequence, "turn_interrupted") : r \in listed[p]}
  BY NewEvents
<1>9. Good
  BY <1>2, <1>3, <1>4, <1>5, <1>6, <1>7, <1>8
<1> QED BY <1>9 DEF Good


LEMMA OrderStep ==
  ASSUME HostTypes, HostTypes', OwnInv, OwnInv', LogInv, [HostNext]_hostVars
  PROVE  InOrder'
<1> SUFFICES ASSUME NEW e \in events', NEW f \in events',
                    e.turn = f.turn, e.turn # None, e.sequence < f.sequence
             PROVE  /\ e.kind \notin TerminalKind
                    /\ f.kind = "turn_streaming" => e.kind = "turn_pending"
  BY DEF InOrder
<1>0. events \subseteq EventRow /\ events' \subseteq EventRow /\ None \notin TurnId
  BY DEF HostTypes, HostTypeOK, EventRow, None, TurnId
<1>1. CASE e \in events /\ f \in events
  BY <1>1 DEF LogInv, InOrder
<1>2. e.session = f.session /\ e.session \in SessionId /\ e.turn \in TurnId
  <2>1. e.session = turns'[e.turn].session /\ f.session = turns'[f.turn].session
    BY DEF OwnInv, RowsOwned
  <2> QED BY <1>0, <2>1 DEF EventRow
<1>3. e \in events \/ f \in events
  <2>1. e # f
    BY <1>0 DEF EventRow
  <2>2. \A d, g \in events' \ events : d.turn = g.turn /\ d.turn # None => d = g
    BY NewEventsFit
  <2> QED BY <2>1, <2>2
<1>4. CASE e \notin events
  <2> DEFINE s == e.session
             n == NextEventSequence(s)
  <2>1. f \in EventsOf(s) /\ e \in NewOf(s)
    BY <1>2, <1>3, <1>4 DEF EventsOf, NewOf
  <2>2. n \in Nat /\ f.sequence \in Nat /\ f.sequence < n
    BY <1>2, <2>1, NextBounded DEF NextBounds
  <2>3. Continued(s)
    BY <1>2, LogGrows
  <2>4. PICK m \in Nat : {d.sequence : d \in NewOf(s)} = n .. n + m - 1
    BY <2>3 DEF Continued
  <2>5. e.sequence \in n .. n + m - 1
    BY <2>1, <2>4
  <2>6. FALSE
    BY <2>2, <2>5
  <2> QED BY <2>6
<1>5. CASE e \in events /\ f \notin events
  <2>1. Fits(f)
    BY <1>5, NewEventsFit
  <2>2. turns[e.turn].state # "absent" /\ (turns[e.turn].state = "pending" => e.kind = "turn_pending")
    BY <1>5 DEF OwnInv, RowsOwned
  <2>3. \/ turns[e.turn].state = "pending" /\ f.kind = "turn_streaming"
        \/ Inflight(e.turn) /\ f.kind \in TerminalKind
    BY <2>1, <2>2 DEF Fits
  <2>4. turns[e.turn].state \notin TerminalState
    BY <2>3 DEF Inflight, InflightState, TerminalState
  <2>5. e.kind \notin TerminalKind
    BY <1>2, <1>5, <2>4 DEF LogInv, OneTerminalEvent, TerminalEvents
  <2> QED BY <2>2, <2>3, <2>5 DEF TerminalKind
<1> QED BY <1>1, <1>3, <1>4, <1>5

LEMMA NotAheadStep ==
  ASSUME HostTypes, HostTypes', OwnInv, LogInv, [HostNext]_hostVars
  PROVE  NotAhead'
<1> SUFFICES ASSUME NEW k \in Task, WillNumber(k)'
             PROVE  (loc[k].sequence <= NextEventSequence(loc[k].session))'
  BY DEF NotAhead
<1>0. loc \in [Task -> Locals] /\ loc[k] \in Locals /\ pc \in [Task -> PC] /\ NotAhead
  BY DEF HostTypes, HostTypeOK, Locals, LogInv
<1>1. \A s \in SessionId : /\ NextEventSequence(s) \in Nat /\ NextEventSequence(s)' \in Nat
                           /\ NextEventSequence(s) <= NextEventSequence(s)'
  BY LogGrows, NextGrows
<1>2. loc'[k].session \in SessionId /\ loc'[k].sequence \in Nat
  BY DEF WillNumber, HostTypes, HostTypeOK, TaskTypeOK, HasSession, HasTurn, ProjectPC, SendPC,
     PreparePC, DeltaPC, FinishPC
<1>3. ASSUME loc'[k].sequence <= NextEventSequence(loc'[k].session)
      PROVE  (loc[k].sequence <= NextEventSequence(loc[k].session))'
  <2>1. PICK s \in SessionId : s = loc'[k].session
    BY <1>2
  <2>2. loc'[k].sequence <= NextEventSequence(s)'
    BY <1>1, <1>2, <1>3, <2>1
  <2> QED BY <2>1, <2>2 DEF NextEventSequence, EventsOf
<1>4. CASE Stays(k)
  <2>1. WillNumber(k) /\ loc'[k] = loc[k]
    BY <1>4 DEF Stays, WillNumber
  <2> QED BY <1>0, <1>3, <2>1 DEF NotAhead
<1>5. CASE ~ Stays(k)
  <2>1. pc'[k] \in {"finWrite", "pjWrite", "append", "deltaWrite"}
    BY DEF WillNumber
  <2>2. TaskStep(k) \/ StoreFails(k)
    <3>1. ~ Idles(k) /\ ~ Begins(k) /\ ~ Inserts(k)
      BY <2>1 DEF Idles, Begins, Inserts
    <3> QED BY <1>5, <3>1, TaskCases DEF Carries, Reads
  <2>3. ReadSequence(k) \/ ReadInflight(k) \/ DeltaReadTurn(k) \/ DeltaReadSequence(k)
          \/ FinishReadSequence(k) \/ SetProjectReadSequence(k)
    BY <2>1, <2>2, Arrivals
  <2>4. CASE ReadSequence(k) \/ DeltaReadSequence(k) \/ FinishReadSequence(k) \/ SetProjectReadSequence(k)
    <3>1. loc' = [loc EXCEPT ![k].sequence = NextEventSequence(loc[k].session)]
      BY <2>4 DEF ReadSequence, DeltaReadSequence, FinishReadSequence, SetProjectReadSequence
    <3>2. loc'[k].session = loc[k].session /\ loc'[k].sequence = NextEventSequence(loc[k].session)
      BY <1>0, <3>1 DEF Locals
    <3> QED BY <1>1, <1>2, <1>3, <3>2
  <2>5. CASE ReadInflight(k)
    <3>1. ~ Ends(k)
      BY <1>0, <2>1 DEF Ends
    <3>2. loc' = loc /\ pc'[k] = IF loc[k].session = None THEN "append" ELSE "session"
      BY <1>0, <2>5, <3>1 DEF ReadInflight, Goes
    <3>3. FALSE
      BY <3>2 DEF WillNumber
    <3> QED BY <3>3
  <2>6. CASE DeltaReadTurn(k)
    <3> DEFINE row == turns[loc[k].turn]
               first == row.state = "pending" /\ loc[k].delta > 0
    <3>1. loc'[k].first = first /\ pc'[k] = IF first THEN "deltaSeq" ELSE "deltaWrite"
      BY <1>0, <2>1, <2>6 DEF DeltaReadTurn, StreamEnds, Locals
    <3> HIDE DEF first
    <3>2. FALSE
      BY <3>1 DEF WillNumber
    <3> QED BY <3>2
  <2> QED BY <2>3, <2>4, <2>5, <2>6
<1> QED BY <1>4, <1>5


(* A start-up that is about to write has read its numbers in this step or  *)
(* keeps the ones it has read                                              *)
LEMMA WritingStays ==
  ASSUME HostTypes, [HostNext]_hostVars, NEW p \in Proc, boot'[p] = "writing"
  PROVE  BootRead(p) \/ (boot[p] = "writing" /\ listed'[p] = listed[p])
<1>0. boot \in [Proc -> {"new", "down", "listing", "writing", "up"}]
      /\ listed \in [Proc -> SUBSET ListedRow]
  BY DEF HostTypes, HostTypeOK, TablesOK
<1>1. ASSUME NEW k \in Task, TaskStep(k) \/ StoreFails(k) \/ Command(k) PROVE UNCHANGED <<boot, listed>>
  BY <1>1, TaskShape DEF Command, SendBegin, SetProjectBegin, PickBegin, PickEnd
<1>2. ASSUME NEW q \in Proc, CancelAgentTurn(q) \/ ClearDraft(q) \/ SetScope(q) \/ SaveRead(q)
                             \/ SaveWrite(q)
      PROVE  UNCHANGED <<boot, listed>>
  BY <1>2 DEF CancelAgentTurn, ClearDraft, SetScope, SaveRead, SaveWrite, process
<1>3. ASSUME NEW q \in Proc, NEW b, NEW L, b # "writing",
             boot' = [boot EXCEPT ![q] = b], listed' = [listed EXCEPT ![q] = L]
      PROVE  boot[p] = "writing" /\ listed'[p] = listed[p]
  BY <1>0, <1>3
<1>4. ASSUME NEW q \in Proc, BootList(q)
      PROVE  boot[p] = "writing" /\ listed'[p] = listed[p]
  <2> DEFINE L == {InflightRow(t) : t \in {u \in TurnId : Inflight(u)}}
  <2>1. boot' = [boot EXCEPT ![q] = "listing"] /\ listed' = [listed EXCEPT ![q] = L]
    BY <1>4 DEF BootList, InflightRow
  <2> HIDE DEF L
  <2> QED BY <1>3, <2>1
<1>5. ASSUME NEW q \in Proc, BootWrite(q) \/ ProcessEnds(q)
      PROVE  boot[p] = "writing" /\ listed'[p] = listed[p]
  <2>1. listed' = [listed EXCEPT ![q] = {}]
    BY <1>5 DEF BootWrite, ProcessEnds
  <2>2. boot' = [boot EXCEPT ![q] = "up"] \/ boot' = [boot EXCEPT ![q] = "down"]
    BY <1>5 DEF BootWrite, ProcessEnds
  <2> QED BY <1>3, <2>1, <2>2
<1>6. ASSUME NEW q \in Proc, BootRead(q), q # p PROVE boot'[p] = boot[p] /\ listed'[p] = listed[p]
  BY <1>0, <1>6 DEF BootRead
<1>7. CASE UNCHANGED hostVars
  BY <1>7 DEF hostVars, process
<1> QED BY <1>1, <1>2, <1>4, <1>5, <1>6, <1>7 DEF HostNext, Start

LEMMA RowNumbers ==
  ASSUME HostTypes, ListedOnce, NEW p \in Proc, NEW s \in SessionId
  PROVE  \E m \in Nat :
           /\ {Cardinality(BeforeRow(p, r)) : r \in RowsOf(p, s)} = 0 .. m - 1
           /\ \A q, r \in RowsOf(p, s) :
                Cardinality(BeforeRow(p, q)) = Cardinality(BeforeRow(p, r)) => q = r
<1> DEFINE R == RowsOf(p, s)
           T == {r.turn : r \in R}
           Below(n) == {i \in T : i < n}
<1>1. R \subseteq listed[p] /\ (\A r \in R : r.session = s) /\ R \subseteq ListedRow
  BY DEF RowsOf, HostTypes, TablesOK
<1>2. \A q, r \in R : q.turn = r.turn => q = r
  BY <1>1 DEF ListedOnce
<1>3. IsFiniteSet(R)
  <2>1. IsFiniteSet(listed[p])
    BY DEF HostTypes, TablesOK
  <2> HIDE DEF R
  <2> QED BY <1>1, <2>1, FS_Subset
<1>4. T \in SUBSET Nat
  BY <1>1 DEF ListedRow, TurnId
<1>5. IsFiniteSet(T)
  <2> DEFINE g == [r \in R |-> r.turn]
  <2>1. g \in Bijection(R, T)
    <3>1. (\A r \in R : g[r] \in T) /\ (\A i \in T : \E r \in R : g[r] = i)
      OBVIOUS
    <3>2. \A q, r \in R : g[q] = g[r] => q = r
      BY <1>2
    <3> HIDE DEF R, T
    <3> QED BY <3>1, <3>2 DEF Bijection, Injection, Surjection, IsInjective
  <2> HIDE DEF g, R, T
  <2> QED BY <1>3, <2>1, FS_Bijection DEF ExistsBijection
<1>6. ASSUME NEW r \in R PROVE Cardinality(BeforeRow(p, r)) = Cardinality(Below(r.turn))
  <2> DEFINE B == BeforeRow(p, r)
             f == [q \in B |-> q.turn]
  <2>1. B = {q \in R : q.turn < r.turn}
    BY <1>1 DEF BeforeRow, RowsOf
  <2> HIDE DEF B
  <2>2. f \in Bijection(B, Below(r.turn))
    <3>1. \A q \in B : f[q] \in Below(r.turn)
      BY <2>1
    <3>2. \A i \in Below(r.turn) : \E q \in B : f[q] = i
      BY <2>1
    <3>3. \A q, o \in B : f[q] = f[o] => q = o
      BY <1>2, <2>1
    <3> HIDE DEF Below, R
    <3> QED BY <3>1, <3>2, <3>3 DEF Bijection, Injection, Surjection, IsInjective
  <2>3. IsFiniteSet(B)
    <3>1. B \in SUBSET R
      BY <2>1
    <3> HIDE DEF R
    <3> QED BY <1>3, <3>1, FS_Subset
  <2> HIDE DEF f, Below
  <2>4. Cardinality(B) = Cardinality(Below(r.turn))
    BY <2>2, <2>3, FS_Bijection DEF ExistsBijection
  <2> QED BY <2>4 DEF B
<1> HIDE DEF R
<1>7. /\ Cardinality(T) \in Nat
      /\ \A n \in T : Cardinality(Below(n)) \in Nat
      /\ {Cardinality(Below(n)) : n \in T} = 0 .. Cardinality(T) - 1
      /\ \A n, i \in T : n < i => Cardinality(Below(n)) < Cardinality(Below(i))
  <2> HIDE DEF T
  <2> QED BY <1>4, <1>5, RanksAreAnInterval
<1> HIDE DEF Below
<1>8. {Cardinality(BeforeRow(p, r)) : r \in R} = 0 .. Cardinality(T) - 1
  <2>1. {Cardinality(Below(n)) : n \in T} = {Cardinality(Below(r.turn)) : r \in R}
    OBVIOUS
  <2>2. {Cardinality(Below(r.turn)) : r \in R} = {Cardinality(BeforeRow(p, r)) : r \in R}
    BY <1>6
  <2> QED BY <1>7, <2>1, <2>2
<1>9. ASSUME NEW q \in R, NEW r \in R, Cardinality(BeforeRow(p, q)) = Cardinality(BeforeRow(p, r))
      PROVE  q = r
  <2>1. q.turn \in T /\ r.turn \in T /\ q.turn \in Nat /\ r.turn \in Nat
    BY <1>4
  <2>2. Cardinality(Below(q.turn)) = Cardinality(Below(r.turn))
    BY <1>6, <1>9
  <2> HIDE DEF T
  <2>3. ~ (q.turn < r.turn) /\ ~ (r.turn < q.turn)
    BY <1>7, <2>1, <2>2
  <2> QED BY <1>2, <2>1, <2>3
<1> QED BY <1>7, <1>8, <1>9 DEF R

LEMMA ConsecutiveStep ==
  ASSUME HostTypes, HostTypes', OwnInv, LogInv, [HostNext]_hostVars
  PROVE  Consecutive'
<1> SUFFICES ASSUME NEW p \in Proc, boot'[p] = "writing", NEW s \in SessionId
             PROVE  ConsecutiveRows(p, s)'
  BY DEF Consecutive
<1>1. /\ NextEventSequence(s) \in Nat /\ NextEventSequence(s)' \in Nat
      /\ NextEventSequence(s) <= NextEventSequence(s)'
  BY LogGrows, NextGrows
<1>2. CASE boot[p] = "writing" /\ listed'[p] = listed[p]
  <2>1. ConsecutiveRows(p, s) /\ RowsOf(p, s)' = RowsOf(p, s)
    BY <1>2 DEF LogInv, Consecutive, RowsOf
  <2>2. PICK b, m \in Nat : /\ b <= NextEventSequence(s)
                            /\ {r.sequence : r \in RowsOf(p, s)} = b .. b + m - 1
    BY <2>1 DEF ConsecutiveRows
  <2>3. b <= NextEventSequence(s)'
    BY <1>1, <2>2
  <2> QED BY <2>1, <2>2, <2>3 DEF ConsecutiveRows
<1>3. CASE BootRead(p)
  <2> DEFINE n == NextEventSequence(s)
             C(r) == Cardinality(BeforeRow(p, r))
             R == RowsOf(p, s)
             L == {NumberedRow(p, r) : r \in listed[p]}
  <2>0. listed \in [Proc -> SUBSET ListedRow] /\ ListedOnce
    BY DEF HostTypes, TablesOK, OwnInv
  <2>1. listed' = [listed EXCEPT ![p] = L] /\ UNCHANGED events
    BY <1>3 DEF BootRead, NumberedRow, BeforeRow, durable
  <2>2. listed'[p] = L
    <3> HIDE DEF L
    <3> QED BY <2>0, <2>1
  <2>3. NextEventSequence(s)' = n
    BY <2>1 DEF NextEventSequence, EventsOf
  <2>4. \A r \in listed[p] : NumberedRow(p, r).session = r.session
          /\ NumberedRow(p, r).sequence = NextEventSequence(r.session) + C(r)
    BY NumberedRowType
  <2>5. \A r \in R : r \in listed[p] /\ r.session = s /\ C(r) \in Nat
    BY RowsBefore DEF RowsOf
  <2>6. PICK m \in Nat : /\ {C(r) : r \in R} = 0 .. m - 1
                         /\ \A q, r \in R : C(q) = C(r) => q = r
    BY <2>0, RowNumbers
  <2> HIDE DEF C
  <2>7. RowsOf(p, s)' = {NumberedRow(p, r) : r \in R}
    BY <2>2, <2>4 DEF RowsOf
  <2>8. \A r \in R : NumberedRow(p, r).sequence = n + C(r)
    BY <2>4, <2>5
  <2> HIDE DEF n, R, L
  <2>9. {q.sequence : q \in RowsOf(p, s)'} = {n + C(r) : r \in R}
    BY <2>7, <2>8
  <2>10. n \in Nat
    BY <1>1 DEF n
  <2>11. {n + C(r) : r \in R} = n .. n + m - 1
    <3>1. \A i \in n .. n + m - 1 : \E r \in R : i = n + C(r)
      <4> SUFFICES ASSUME NEW i \in n .. n + m - 1 PROVE \E r \in R : i = n + C(r)
        OBVIOUS
      <4>1. i - n \in 0 .. m - 1
        BY <2>10
      <4>2. PICK r \in R : i - n = C(r)
        BY <2>6, <4>1
      <4>3. i = n + C(r)
        BY <2>10, <4>2
      <4> QED BY <4>3
    <3>2. \A r \in R : n + C(r) \in n .. n + m - 1
      <4> SUFFICES ASSUME NEW r \in R PROVE n + C(r) \in n .. n + m - 1
        OBVIOUS
      <4>1. C(r) \in 0 .. m - 1
        BY <2>6
      <4> QED BY <2>10, <4>1
    <3> QED BY <3>1, <3>2
  <2>12. ASSUME NEW x \in RowsOf(p, s)', NEW y \in RowsOf(p, s)', x.sequence = y.sequence
         PROVE  x = y
    <3>1. PICK q \in R : x = NumberedRow(p, q)
      BY <2>7
    <3>2. PICK r \in R : y = NumberedRow(p, r)
      BY <2>7
    <3>3. C(q) = C(r)
      <4>1. n + C(q) = n + C(r) /\ C(q) \in Nat /\ C(r) \in Nat
        BY <2>5, <2>8, <2>12, <3>1, <3>2
      <4> QED BY <2>10, <4>1
    <3> QED BY <2>6, <3>1, <3>2, <3>3
  <2>13. n <= NextEventSequence(s)'
    BY <2>3, <2>10
  <2> QED BY <2>6, <2>9, <2>10, <2>11, <2>12, <2>13 DEF ConsecutiveRows
<1> QED BY <1>2, <1>3, WritingStays


LEMMA LogStep ==
  ASSUME HostTypes, OwnInv, LogInv, [HostNext]_hostVars
  PROVE  LogInv'
<1>1. HostTypes' /\ OwnInv'
  BY StepTypes, StutterTypes, OwnStep
<1>2. OneTerminalEvent'
  BY EndStep DEF OwnInv, LogInv
<1>3. Gapless' /\ Distinct'
  <2>1. Gapless /\ Distinct
    BY DEF LogInv
  <2> QED BY <1>1, <2>1, LogGrows, LogContinued
<1>4. InOrder' /\ NotAhead' /\ Consecutive'
  BY <1>1, OrderStep, NotAheadStep, ConsecutiveStep
<1> QED BY <1>2, <1>3, <1>4 DEF LogInv

LEMMA LogInit == HostInit => LogInv
<1> SUFFICES ASSUME HostInit PROVE LogInv
  OBVIOUS
<1>1. OneTerminalEvent
  BY DEF HostInit, OneTerminalEvent, TerminalEvents, AbsentTurn, TerminalState
<1>2. Gapless
  <2>1. \A s \in SessionId : EventsOf(s) = {}
    BY DEF HostInit, EventsOf
  <2>2. \A s \in SessionId : Numbers(s) = {} /\ NextEventSequence(s) = 0
    BY <2>1 DEF Numbers, NextEventSequence
  <2>3. 0 .. 0 - 1 = {}
    OBVIOUS
  <2> QED BY <2>2, <2>3 DEF Gapless
<1>3. Distinct /\ InOrder /\ NotAhead /\ Consecutive
  BY DEF HostInit, Distinct, InOrder, NotAhead, WillNumber, Consecutive
<1> QED BY <1>1, <1>2, <1>3 DEF LogInv

(* A log without a gap and a double has as many events as its next number  *)
LEMMA LogCounts ==
  ASSUME HostTypes, Gapless, Distinct, NEW s \in SessionId
  PROVE  Cardinality(EventsOf(s)) = NextEventSequence(s)
<1> DEFINE n == NextEventSequence(s)
           E == EventsOf(s)
           N == Numbers(s)
           f == [e \in E |-> e.sequence]
<1>1. n \in Nat /\ N = 0 .. n - 1
  BY NextBounded DEF NextBounds, Gapless
<1>2. f \in Bijection(E, N)
  <2>1. (\A e \in E : f[e] \in N) /\ (\A i \in N : \E e \in E : f[e] = i)
    BY DEF Numbers
  <2>2. \A d, e \in E : f[d] = f[e] => d = e
    BY DEF Distinct, EventsOf
  <2> HIDE DEF E, N
  <2> QED BY <2>1, <2>2 DEF Bijection, Injection, Surjection, IsInjective
<1> HIDE DEF E, N, f, n
<1>3. IsFiniteSet(N) /\ Cardinality(N) = n
  <2>1. IsFiniteSet(0 .. n - 1) /\ Cardinality(0 .. n - 1) = IF 0 > n - 1 THEN 0 ELSE (n - 1) - 0 + 1
    BY <1>1, FS_Interval
  <2> QED BY <1>1, <2>1
<1>4. ExistsBijection(N, E)
  BY <1>2, Fun_ExistsBijSymmetric DEF ExistsBijection
<1>5. Cardinality(E) = Cardinality(N)
  BY <1>3, <1>4, FS_Bijection DEF ExistsBijection
<1> QED BY <1>3, <1>5 DEF E, n

(* The log of a session is numbered from 0 on without a gap or a double,   *)
(* and a turn's events are in the order of its life, whatever the tasks of *)
(* the processes that share the database do between reading a number and   *)
(* using it (agent_use_cases.rs:286, sqlite/agents.rs:211)                 *)
THEOREM LogOrdered == HostSpec => []LogIsOrdered
<1>1. HostInit => HostTypes /\ OwnInv /\ LogInv
  BY InitTypes, OwnInit, LogInit
<1>2. (HostTypes /\ OwnInv /\ LogInv) /\ [HostNext]_hostVars => (HostTypes /\ OwnInv /\ LogInv)'
  BY StepTypes, StutterTypes, OwnStep, LogStep
<1>3. HostTypes /\ OwnInv /\ LogInv => LogIsOrdered
  <2> SUFFICES ASSUME HostTypes, LogInv PROVE LogIsOrdered
    OBVIOUS
  <2>1. Gapless /\ Distinct /\ InOrder
    BY DEF LogInv
  <2>2. \A s \in SessionId : Numbers(s) = 0 .. Cardinality(EventsOf(s)) - 1
    BY <2>1, LogCounts DEF Gapless
  <2> QED BY <2>1, <2>2 DEF LogIsOrdered, Numbers, InOrder
<1> QED BY <1>1, <1>2, <1>3, PTL DEF HostSpec


---------------------------------------------------------------------------
(* Cancellation                                                            *)

(* A cancelled turn keeps its token cancelled until its command ends, and  *)
(* no command is about to complete it; the output limit only fails a turn  *)
CancelOK(k) ==
  pc[k] \in HasTurn =>
    /\ pc[k] # "recover" => turns[loc[k].turn].state # "completed"
    /\ pc[k] \in FinishPC /\ loc[k].return = "delta" => loc[k].goal = "failed"
    /\ loc[k].turn \in revoked =>
         /\ pc[k] # "assemble" /\ token[k]
         /\ pc[k] \in FinishPC => loc[k].goal # "completed"

CancelInv ==
  /\ \A k \in Task : CancelOK(k)
  /\ \A t \in revoked : turns[t].state \notin {"completed", "absent"}

(* A token that is cancelled stays so while its command goes on after the  *)
(* start of the send                                                       *)
LEMMA TokenStays ==
  ASSUME HostTypes, [HostNext]_hostVars, NEW j \in Task, token[j], pc'[j] # "idle", pc[j] # "assemble"
  PROVE  token'[j]
<1>0. pc \in [Task -> PC] /\ token \in [Task -> BOOLEAN]
  BY DEF HostTypes, HostTypeOK
<1>1. ASSUME NEW k \in Task, Ends(k) PROVE token'[j]
  <2>1. k # j
    BY <1>0, <1>1 DEF Ends
  <2> QED BY <1>0, <1>1, <2>1 DEF Ends
<1>2. ASSUME NEW k \in Task, SendStart(k) PROVE token'[j]
  <2>1. k # j
    BY <1>2 DEF SendStart
  <2>2. UNCHANGED token \/ token' = [token EXCEPT ![k] = FALSE]
    BY <1>2 DEF SendStart
  <2> QED BY <1>0, <2>1, <2>2
<1>3. ASSUME NEW k \in Task, TaskStep(k) \/ StoreFails(k) \/ Command(k)
      PROVE  UNCHANGED token \/ Ends(k) \/ SendStart(k)
  <2>1. CASE Command(k)
    BY <2>1 DEF Command, SendBegin, SetProjectBegin, PickBegin, PickEnd
  <2>2. CASE StoreFails(k)
    BY <2>2 DEF StoreFails, FinishReturns, Goes
  <2>3. CASE TaskStep(k)
    BY <2>3 DEF TaskStep, ReadInflight, ReadSession, ReadHistory, ReadOrdinal, ReadSequence,
       CreateSession, AppendTurn, Refresh, StreamCancelled, StreamDelta, StreamCompleted,
       StreamFails, DeltaReadTurn, DeltaReadSequence, DeltaWrite, Finalize, FinishReadTurn,
       FinishReadSession, FinishReadSequence, FinishWrite, Recover, SetProjectReadSession,
       SetProjectReadSequence, SetProjectWrite, Goes, FinishReturns
  <2> QED BY <1>3, <2>1, <2>2, <2>3
<1>4. ASSUME NEW p \in Proc, CancelAgentTurn(p) PROVE token'[j]
  <2>1. PICK k \in Task : token' = [token EXCEPT ![k] = TRUE]
    BY <1>4 DEF CancelAgentTurn
  <2> QED BY <1>0, <2>1
<1>5. ASSUME NEW p \in Proc, ProcessEnds(p) PROVE token'[j]
  <2>1. ProcOf[j] # p
    BY <1>5 DEF ProcessEnds
  <2> QED BY <1>0, <1>5, <2>1 DEF ProcessEnds
<1>6. ASSUME NEW p \in Proc, ClearDraft(p) \/ SetScope(p) \/ SaveRead(p) \/ SaveWrite(p) \/ Start(p)
      PROVE  UNCHANGED token
  BY <1>6 DEF ClearDraft, SetScope, SaveRead, SaveWrite, Start, BootList, BootRead, BootWrite
<1>7. CASE UNCHANGED hostVars
  BY <1>7 DEF hostVars
<1> QED BY <1>1, <1>2, <1>3, <1>4, <1>5, <1>6, <1>7 DEF HostNext

LEMMA TasksDoNotRevoke ==
  ASSUME NEW k \in Task, TaskStep(k) \/ StoreFails(k) \/ Command(k)
  PROVE  UNCHANGED revoked
<1>1. CASE Command(k)
  BY <1>1 DEF Command, SendBegin, SetProjectBegin, PickBegin, PickEnd, history
<1>2. CASE StoreFails(k)
  BY <1>2 DEF StoreFails, history
<1>3. CASE TaskStep(k)
  BY <1>3 DEF TaskStep, ReadInflight, ReadSession, ReadHistory, ReadOrdinal, ReadSequence,
     CreateSession, AppendTurn, SendStart, Refresh, StreamCancelled, StreamDelta,
     StreamCompleted, StreamFails, DeltaReadTurn, DeltaReadSequence, DeltaWrite, Finalize,
     FinishReadTurn, FinishReadSession, FinishReadSequence, FinishWrite, Recover,
     SetProjectReadSession, SetProjectReadSequence, SetProjectWrite, history
<1> QED BY <1>1, <1>2, <1>3

(* Only cancel_agent_turn revokes, and then the token is cancelled too     *)
LEMMA Revokes ==
  ASSUME HostTypes, OwnInv, [HostNext]_hostVars
  PROVE  \/ UNCHANGED revoked
         \/ \E k \in Task :
              /\ pc[k] \in {"refresh", "stream", "finalize"} \cup DeltaPC
              /\ loc[k].turn \in TurnId /\ revoked' = revoked \cup {loc[k].turn} /\ token'[k]
              /\ UNCHANGED <<durable, pc, loc>>
<1>1. ASSUME NEW k \in Task, TaskStep(k) \/ StoreFails(k) \/ Command(k) PROVE UNCHANGED revoked
  BY <1>1, TasksDoNotRevoke
<1>2. ASSUME NEW p \in Proc, ClearDraft(p) \/ SetScope(p) \/ SaveRead(p) \/ SaveWrite(p) \/ Start(p)
                             \/ ProcessEnds(p)
      PROVE  UNCHANGED revoked
  BY <1>2 DEF ClearDraft, SetScope, SaveRead, SaveWrite, Start, BootList, BootRead, BootWrite,
     ProcessEnds, history
<1>3. ASSUME NEW p \in Proc, CancelAgentTurn(p)
      PROVE  \/ UNCHANGED revoked
             \/ \E k \in Task :
                  /\ pc[k] \in {"refresh", "stream", "finalize"} \cup DeltaPC
                  /\ loc[k].turn \in TurnId /\ revoked' = revoked \cup {loc[k].turn} /\ token'[k]
                  /\ UNCHANGED <<durable, pc, loc>>
  <2>1. PICK k \in Task :
          /\ loc[k].turn = slot[p] /\ token' = [token EXCEPT ![k] = TRUE]
          /\ revoked' = revoked \cup
               (IF pc[k] \in {"refresh", "stream", "finalize"} \cup DeltaPC THEN {slot[p]} ELSE {})
    BY <1>3 DEF CancelAgentTurn
  <2>2. slot[p] \in TurnId /\ token'[k] /\ UNCHANGED <<durable, pc, loc>>
    BY <1>3, <2>1 DEF CancelAgentTurn, HostTypes, HostTypeOK
  <2> QED BY <2>1, <2>2
<1>4. CASE UNCHANGED hostVars
  BY <1>4 DEF hostVars, history
<1> QED BY <1>1, <1>2, <1>3, <1>4 DEF HostNext

(* A turn is completed by its own command, which is about to do so         *)
LEMMA Completes ==
  ASSUME HostTypes, OwnInv, [HostNext]_hostVars, NEW t \in TurnId,
         turns'[t].state = "completed", turns[t].state # "completed"
  PROVE  \E k \in Task : /\ FinishWrite(k) /\ pc[k] = "finWrite" /\ loc[k].turn = t
                         /\ loc[k].goal = "completed"
<1>0. turns[t] \in TurnRow
  BY DEF HostTypes, HostTypeOK, TurnRow
<1>1. ASSUME NEW k \in Task, NEW s \in SessionId, turns'[t] = PendingTurn(k, s) PROVE FALSE
  BY <1>1 DEF PendingTurn
<1>2. ASSUME NEW p \in Proc, turns'[t] = InterruptedRow(p, t), \E r \in listed[p] : r.turn = t PROVE FALSE
  BY <1>2, InterruptedRowType
<1>3. ASSUME NEW k \in Task, DeltaWrite(k),
             turns'[t] = [turns[t] EXCEPT !.text = loc[k].text, !.state = loc[k].state]
      PROVE  FALSE
  <2>1. pc[k] = "deltaWrite"
    BY <1>3 DEF DeltaWrite
  <2>2. loc[k].state \in InflightState
    BY <2>1 DEF OwnInv, DeltaInv, DeltaOK
  <2> QED BY <1>0, <1>3, <2>2 DEF TurnRow, InflightState
<1>4. ASSUME NEW k \in Task, FinishWrite(k), loc[k].turn = t,
             turns'[t] = [turns[t] EXCEPT !.state = loc[k].goal, !.text = loc[k].text,
                            !.code = CodeFor(loc[k].goal, loc[k].code)]
      PROVE  pc[k] = "finWrite" /\ loc[k].goal = "completed"
  BY <1>0, <1>4 DEF TurnRow, FinishWrite
<1>5. \/ turns'[t] = turns[t]
      \/ /\ turns[t].state = "absent"
         /\ \E k \in Task, s \in SessionId :
              /\ CreateSession(k) \/ AppendTurn(k)
              /\ turns'[t] = PendingTurn(k, s)
      \/ /\ Inflight(t)
         /\ \E p \in Proc : /\ BootWrite(p) /\ turns'[t] = InterruptedRow(p, t)
                            /\ \E r \in listed[p] : r.turn = t
      \/ /\ Inflight(t)
         /\ \E k \in Task :
              /\ DeltaWrite(k) /\ pc[k] \in HasTurn /\ loc[k].turn = t
              /\ turns'[t] = [turns[t] EXCEPT !.text = loc[k].text, !.state = loc[k].state]
      \/ /\ Inflight(t)
         /\ \E k \in Task :
              /\ FinishWrite(k) /\ pc[k] \in HasTurn /\ loc[k].turn = t
              /\ turns'[t] = [turns[t] EXCEPT !.state = loc[k].goal, !.text = loc[k].text,
                                !.code = CodeFor(loc[k].goal, loc[k].code)]
  BY TurnWriters
<1>6. PICK k \in Task :
        /\ FinishWrite(k) /\ loc[k].turn = t
        /\ turns'[t] = [turns[t] EXCEPT !.state = loc[k].goal, !.text = loc[k].text,
                          !.code = CodeFor(loc[k].goal, loc[k].code)]
  BY <1>1, <1>2, <1>3, <1>5
<1> QED BY <1>4, <1>6


(* The end of a stream whose token is cancelled completes nothing          *)
LEMMA CancelledNotCompleted ==
  ASSUME NEW r \in ErrorCode \cup {"ok"}, NEW done \in BOOLEAN
  PROVE  Finalization(r, done, TRUE).goal # "completed"
<1>1. CASE r = "ok"
  BY <1>1 DEF Finalization
<1>2. CASE r = "cancelled"
  BY <1>2 DEF Finalization
<1>3. CASE r # "ok" /\ r # "cancelled"
  BY <1>3 DEF Finalization
<1> QED BY <1>1, <1>2, <1>3

LEMMA CancelTaskStep ==
  ASSUME HostTypes, HostTypes', OwnInv, OwnInv', CancelInv, [HostNext]_hostVars,
         NEW j \in Task, pc'[j] \in HasTurn
  PROVE  CancelOK(j)'
<1>0. /\ pc \in [Task -> PC] /\ loc \in [Task -> Locals] /\ loc[j] \in Locals /\ TaskTypeOK(j)
      /\ CancelOK(j) /\ token \in [Task -> BOOLEAN] /\ turns \in [TurnId -> TurnRow]
  BY DEF HostTypes, HostTypeOK, Locals, CancelInv, TurnRow
<1>1. loc'[j].turn \in TurnId
  BY DEF HostTypes, TaskTypeOK
<1>2. \/ Stays(j) /\ pc[j] \in HasTurn
      \/ Carries(j)
      \/ Inserts(j)
  <2>1. ~ Idles(j) /\ ~ Begins(j) /\ ~ Reads(j)
    BY DEF Idles, Begins, Reads, HasTurn, SendPC, PreparePC, DeltaPC, FinishPC, ProjectPC
  <2> QED BY <2>1, TaskCases DEF Stays
<1>3. CASE Inserts(j)
  <2>1. /\ pc'[j] = "assemble" /\ turns[loc'[j].turn].state = "absent"
        /\ turns'[loc'[j].turn] = PendingTurn(j, loc'[j].session)
    BY <1>3, InsertedTurn DEF Inserts
  <2>2. turns'[loc'[j].turn].state = "pending"
    BY <2>1 DEF PendingTurn
  <2>3. UNCHANGED revoked
    <3>1. pc' # pc
      BY <1>3 DEF Inserts
    <3> QED BY <3>1, Revokes
  <2>4. loc'[j].turn \notin revoked'
    BY <2>1, <2>3 DEF CancelInv
  <2>5. pc'[j] \notin FinishPC
    BY <2>1 DEF FinishPC
  <2> QED BY <2>2, <2>4, <2>5 DEF CancelOK
<1>4. CASE Stays(j) /\ pc[j] \in HasTurn
  <2> DEFINE t == loc[j].turn
  <2>1. pc'[j] = pc[j] /\ loc'[j] = loc[j]
    BY <1>4 DEF Stays
  <2>2. pc[j] # "recover" => turns'[t].state # "completed"
    <3> SUFFICES ASSUME pc[j] # "recover", turns'[t].state = "completed" PROVE FALSE
      OBVIOUS
    <3>1. t \in TurnId /\ turns[t].state # "completed"
      BY <1>0, <1>1, <1>4, <2>1 DEF CancelOK
    <3>2. PICK k \in Task : FinishWrite(k) /\ pc[k] = "finWrite" /\ loc[k].turn = t
      BY <3>1, Completes
    <3>3. pc[k] \in HasTurn
      BY <3>2 DEF HasTurn, SendPC, PreparePC, FinishPC
    <3>4. k = j
      BY <1>4, <3>2, <3>3 DEF OwnInv, OwnersDiffer
    <3>5. pc'[k] # "finWrite"
      BY <1>0, <3>2 DEF FinishWrite, FinishReturns, Goes, Ends
    <3> QED BY <2>1, <3>2, <3>4, <3>5
  <2>3. ASSUME t \in revoked'
        PROVE  pc[j] # "assemble" /\ token'[j] /\ (pc[j] \in FinishPC => loc[j].goal # "completed")
    <3>1. CASE t \in revoked
      <4>1. pc[j] # "assemble" /\ token[j] /\ (pc[j] \in FinishPC => loc[j].goal # "completed")
        BY <1>0, <1>4, <3>1 DEF CancelOK
      <4>2. pc'[j] # "idle"
        BY DEF HasTurn, SendPC, PreparePC, DeltaPC, FinishPC
      <4> QED BY <4>1, <4>2, TokenStays
    <3>2. CASE t \notin revoked
      <4>1. PICK k \in Task : /\ pc[k] \in {"refresh", "stream", "finalize"} \cup DeltaPC
                              /\ loc[k].turn = t /\ token'[k]
        BY <2>3, <3>2, Revokes
      <4>2. pc[k] \in HasTurn /\ pc[k] # "assemble" /\ pc[k] \notin FinishPC
        BY <4>1 DEF HasTurn, SendPC, PreparePC, DeltaPC, FinishPC
      <4>3. k = j
        BY <1>4, <4>1, <4>2 DEF OwnInv, OwnersDiffer
      <4> QED BY <4>1, <4>2, <4>3
    <3> QED BY <3>1, <3>2
  <2> QED BY <1>0, <1>4, <2>1, <2>2, <2>3 DEF CancelOK
<1>5. CASE Carries(j)
  <2> DEFINE t == loc[j].turn
  <2>1. /\ pc[j] \in HasTurn /\ loc'[j].turn = t /\ t \in TurnId /\ (TaskStep(j) \/ StoreFails(j))
    BY <1>1, <1>5 DEF Carries
  <2>2. UNCHANGED revoked
    BY <2>1, TasksDoNotRevoke
  <2>3. pc'[j] # "recover" => turns'[t].state # "completed"
    <3> SUFFICES ASSUME turns'[t].state = "completed" PROVE pc'[j] = "recover"
      OBVIOUS
    <3>1. CASE turns[t].state = "completed"
      <4>1. pc[j] = "recover"
        BY <1>0, <2>1, <3>1 DEF CancelOK
      <4>2. Recover(j)
        BY <2>1, <4>1 DEF TaskStep, StoreFails, ReadInflight, ReadSession, ReadHistory, ReadOrdinal,
           ReadSequence, CreateSession, AppendTurn, SendStart, Refresh, StreamCancelled, StreamDelta,
           StreamCompleted, StreamFails, DeltaReadTurn, DeltaReadSequence, DeltaWrite, Finalize,
           FinishReadTurn, FinishReadSession, FinishReadSequence, FinishWrite, SetProjectReadSession,
           SetProjectReadSequence, SetProjectWrite, StorePC, PreparePC, DeltaPC, FinishPC, ProjectPC
      <4>3. pc'[j] = "idle"
        BY <1>0, <4>2 DEF Recover, Ends
      <4> QED BY <4>3 DEF HasTurn, SendPC, PreparePC, DeltaPC, FinishPC
    <3>2. CASE turns[t].state # "completed"
      <4>1. PICK k \in Task : FinishWrite(k) /\ pc[k] = "finWrite" /\ loc[k].turn = t
                              /\ loc[k].goal = "completed"
        BY <2>1, <3>2, Completes
      <4>2. k = j
        <5>1. pc[k] \in HasTurn
          BY <4>1 DEF HasTurn, SendPC, PreparePC, FinishPC
        <5> QED BY <2>1, <4>1, <5>1 DEF OwnInv, OwnersDiffer
      <4>3. loc[j].return # "delta"
        BY <1>0, <2>1, <4>1, <4>2 DEF CancelOK, FinishPC
      <4>4. pc'[j] \in {"recover", "idle"}
        BY <1>0, <4>1, <4>2, <4>3 DEF FinishWrite, FinishReturns, Goes, Ends
      <4>5. pc'[j] # "idle"
        BY DEF HasTurn, SendPC, PreparePC, DeltaPC, FinishPC
      <4> QED BY <4>4, <4>5
    <3> QED BY <3>1, <3>2
  <2>4. ASSUME pc'[j] = "finTurn"
        PROVE  loc'[j].return = "end" /\ (t \in revoked => loc'[j].goal # "completed")
    <3>0. ASSUME NEW g, NEW c, Finishes(j, g, c, "end")
          PROVE  loc'[j].return = "end" /\ loc'[j].goal = g
      BY <1>0, <3>0 DEF Finishes, Locals
    <3>1. SendStart(j) \/ Refresh(j) \/ Finalize(j)
      BY <2>1, <2>4, Arrivals
    <3>2. CASE SendStart(j)
      <4>1. t \notin revoked
        BY <1>0, <2>1, <3>2 DEF CancelOK, SendStart
      <4>2. \E g, c : Finishes(j, g, c, "end")
        BY <1>0, <2>4, <3>2 DEF SendStart
      <4> QED BY <3>0, <4>1, <4>2
    <3>3. CASE Refresh(j)
      <4>1. \E g, c : Finishes(j, g, c, "end") /\ g # "completed"
        BY <1>0, <2>4, <3>3 DEF Refresh
      <4> QED BY <3>0, <4>1
    <3>4. CASE Finalize(j)
      <4>1. ~ Ends(j)
        BY <1>0, <2>4 DEF Ends
      <4> DEFINE f == Finalization(loc[j].result, loc[j].completed, token[j])
      <4>2. Finishes(j, f.goal, f.code, "end")
        BY <3>4, <4>1 DEF Finalize
      <4>3. t \in revoked => token[j] = TRUE
        BY <1>0, <2>1 DEF CancelOK
      <4>4. t \in revoked => f.goal # "completed"
        <5>1. loc[j].result \in ErrorCode \cup {"ok"} /\ loc[j].completed \in BOOLEAN
          BY <1>0 DEF Locals
        <5> QED BY <4>3, <5>1, CancelledNotCompleted
      <4> HIDE DEF f
      <4> QED BY <3>0, <4>2, <4>4
    <3> QED BY <3>1, <3>2, <3>3, <3>4
  <2>5. ASSUME pc'[j] \in FinishPC, pc'[j] # "finTurn"
        PROVE  /\ loc'[j].return = "delta" => loc'[j].goal = "failed"
               /\ t \in revoked => loc'[j].goal # "completed"
    <3>1. \/ FinishReadTurn(j) \/ DeltaReadTurn(j) \/ FinishReadSession(j) \/ FinishReadSequence(j)
      <4>1. pc'[j] \in {"finSession", "finSeq", "finWrite"}
        BY <2>5 DEF FinishPC
      <4> QED BY <2>1, <4>1, Arrivals
    <3>2. CASE DeltaReadTurn(j)
      <4>1. loc'[j].goal = "failed"
        BY <1>0, <2>5, <3>2 DEF DeltaReadTurn, StreamEnds, FinishPC, Locals
      <4> QED BY <4>1
    <3>3. CASE FinishReadTurn(j) \/ FinishReadSession(j) \/ FinishReadSequence(j)
      <4>1. pc[j] \in FinishPC
        BY <3>3 DEF FinishReadTurn, FinishReadSession, FinishReadSequence, FinishPC
      <4>2. loc'[j].goal = loc[j].goal /\ loc'[j].return = loc[j].return
        <5>1. CASE FinishReadTurn(j)
          <6>1. ~ FinishReturns(j, FALSE)
            BY <1>0, <2>5 DEF FinishReturns, Goes, Ends, FinishPC
          <6>2. loc' = [loc EXCEPT ![j].text = turns[loc[j].turn].text]
            BY <5>1, <6>1 DEF FinishReadTurn
          <6> QED BY <1>0, <6>2 DEF Locals
        <5>2. CASE FinishReadSession(j) \/ FinishReadSequence(j)
          BY <1>0, <5>2 DEF FinishReadSession, FinishReadSequence, Locals
        <5> QED BY <3>3, <5>1, <5>2
      <4> QED BY <1>0, <2>1, <4>1, <4>2 DEF CancelOK
    <3> QED BY <3>1, <3>2, <3>3
  <2>6. ASSUME t \in revoked PROVE pc'[j] # "assemble" /\ token'[j]
    <3>1. pc[j] # "assemble" /\ token[j]
      BY <1>0, <2>1, <2>6 DEF CancelOK
    <3>2. pc'[j] # "idle"
      BY DEF HasTurn, SendPC, PreparePC, DeltaPC, FinishPC
    <3>3. pc[j] # "append"
      BY <2>1 DEF HasTurn, SendPC, PreparePC
    <3>4. pc'[j] # "assemble"
      BY <2>1, <3>3, Arrivals DEF CreateSession, AppendTurn
    <3> QED BY <3>1, <3>2, <3>4, TokenStays
  <2> QED BY <2>1, <2>2, <2>3, <2>4, <2>5, <2>6 DEF CancelOK
<1> QED BY <1>2, <1>3, <1>4, <1>5

LEMMA CancelStep ==
  ASSUME HostTypes, OwnInv, CancelInv, [HostNext]_hostVars
  PROVE  CancelInv'
<1>1. HostTypes' /\ OwnInv'
  BY StepTypes, StutterTypes, OwnStep
<1>2. \A k \in Task : CancelOK(k)'
  BY <1>1, CancelTaskStep DEF CancelOK
<1>3. ASSUME NEW t \in revoked' PROVE turns'[t].state \notin {"completed", "absent"}
  <2>1. CASE t \in revoked
    <3>1. t \in TurnId /\ turns[t].state \notin {"completed", "absent"}
      BY <2>1 DEF CancelInv, HostTypes, HostTypeOK
    <3>2. turns'[t].state # "absent"
      BY <3>1, RowsLast DEF OwnInv, Lasting
    <3>3. ASSUME turns'[t].state = "completed" PROVE FALSE
      <4>1. PICK k \in Task : /\ FinishWrite(k) /\ pc[k] = "finWrite" /\ loc[k].turn = t
                              /\ loc[k].goal = "completed"
        BY <3>1, <3>3, Completes
      <4>2. pc[k] \in HasTurn /\ pc[k] \in FinishPC
        BY <4>1 DEF HasTurn, SendPC, PreparePC, FinishPC
      <4> QED BY <2>1, <4>1, <4>2 DEF CancelInv, CancelOK
    <3> QED BY <3>2, <3>3
  <2>2. CASE t \notin revoked
    <3>1. PICK k \in Task :
            /\ pc[k] \in {"refresh", "stream", "finalize"} \cup DeltaPC
            /\ loc[k].turn = t /\ UNCHANGED <<durable, pc, loc>>
      BY <1>3, <2>2, Revokes
    <3>2. pc[k] \in HasTurn /\ pc[k] # "recover"
      BY <3>1 DEF HasTurn, SendPC, PreparePC, DeltaPC, FinishPC
    <3>3. turns[t].state # "completed"
      BY <3>1, <3>2 DEF CancelInv, CancelOK
    <3>4. turns[t].state # "absent"
      BY <3>1, <3>2 DEF OwnInv, TaskOwns
    <3>5. turns' = turns
      BY <3>1 DEF durable
    <3> QED BY <3>3, <3>4, <3>5
  <2> QED BY <2>1, <2>2
<1> QED BY <1>2, <1>3 DEF CancelInv

(* A cancellation that is accepted before the end of the stream is acted   *)
(* on keeps the turn from completing, even when the provider had completed *)
(* it, whatever the store and the other processes do (agents.rs:674, 1086) *)
THEOREM CancelHeeded == HostSpec => []CancelIsHeeded
<1>1. HostInit => HostTypes /\ OwnInv /\ CancelInv
  <2>1. "idle" \notin HasTurn
    BY DEF HasTurn, SendPC, PreparePC, DeltaPC, FinishPC
  <2>2. HostInit => CancelInv
    BY <2>1 DEF HostInit, CancelInv, CancelOK
  <2> QED BY <2>2, InitTypes, OwnInit
<1>2. (HostTypes /\ OwnInv /\ CancelInv) /\ [HostNext]_hostVars => (HostTypes /\ OwnInv /\ CancelInv)'
  BY StepTypes, StutterTypes, OwnStep, CancelStep
<1>3. CancelInv => CancelIsHeeded
  BY DEF CancelInv, CancelIsHeeded
<1> QED BY <1>1, <1>2, <1>3, PTL DEF HostSpec


---------------------------------------------------------------------------
(* What a process that owns the database can rely on                       *)

Sole == \E p \in Proc : Alone(p)

LEMMA SoleBefore ==
  ASSUME HostTypes, [HostNext]_hostVars, Sole'
  PROVE  Sole
<1>0. boot \in [Proc -> {"new", "down", "listing", "writing", "up"}]
  BY DEF HostTypes, HostTypeOK
<1>1. ASSUME NEW k \in Task, TaskStep(k) \/ StoreFails(k) \/ Command(k) PROVE UNCHANGED boot
  BY <1>1, TaskShape DEF Command, SendBegin, SetProjectBegin, PickBegin, PickEnd
<1>2. ASSUME NEW q \in Proc, CancelAgentTurn(q) \/ ClearDraft(q) \/ SetScope(q) \/ SaveRead(q)
                             \/ SaveWrite(q)
      PROVE  UNCHANGED boot
  BY <1>2 DEF CancelAgentTurn, ClearDraft, SetScope, SaveRead, SaveWrite, process
<1>3. ASSUME NEW q \in Proc, Start(q) \/ ProcessEnds(q)
      PROVE  \E b : b # "new" /\ boot' = [boot EXCEPT ![q] = b]
  BY <1>3 DEF Start, BootList, BootRead, BootWrite, ProcessEnds
<1>4. \/ UNCHANGED boot
      \/ \E q \in Proc : \E b : b # "new" /\ boot' = [boot EXCEPT ![q] = b]
  <2>1. CASE UNCHANGED hostVars
    BY <2>1 DEF hostVars, process
  <2> QED BY <1>1, <1>2, <1>3, <2>1 DEF HostNext
<1>5. \A q \in Proc : boot'[q] = "new" => boot[q] = "new"
  BY <1>0, <1>4
<1> QED BY <1>5 DEF Sole, Alone

(* One command at most is under way, and none during a start-up            *)
LEMMA SoleActor ==
  ASSUME HostTypes, GateInv, Sole
  PROVE  /\ \A j, k \in Task : pc[j] # "idle" /\ pc[k] # "idle" => j = k
         /\ \A q \in Proc : boot[q] \in {"listing", "writing"} => \A k \in Task : pc[k] = "idle"
         /\ \A q, r \in Proc : boot[q] # "new" /\ boot[r] # "new" => q = r
<1>1. PICK p \in Proc : Alone(p)
  BY DEF Sole
<1>2. \A q \in Proc : boot[q] # "new" => q = p
  BY <1>1 DEF Alone
<1>3. \A k \in Task : ProcOf[k] \in Proc
  BY HostAssumption
<1>4. ASSUME NEW k \in Task, pc[k] # "idle" PROVE boot[ProcOf[k]] = "up" /\ ProcOf[k] = p
  <2>1. Busy(ProcOf[k]) /\ GateOf(ProcOf[k])
    BY <1>3, <1>4 DEF Busy, GateInv
  <2>2. boot[ProcOf[k]] = "up"
    BY <2>1 DEF GateOf
  <2> QED BY <1>2, <1>3, <2>2
<1>5. \A j, k \in Task : pc[j] # "idle" /\ pc[k] # "idle" => j = k
  BY <1>3, <1>4 DEF GateInv, GateOf
<1>6. ASSUME NEW q \in Proc, boot[q] \in {"listing", "writing"}, NEW k \in Task, pc[k] # "idle"
      PROVE  FALSE
  BY <1>2, <1>4, <1>6
<1> QED BY <1>2, <1>5, <1>6

LEMMA SoleWriter ==
  ASSUME HostTypes, GateInv, Sole, [HostNext]_hostVars, NEW j \in Task, pc[j] # "idle", Stays(j)
  PROVE  UNCHANGED durable
<1>0. pc \in [Task -> PC]
  BY DEF HostTypes, HostTypeOK
<1>1. ASSUME NEW k \in Task, CreateSession(k) \/ AppendTurn(k) \/ DeltaWrite(k) \/ FinishWrite(k)
                             \/ SetProjectWrite(k)
      PROVE  pc[k] # "idle" /\ pc'[k] # pc[k]
  BY <1>0, <1>1 DEF CreateSession, AppendTurn, DeltaWrite, FinishWrite, SetProjectWrite, Goes, Ends,
     StreamEnds, FinishReturns
<1>2. ASSUME NEW k \in Task, CreateSession(k) \/ AppendTurn(k) \/ DeltaWrite(k) \/ FinishWrite(k)
                             \/ SetProjectWrite(k)
      PROVE  FALSE
  <2>1. k = j
    BY <1>1, <1>2, SoleActor
  <2> QED BY <1>1, <1>2, <2>1 DEF Stays
<1>3. ASSUME NEW q \in Proc, BootWrite(q) PROVE FALSE
  BY <1>3, SoleActor DEF BootWrite
<1> QED BY <1>2, <1>3, Writes

(* The completed history changes only when a turn is completed             *)
LEMMA HistoryKept ==
  ASSUME HostTypes, HostTypes', OwnInv, [HostNext]_hostVars, \A k \in Task : ~ FinishWrite(k)
  PROVE  \A s : CompletedHistory(turns', s) = CompletedHistory(turns, s)
<1>1. DOMAIN turns = TurnId /\ DOMAIN turns' = TurnId
  BY DEF HostTypes, HostTypeOK
<1>2. Lasting
  BY RowsLast DEF OwnInv
<1>3. \A t \in TurnId : turns[t].state = "completed" => turns'[t] = turns[t]
  BY <1>2 DEF Lasting, TerminalState
<1>4. \A t \in TurnId : turns'[t].state = "completed" => turns[t].state = "completed"
  BY Completes
<1> QED BY <1>1, <1>3, <1>4 DEF CompletedHistory

(* What a command has read, when no other command was between               *)
HasPast(k) == \/ pc[k] \in {"ordinal", "sequence", "assemble", "refresh", "stream"} \cup DeltaPC
              \/ pc[k] = "append" /\ loc[k].session # None

HasSeen(k) == \/ pc[k] \in {"history", "ordinal", "sequence", "finSeq", "finWrite"}
              \/ pc[k] = "append" /\ loc[k].session # None

SoleTask(k) ==
  /\ pc[k] \in PreparePC \ {"inflight"} => ~ HasInflightTurn
  /\ pc[k] = "inflight" \/ (pc[k] = "append" /\ loc[k].session = None) => loc[k].past = {}
  /\ HasPast(k) => loc[k].past = CompletedHistory(turns, loc[k].session)
  /\ HasSeen(k) => loc[k].seen = sessions[loc[k].session].project

SoleTables ==
  /\ \A t, u \in TurnId : Inflight(t) /\ Inflight(u) => t = u
  /\ \A s \in SessionId : sessions[s].project = assigned[s]
  /\ \A p \in Proc : boot[p] = "writing" =>
       \A r \in listed[p] : r.seen = sessions[r.session].project

SoleInv == Sole => SoleTables /\ \A k \in Task : SoleTask(k)

LEMMA SoleTaskStep ==
  ASSUME HostTypes, HostTypes', GateInv, OwnInv, Sole, [HostNext]_hostVars,
         NEW j \in Task, SoleTask(j)
  PROVE  SoleTask(j)'
<1>0. /\ pc \in [Task -> PC] /\ loc \in [Task -> Locals] /\ loc[j] \in Locals
      /\ sessions \in [SessionId -> [live : BOOLEAN, project : AnyProject]]
  BY DEF HostTypes, HostTypeOK, Locals
<1>1. ASSUME UNCHANGED durable, Stays(j) PROVE SoleTask(j)'
  <2>1. turns' = turns /\ sessions' = sessions /\ pc'[j] = pc[j] /\ loc'[j] = loc[j]
    BY <1>1 DEF durable, Stays
  <2> QED BY <2>1 DEF SoleTask, HasInflightTurn, Inflight, HasPast, HasSeen
<1>2. ASSUME pc'[j] \in {"idle", "pick", "pjSession", "pjSeq", "pjWrite"} PROVE SoleTask(j)'
  BY <1>2 DEF SoleTask, HasPast, HasSeen, PreparePC, DeltaPC
<1>3. CASE Stays(j)
  BY <1>1, <1>2, <1>3, SoleWriter DEF Stays
<1>4. CASE Idles(j)
  BY <1>2, <1>4 DEF Idles
<1>5. CASE Begins(j)
  <2>1. CASE pc'[j] # "inflight"
    BY <1>2, <1>5, <2>1 DEF Begins
  <2>2. CASE pc'[j] = "inflight"
    <3>1. SendBegin(j)
      BY <1>0, <1>5, <2>2 DEF Begins, Command, SetProjectBegin, PickBegin, PickEnd, Ends
    <3>2. loc'[j].past = {}
      BY <1>0, <3>1 DEF SendBegin, Blank
    <3> QED BY <2>2, <3>2 DEF SoleTask, HasPast, HasSeen, PreparePC, DeltaPC
  <2> QED BY <2>1, <2>2
<1>6. CASE Reads(j)
  <2>1. /\ TaskStep(j) \/ StoreFails(j)
        /\ turns' = turns /\ sessions' = sessions /\ loc'[j].session = loc[j].session
    BY <1>6 DEF Reads, durable
  <2>2. /\ HasInflightTurn' <=> HasInflightTurn
    BY <2>1 DEF HasInflightTurn, Inflight
  <2>3. CASE pc'[j] \in ProjectPC
    BY <1>2, <2>3 DEF ProjectPC
  <2>4. CASE pc'[j] = "session" \/ (pc'[j] = "append" /\ loc[j].session = None)
    <3>1. ReadInflight(j)
      <4>1. ~ ReadSequence(j) \/ loc[j].session # None
        BY DEF ReadSequence, HostTypes, TaskTypeOK, HasSession, PreparePC, SessionId, None
      <4> QED BY <2>1, <2>4, <4>1, Arrivals
    <3>2. ~ Ends(j)
      BY <1>0, <2>4 DEF Ends
    <3>3. ~ HasInflightTurn /\ loc' = loc /\ pc[j] = "inflight"
      BY <3>1, <3>2 DEF ReadInflight
    <3>4. loc[j].past = {}
      BY <3>3 DEF SoleTask
    <3> QED BY <2>2, <2>4, <3>3, <3>4 DEF SoleTask, HasPast, HasSeen, DeltaPC
  <2>5. CASE pc'[j] \in {"history", "ordinal", "sequence"} \/ (pc'[j] = "append" /\ loc[j].session # None)
    <3>1. /\ ReadSession(j) \/ ReadHistory(j) \/ ReadOrdinal(j) \/ ReadSequence(j)
          /\ ~ Ends(j)
      <4>1. ~ Ends(j)
        BY <1>0, <2>5 DEF Ends
      <4>2. ASSUME ReadInflight(j) PROVE pc'[j] = IF loc[j].session = None THEN "append" ELSE "session"
        BY <1>0, <4>1, <4>2 DEF ReadInflight, Goes
      <4> QED BY <2>1, <2>5, <4>1, <4>2, Arrivals
    <3>2. pc[j] \in PreparePC \ {"inflight"}
      BY <3>1 DEF ReadSession, ReadHistory, ReadOrdinal, ReadSequence, PreparePC
    <3>3. ~ HasInflightTurn'
      BY <2>2, <3>2 DEF SoleTask
    <3>4. loc'[j].seen = sessions[loc[j].session].project
      <4>1. CASE ReadSession(j)
        BY <1>0, <3>1, <4>1 DEF ReadSession, Locals
      <4>2. CASE ReadHistory(j) \/ ReadOrdinal(j) \/ ReadSequence(j)
        <5>1. HasSeen(j) /\ loc'[j].seen = loc[j].seen
          BY <1>0, <3>1, <4>2 DEF ReadHistory, ReadOrdinal, ReadSequence, HasSeen, Locals
        <5> QED BY <5>1 DEF SoleTask
      <4> QED BY <3>1, <4>1, <4>2
    <3>5. pc'[j] # "history" => loc'[j].past = CompletedHistory(turns, loc[j].session)
      <4>1. CASE ReadSession(j)
        BY <1>0, <3>1, <4>1 DEF ReadSession, Goes
      <4>2. CASE ReadHistory(j)
        BY <1>0, <3>1, <4>2 DEF ReadHistory, Locals
      <4>3. CASE ReadOrdinal(j) \/ ReadSequence(j)
        <5>1. HasPast(j) /\ loc'[j].past = loc[j].past
          BY <1>0, <4>3 DEF ReadOrdinal, ReadSequence, HasPast, Locals
        <5> QED BY <5>1 DEF SoleTask
      <4> QED BY <3>1, <4>1, <4>2, <4>3
    <3> QED BY <2>1, <2>5, <3>3, <3>4, <3>5 DEF SoleTask, HasPast, HasSeen, DeltaPC
  <2>6. pc'[j] # "inflight"
    BY <2>1, Arrivals
  <2> QED BY <1>6, <2>3, <2>4, <2>5, <2>6 DEF Reads, PreparePC
<1>7. CASE Inserts(j)
  <2>1. pc'[j] = "assemble" /\ pc[j] = "append"
    BY <1>7 DEF Inserts
  <2>2. \A k \in Task : ~ FinishWrite(k)
    <3>1. ASSUME NEW k \in Task, FinishWrite(k) PROVE FALSE
      <4>1. k = j
        BY <2>1, <3>1, SoleActor DEF FinishWrite
      <4> QED BY <2>1, <3>1, <4>1 DEF FinishWrite
    <3> QED BY <3>1
  <2>3. loc'[j].past = loc[j].past
    <3>1. CASE CreateSession(j)
      BY <1>0, <3>1 DEF CreateSession, Locals
    <3>2. CASE AppendTurn(j)
      <4>1. ~ Ends(j)
        BY <1>0, <2>1 DEF Ends
      <4> QED BY <1>0, <3>2, <4>1 DEF AppendTurn, Locals
    <3> QED BY <1>7, <3>1, <3>2 DEF Inserts
  <2>4. \A s : CompletedHistory(turns', s) = CompletedHistory(turns, s)
    BY <2>2, HistoryKept
  <2>5. loc[j].past = CompletedHistory(turns, loc'[j].session)
    <3>1. CASE CreateSession(j)
      <4>1. PICK s \in SessionId, t \in TurnId :
              ~ sessions[s].live /\ loc' = [loc EXCEPT ![j].session = s, ![j].turn = t]
        BY <3>1 DEF CreateSession
      <4>2. loc'[j].session = s
        BY <1>0, <4>1 DEF Locals
      <4>3. CompletedHistory(turns, s) = {}
        <5>1. DOMAIN turns = TurnId
          BY DEF HostTypes, HostTypeOK
        <5> QED BY <4>1, <5>1 DEF CompletedHistory, OwnInv, RowsOwned
      <4>4. loc[j].past = {}
        BY <3>1 DEF CreateSession, SoleTask
      <4> QED BY <4>2, <4>3, <4>4
    <3>2. CASE AppendTurn(j)
      <4>1. ~ Ends(j)
        BY <1>0, <2>1 DEF Ends
      <4>2. loc'[j].session = loc[j].session
        BY <1>0, <3>2, <4>1 DEF AppendTurn, Locals
      <4>3. HasPast(j)
        BY <3>2 DEF AppendTurn, HasPast
      <4> QED BY <4>2, <4>3 DEF SoleTask
    <3> QED BY <1>7, <3>1, <3>2 DEF Inserts
  <2> QED BY <2>1, <2>3, <2>4, <2>5 DEF SoleTask, HasPast, HasSeen, PreparePC
<1>8. CASE Carries(j)
  <2>1. /\ TaskStep(j) \/ StoreFails(j)
        /\ loc'[j].session = loc[j].session /\ pc[j] \in HasTurn /\ pc'[j] \in HasTurn
    BY <1>8 DEF Carries
  <2>2. pc'[j] \notin PreparePC /\ pc[j] # "idle" /\ pc[j] # "append" /\ pc'[j] # "assemble"
    <3>1. pc'[j] \notin PreparePC /\ pc[j] # "idle" /\ pc[j] # "append"
      BY <2>1 DEF HasTurn, SendPC, PreparePC, DeltaPC, FinishPC
    <3> QED BY <2>1, <3>1, Arrivals DEF CreateSession, AppendTurn
  <2>3. ASSUME pc'[j] \in {"refresh", "stream"} \cup DeltaPC
        PROVE  loc'[j].past = CompletedHistory(turns', loc[j].session)
    <3>1. SendStart(j) \/ Refresh(j) \/ DeltaWrite(j) \/ StreamDelta(j) \/ DeltaReadTurn(j)
            \/ DeltaReadSequence(j)
      BY <2>1, <2>3, Arrivals DEF DeltaPC
    <3>2. HasPast(j)
      BY <3>1 DEF SendStart, Refresh, DeltaWrite, StreamDelta, DeltaReadTurn, DeltaReadSequence,
         HasPast, DeltaPC
    <3>3. loc'[j].past = loc[j].past
      <4>1. CASE SendStart(j)
        BY <1>0, <4>1 DEF SendStart, Finishes, Locals
      <4>2. CASE Refresh(j)
        BY <1>0, <4>2 DEF Refresh, Finishes, Locals
      <4>3. CASE DeltaWrite(j)
        BY <1>0, <4>3 DEF DeltaWrite, StreamEnds, Locals
      <4>4. CASE StreamDelta(j) \/ DeltaReadSequence(j)
        BY <1>0, <4>4 DEF StreamDelta, DeltaReadSequence, Locals
      <4>5. CASE DeltaReadTurn(j)
        BY <1>0, <4>5 DEF DeltaReadTurn, StreamEnds, Locals
      <4> QED BY <3>1, <4>1, <4>2, <4>3, <4>4, <4>5
    <3>4. \A k \in Task : ~ FinishWrite(k)
      <4>1. ASSUME NEW k \in Task, FinishWrite(k) PROVE FALSE
        <5>1. pc[k] = "finWrite"
          BY <4>1 DEF FinishWrite
        <5>2. k = j
          BY <2>2, <5>1, SoleActor
        <5> QED BY <3>2, <5>1, <5>2 DEF HasPast, DeltaPC
      <4> QED BY <4>1
    <3> QED BY <3>2, <3>3, <3>4, HistoryKept DEF SoleTask
  <2>4. ASSUME pc'[j] \in {"finSeq", "finWrite"}
        PROVE  loc'[j].seen = sessions'[loc[j].session].project
    <3>1. CASE FinishReadSession(j)
      BY <1>0, <3>1 DEF FinishReadSession, durable, Locals
    <3>2. CASE FinishReadSequence(j)
      <4>1. HasSeen(j) /\ loc'[j].seen = loc[j].seen /\ sessions' = sessions
        BY <1>0, <3>2 DEF FinishReadSequence, HasSeen, durable, Locals
      <4> QED BY <4>1 DEF SoleTask
    <3> QED BY <2>1, <2>4, <3>1, <3>2, Arrivals
  <2>5. HasPast(j)' => pc'[j] \in {"refresh", "stream"} \cup DeltaPC
    BY <2>2 DEF HasPast, PreparePC
  <2>6. HasSeen(j)' => pc'[j] \in {"finSeq", "finWrite"}
    BY <2>2 DEF HasSeen, PreparePC
  <2>7. pc'[j] # "inflight" /\ pc'[j] # "append"
    BY <2>2 DEF PreparePC
  <2> QED BY <2>1, <2>2, <2>3, <2>4, <2>5, <2>6, <2>7 DEF SoleTask
<1> QED BY <1>3, <1>4, <1>5, <1>6, <1>7, <1>8, TaskCases


(* A turn that is in flight was so before, or is new                       *)
LEMMA InflightBefore ==
  ASSUME HostTypes, OwnInv, [HostNext]_hostVars, NEW t \in TurnId, turns'[t].state \in InflightState
  PROVE  Inflight(t) \/ \E k \in Task : Inserts(k) /\ t = loc'[k].turn
<1>1. CASE turns[t].state = "absent"
  <2>1. turns'[t] # turns[t] /\ ~ Inflight(t)
    BY <1>1 DEF Inflight, InflightState
  <2>2. PICK k \in Task : CreateSession(k) \/ AppendTurn(k)
    BY <2>1, TurnWriters
  <2>3. Inserts(k)
    BY <2>1, <2>2, Inserters DEF durable
  <2>4. t = loc'[k].turn
    BY <2>1, <2>3, InsertedTurn
  <2> QED BY <2>3, <2>4
<1>2. CASE turns[t].state \in TerminalState
  <2>1. turns'[t] = turns[t]
    BY <1>2, RowsLast DEF OwnInv, Lasting
  <2> QED BY <2>1 DEF Inflight
<1>3. turns[t].state \in TurnState
  BY DEF HostTypes, HostTypeOK
<1> QED BY <1>1, <1>2, <1>3 DEF TurnState, Inflight

LEMMA Assigners ==
  ASSUME [HostNext]_hostVars
  PROVE  UNCHANGED assigned \/ \E k \in Task : CreateSession(k) \/ SetProjectWrite(k)
<1>1. ASSUME NEW k \in Task, TaskStep(k)
      PROVE  UNCHANGED assigned \/ CreateSession(k) \/ SetProjectWrite(k)
  BY <1>1 DEF TaskStep, ReadInflight, ReadSession, ReadHistory, ReadOrdinal, ReadSequence,
     AppendTurn, SendStart, Refresh, StreamCancelled, StreamDelta, StreamCompleted, StreamFails,
     DeltaReadTurn, DeltaReadSequence, DeltaWrite, Finalize, FinishReadTurn, FinishReadSession,
     FinishReadSequence, FinishWrite, Recover, SetProjectReadSession, SetProjectReadSequence, history
<1>2. ASSUME NEW k \in Task, Command(k) \/ StoreFails(k) PROVE UNCHANGED assigned
  BY <1>2 DEF Command, StoreFails, SendBegin, SetProjectBegin, PickBegin, PickEnd, history
<1>3. ASSUME NEW p \in Proc, CancelAgentTurn(p) \/ ClearDraft(p) \/ SetScope(p)
                     \/ SaveRead(p) \/ SaveWrite(p) \/ Start(p) \/ ProcessEnds(p)
      PROVE  UNCHANGED assigned
  BY <1>3 DEF CancelAgentTurn, ClearDraft, SetScope, SaveRead, SaveWrite, Start, ProcessEnds,
     BootList, BootRead, BootWrite, history
<1>4. CASE UNCHANGED hostVars
  BY <1>4 DEF hostVars, history
<1> QED BY <1>1, <1>2, <1>3, <1>4 DEF HostNext

(* The writes that put a session back as it was read change no Project     *)
LEMMA ProjectStep ==
  ASSUME HostTypes, HostTypes', GateInv, OwnInv, Sole, [HostNext]_hostVars, SoleTables,
         \A k \in Task : SoleTask(k), NEW s \in SessionId
  PROVE  sessions'[s].project = assigned'[s]
<1>0. /\ sessions \in [SessionId -> [live : BOOLEAN, project : AnyProject]]
      /\ assigned \in [SessionId -> AnyProject] /\ sessions[s].project = assigned[s]
  BY DEF HostTypes, HostTypeOK, SoleTables
<1>1. ASSUME NEW k \in Task, CreateSession(k) PROVE sessions'[s].project = assigned'[s]
  <2>1. PICK r \in SessionId :
          /\ sessions' = [sessions EXCEPT ![r] = [live |-> TRUE, project |-> loc[k].project]]
          /\ assigned' = [assigned EXCEPT ![r] = loc[k].project]
    BY <1>1 DEF CreateSession
  <2> QED BY <1>0, <2>1
<1>2. ASSUME NEW k \in Task, SetProjectWrite(k) PROVE sessions'[s].project = assigned'[s]
  <2>1. \/ UNCHANGED <<sessions, assigned>>
        \/ \E r, x : /\ sessions' = [sessions EXCEPT ![r].project = x]
                     /\ assigned' = [assigned EXCEPT ![r] = x]
    BY <1>2 DEF SetProjectWrite
  <2> QED BY <1>0, <2>1
<1>3. ASSUME \A k \in Task : ~ CreateSession(k) /\ ~ SetProjectWrite(k)
      PROVE  sessions'[s].project = assigned'[s]
  <2>0. assigned' = assigned
    BY <1>3, Assigners
  <2>1. ASSUME NEW k \in Task, AppendTurn(k) \/ FinishWrite(k), sessions' # sessions
        PROVE  sessions'[s].project = sessions[s].project
    <3> DEFINE r == loc[k].session
               x == loc[k].seen
    <3>1. sessions' = [sessions EXCEPT ![r].project = x] /\ HasSeen(k)
      BY <2>1 DEF AppendTurn, FinishWrite, durable, HasSeen
    <3>2. x = sessions[r].project
      BY <3>1 DEF SoleTask
    <3> HIDE DEF r, x
    <3> QED BY <1>0, <3>1, <3>2
  <2>2. ASSUME NEW p \in Proc, BootWrite(p), sessions' # sessions
        PROVE  sessions'[s].project = sessions[s].project
    <3> DEFINE c == CHOOSE r \in listed[p] : r.session = s
    <3>1. boot[p] = "writing"
      BY <2>2 DEF BootWrite
    <3>2. sessions'[s] = IF \E r \in listed[p] : r.session = s
                         THEN [sessions[s] EXCEPT !.project = c.seen] ELSE sessions[s]
      BY <2>2 DEF BootWrite, durable
    <3>3. (\E r \in listed[p] : r.session = s) => c \in listed[p] /\ c.session = s
      OBVIOUS
    <3> HIDE DEF c
    <3>4. (\E r \in listed[p] : r.session = s) => c.seen = sessions[s].project
      BY <3>1, <3>3 DEF SoleTables
    <3> QED BY <1>0, <3>2, <3>4
  <2>3. ASSUME NEW k \in Task, DeltaWrite(k) PROVE sessions' = sessions
    BY <2>3 DEF DeltaWrite
  <2>4. sessions' = sessions \/ (\E k \in Task : AppendTurn(k) \/ FinishWrite(k))
          \/ \E p \in Proc : BootWrite(p)
    BY <1>3, <2>3, Writes DEF durable
  <2>5. sessions'[s].project = sessions[s].project
    BY <2>1, <2>2, <2>4
  <2> QED BY <1>0, <2>0, <2>5
<1> QED BY <1>1, <1>2, <1>3

LEMMA SoleStep ==
  ASSUME HostTypes, GateInv, OwnInv, SoleInv, [HostNext]_hostVars
  PROVE  SoleInv'
<1> SUFFICES ASSUME Sole' PROVE SoleTables' /\ \A k \in Task : SoleTask(k)'
  BY DEF SoleInv
<1>1. HostTypes' /\ OwnInv' /\ Sole /\ SoleTables /\ \A k \in Task : SoleTask(k)
  <2>1. Sole
    BY SoleBefore
  <2> QED BY <2>1, StepTypes, StutterTypes, OwnStep DEF SoleInv
<1>2. \A k \in Task : SoleTask(k)'
  BY <1>1, SoleTaskStep
<1>3. ASSUME NEW t \in TurnId, NEW u \in TurnId, turns'[t].state \in InflightState,
             turns'[u].state \in InflightState
      PROVE  t = u
  <2>1. Inflight(t) \/ \E k \in Task : Inserts(k) /\ t = loc'[k].turn
    BY <1>3, InflightBefore
  <2>2. Inflight(u) \/ \E k \in Task : Inserts(k) /\ u = loc'[k].turn
    BY <1>3, InflightBefore
  <2>3. \A k \in Task : Inserts(k) => ~ Inflight(t) /\ ~ Inflight(u)
    BY <1>1 DEF Inserts, SoleTask, PreparePC, HasInflightTurn
  <2>4. \A j, k \in Task : Inserts(j) /\ Inserts(k) => j = k
    BY <1>1, SoleActor DEF Inserts
  <2> QED BY <1>1, <2>1, <2>2, <2>3, <2>4 DEF SoleTables
<1>4. \A s \in SessionId : sessions'[s].project = assigned'[s]
  BY <1>1, ProjectStep
<1>5. ASSUME NEW p \in Proc, boot'[p] = "writing", NEW r \in listed'[p]
      PROVE  r.seen = sessions'[r.session].project
  <2>0. listed \in [Proc -> SUBSET ListedRow]
    BY DEF HostTypes, TablesOK
  <2>1. CASE BootRead(p)
    <3>1. PICK q \in listed[p] : r = NumberedRow(p, q)
      BY <1>5, <2>0, <2>1 DEF BootRead, NumberedRow, BeforeRow
    <3>2. q \in ListedRow
      BY <2>0
    <3> DEFINE n == NextEventSequence(q.session) + Cardinality(BeforeRow(p, q))
    <3>3. r = [q EXCEPT !.seen = sessions[q.session].project, !.sequence = n]
      BY <3>1 DEF NumberedRow
    <3> HIDE DEF n
    <3>4. r.seen = sessions[q.session].project /\ r.session = q.session
      BY <3>2, <3>3 DEF ListedRow
    <3>5. sessions' = sessions
      BY <2>1 DEF BootRead, durable
    <3> QED BY <3>4, <3>5
  <2>2. CASE boot[p] = "writing" /\ listed'[p] = listed[p]
    <3>1. \A k \in Task : pc[k] = "idle"
      BY <1>1, <2>2, SoleActor
    <3>2. ASSUME NEW q \in Proc, BootWrite(q) PROVE FALSE
      <4>1. boot[q] = "writing" /\ boot'[q] # "writing"
        BY <3>2 DEF BootWrite, HostTypes, HostTypeOK
      <4>2. q = p
        BY <1>1, <2>2, <4>1, SoleActor
      <4> QED BY <1>5, <4>1, <4>2
    <3>3. \A k \in Task : ~ CreateSession(k) /\ ~ AppendTurn(k) /\ ~ DeltaWrite(k) /\ ~ FinishWrite(k)
                          /\ ~ SetProjectWrite(k)
      BY <3>1 DEF CreateSession, AppendTurn, DeltaWrite, FinishWrite, SetProjectWrite
    <3>4. sessions' = sessions
      BY <3>2, <3>3, Writes DEF durable
    <3> QED BY <1>1, <1>5, <2>2, <3>4 DEF SoleTables
  <2> QED BY <1>5, <2>1, <2>2, WritingStays
<1>6. SoleTables'
  BY <1>3, <1>4, <1>5 DEF SoleTables, Inflight
<1> QED BY <1>2, <1>6

LEMMA SoleInit == HostInit => SoleInv
<1> SUFFICES ASSUME HostInit PROVE SoleInv
  OBVIOUS
<1>1. SoleTables
  BY DEF HostInit, SoleTables, Inflight, InflightState, AbsentTurn
<1>2. \A k \in Task : SoleTask(k)
  BY DEF HostInit, SoleTask, HasPast, HasSeen, PreparePC, DeltaPC
<1> QED BY <1>1, <1>2 DEF SoleInv

HostInv == HostTypes /\ GateInv /\ OwnInv /\ SoleInv

LEMMA HostInvariant == HostSpec => []HostInv
<1>1. HostInit => HostInv
  <2>1. HostInit => GateInv
    BY DEF HostInit, GateInv, GateOf, Busy
  <2> QED BY <2>1, InitTypes, OwnInit, SoleInit DEF HostInv
<1>2. HostInv /\ [HostNext]_hostVars => HostInv'
  BY StepTypes, StutterTypes, GateStep, OwnStep, SoleStep DEF HostInv
<1> QED BY <1>1, <1>2, PTL DEF HostSpec

(* While one process owns the database no two turns are in flight: the     *)
(* gate covers the gap between has_inflight_turn and the insertion         *)
(* (agent_use_cases.rs:58)                                                 *)
THEOREM OneInflight == HostSpec => []OneInflightTurn
<1>1. HostInv => OneInflightTurn
  BY DEF HostInv, SoleInv, Sole, SoleTables, OneInflightTurn
<1> QED BY <1>1, HostInvariant, PTL

(* While one process owns the database, what is streamed to the provider   *)
(* is the whole completed history of the session                           *)
(* (agent_use_cases.rs:99-108)                                             *)
THEOREM ContextComplete == HostSpec => []ContextIsComplete
<1>1. HostInv => ContextIsComplete
  BY DEF HostInv, SoleInv, Sole, SoleTask, HasPast, ContextIsComplete
<1> QED BY <1>1, HostInvariant, PTL

(* While one process owns the database, no write that puts a session back  *)
(* as it was read undoes a set_agent_session_project                       *)
(* (agent_use_cases.rs:466-488)                                            *)
THEOREM ProjectKept == HostSpec => []ProjectIsKept
<1>1. HostInv => ProjectIsKept
  BY DEF HostInv, SoleInv, Sole, SoleTables, ProjectIsKept
<1> QED BY <1>1, HostInvariant, PTL


---------------------------------------------------------------------------
(* Source drafts                                                           *)

LEMMA DraftKept ==
  ASSUME HostTypes, NEW k \in Task, TaskStep(k) \/ StoreFails(k), pc'[k] # "idle"
  PROVE  loc'[k].draft = loc[k].draft
<1>0. loc \in [Task -> Locals] /\ loc[k] \in Locals /\ pc \in [Task -> PC]
  BY DEF HostTypes, HostTypeOK, Locals
<1>1. ~ Ends(k)
  BY <1>0 DEF Ends
<1>2. ASSUME NEW ok, FinishReturns(k, ok) PROVE loc'[k].draft = loc[k].draft
  BY <1>0, <1>1, <1>2 DEF FinishReturns, Locals
<1>3. ASSUME NEW r, StreamEnds(k, r) PROVE loc'[k].draft = loc[k].draft
  BY <1>0, <1>3 DEF StreamEnds, Locals
<1>4. ASSUME NEW g, NEW c, NEW r, Finishes(k, g, c, r) PROVE loc'[k].draft = loc[k].draft
  BY <1>0, <1>4 DEF Finishes, Locals
<1>5. CASE StoreFails(k)
  BY <1>1, <1>2, <1>3, <1>5 DEF StoreFails
<1>6. CASE ReadInflight(k) \/ ReadSession(k) \/ ReadHistory(k) \/ ReadOrdinal(k) \/ ReadSequence(k)
  BY <1>0, <1>1, <1>6 DEF ReadInflight, ReadSession, ReadHistory, ReadOrdinal, ReadSequence, Locals
<1>7. CASE CreateSession(k) \/ AppendTurn(k)
  <2>1. CASE CreateSession(k)
    <3>1. PICK s \in SessionId, t \in TurnId : loc' = [loc EXCEPT ![k].session = s, ![k].turn = t]
      BY <2>1 DEF CreateSession
    <3> QED BY <1>0, <3>1 DEF Locals
  <2>2. CASE AppendTurn(k)
    <3>1. PICK t \in TurnId : loc' = [loc EXCEPT ![k].turn = t]
      BY <1>1, <2>2 DEF AppendTurn
    <3> QED BY <1>0, <3>1 DEF Locals
  <2> QED BY <1>7, <2>1, <2>2
<1>8. CASE SendStart(k) \/ Refresh(k) \/ Finalize(k)
  BY <1>1, <1>4, <1>8 DEF SendStart, Refresh, Finalize
<1>9. CASE StreamCancelled(k) \/ StreamFails(k) \/ DeltaWrite(k)
  BY <1>3, <1>9 DEF StreamCancelled, StreamFails, DeltaWrite
<1>10. CASE StreamDelta(k) \/ StreamCompleted(k) \/ DeltaReadSequence(k)
  BY <1>0, <1>10 DEF StreamDelta, StreamCompleted, DeltaReadSequence, Locals
<1>11. CASE DeltaReadTurn(k)
  BY <1>0, <1>11 DEF DeltaReadTurn, StreamEnds, Locals
<1>12. CASE FinishReadTurn(k)
  BY <1>0, <1>2, <1>12 DEF FinishReadTurn, Locals
<1>13. CASE FinishReadSession(k) \/ FinishReadSequence(k)
  BY <1>0, <1>13 DEF FinishReadSession, FinishReadSequence, Locals
<1>14. CASE FinishWrite(k)
  BY <1>2, <1>14 DEF FinishWrite
<1>15. CASE Recover(k) \/ SetProjectReadSession(k) \/ SetProjectReadSequence(k) \/ SetProjectWrite(k)
  BY <1>0, <1>1, <1>15 DEF Recover, SetProjectReadSession, SetProjectReadSequence, SetProjectWrite,
     Locals
<1> QED BY <1>5, <1>6, <1>7, <1>8, <1>9, <1>10, <1>11, <1>12, <1>13, <1>14, <1>15 DEF TaskStep

(* A draft is captured under the current scope, with a fresh handle        *)
Captures(k) ==
  /\ pc[k] = "pick" /\ nextDraft \in Handle /\ UNCHANGED durable
  /\ drafts' = [drafts EXCEPT ![ProcOf[k]] = ReplaceWith(@, nextDraft)]
  /\ captured' = [captured EXCEPT ![nextDraft] = drafts[ProcOf[k]].scope]
  /\ nextDraft' = nextDraft + 1

LEMMA DraftsChange ==
  ASSUME HostTypes, [HostNext]_hostVars
  PROVE  \/ \E k \in Task : Captures(k) /\ PickEnd(k)
         \/ /\ UNCHANGED <<nextDraft, captured>>
            /\ \A p \in Proc : drafts'[p].drafts \subseteq drafts[p].drafts
<1>0. drafts \in [Proc -> DraftStore] /\ ProcOf \in [Task -> Proc]
  BY HostAssumption DEF HostTypes, TablesOK
<1>1. ASSUME NEW d \in DraftStore, NEW h, NEW s
      PROVE  /\ ClearHandle(d, h).drafts \subseteq d.drafts /\ ClearHandle(d, h).scope = d.scope
             /\ BindSessionScope(d, s).drafts \subseteq d.drafts
             /\ BindSessionScope(ClearHandle(d, h), s).drafts \subseteq d.drafts
             /\ BeginNewSessionScope(d).drafts \subseteq d.drafts /\ ClearAll(d).drafts \subseteq d.drafts
  BY DEF DraftStore, ClearHandle, BindSessionScope, BeginNewSessionScope, ClearAll
<1>2. ASSUME NEW q \in Proc, NEW x, drafts' = [drafts EXCEPT ![q] = x], x.drafts \subseteq drafts[q].drafts
      PROVE  \A p \in Proc : drafts'[p].drafts \subseteq drafts[p].drafts
  BY <1>0, <1>2
<1>3. ASSUME UNCHANGED drafts PROVE \A p \in Proc : drafts'[p].drafts \subseteq drafts[p].drafts
  BY <1>3
<1>4. ASSUME NEW k \in Task, PickEnd(k)
      PROVE  Captures(k) \/ UNCHANGED <<drafts, nextDraft, captured>>
  BY <1>4 DEF PickEnd, Captures
<1>5. ASSUME NEW k \in Task, SendStart(k)
      PROVE  /\ UNCHANGED <<nextDraft, captured>>
             /\ UNCHANGED drafts \/ drafts' = [drafts EXCEPT ![ProcOf[k]] =
                  BindSessionScope(ClearHandle(drafts[ProcOf[k]], loc[k].draft), loc[k].session)]
  BY <1>5 DEF SendStart, history
<1>6. ASSUME NEW k \in Task, SendStart(k)
      PROVE  \A p \in Proc : drafts'[p].drafts \subseteq drafts[p].drafts
  <2>1. ProcOf[k] \in Proc /\ drafts[ProcOf[k]] \in DraftStore
    BY <1>0
  <2> QED BY <1>1, <1>2, <1>3, <1>5, <1>6, <2>1
<1>7. ASSUME NEW k \in Task, TaskStep(k) \/ Command(k) \/ StoreFails(k), ~ SendStart(k), ~ PickEnd(k)
      PROVE  UNCHANGED <<drafts, nextDraft, captured>>
  <2>1. CASE Command(k) \/ StoreFails(k)
    BY <1>7, <2>1 DEF Command, SendBegin, SetProjectBegin, PickBegin, StoreFails, history
  <2>2. CASE TaskStep(k)
    BY <1>7, <2>2 DEF TaskStep, ReadInflight, ReadSession, ReadHistory, ReadOrdinal, ReadSequence,
       CreateSession, AppendTurn, Refresh, StreamCancelled, StreamDelta,
       StreamCompleted, StreamFails, DeltaReadTurn, DeltaReadSequence, DeltaWrite, Finalize,
       FinishReadTurn, FinishReadSession, FinishReadSequence, FinishWrite, Recover,
       SetProjectReadSession, SetProjectReadSequence, SetProjectWrite, history, process
  <2> QED BY <1>7, <2>1, <2>2
<1>8. ASSUME NEW q \in Proc, ClearDraft(q) \/ SetScope(q)
      PROVE  /\ UNCHANGED <<nextDraft, captured>>
             /\ \A p \in Proc : drafts'[p].drafts \subseteq drafts[p].drafts
  <2>1. UNCHANGED <<nextDraft, captured>>
    BY <1>8 DEF ClearDraft, SetScope, history
  <2>2. drafts[q] \in DraftStore
    BY <1>0
  <2>3. CASE ClearDraft(q)
    BY <1>1, <1>2, <2>1, <2>2, <2>3 DEF ClearDraft
  <2>4. CASE SetScope(q)
    BY <1>1, <1>2, <2>1, <2>2, <2>4 DEF SetScope
  <2> QED BY <1>8, <2>3, <2>4
<1>9. ASSUME NEW q \in Proc, ProcessEnds(q)
      PROVE  /\ UNCHANGED <<nextDraft, captured>>
             /\ \A p \in Proc : drafts'[p].drafts \subseteq drafts[p].drafts
  <2>1. UNCHANGED <<nextDraft, captured>> /\ drafts' = [drafts EXCEPT ![q] = EmptyDrafts]
    BY <1>9 DEF ProcessEnds, history
  <2>2. EmptyDrafts.drafts = {}
    BY DEF EmptyDrafts
  <2> QED BY <1>2, <2>1, <2>2
<1>10. ASSUME NEW q \in Proc, CancelAgentTurn(q) \/ SaveRead(q) \/ SaveWrite(q) \/ Start(q)
       PROVE  UNCHANGED <<drafts, nextDraft, captured>>
  BY <1>10 DEF CancelAgentTurn, SaveRead, SaveWrite, Start, BootList, BootRead, BootWrite, history,
     process
<1>11. CASE UNCHANGED hostVars
  BY <1>3, <1>11 DEF hostVars, history, process
<1>12. ASSUME NEW k \in Task, TaskStep(k) \/ Command(k) \/ StoreFails(k)
       PROVE  \/ Captures(k) /\ PickEnd(k)
              \/ /\ UNCHANGED <<nextDraft, captured>>
                 /\ \A p \in Proc : drafts'[p].drafts \subseteq drafts[p].drafts
  BY <1>3, <1>4, <1>5, <1>6, <1>7, <1>12
<1> QED BY <1>3, <1>8, <1>9, <1>10, <1>11, <1>12 DEF HostNext


(* A process stops being up only by ending                                 *)
LEMMA UpEnds ==
  ASSUME HostTypes, [HostNext]_hostVars, NEW p \in Proc, boot[p] = "up", boot'[p] # "up"
  PROVE  ProcessEnds(p)
<1>0. boot \in [Proc -> {"new", "down", "listing", "writing", "up"}]
  BY DEF HostTypes, HostTypeOK
<1>1. ASSUME NEW k \in Task, TaskStep(k) \/ StoreFails(k) PROVE UNCHANGED boot
  BY <1>1, TaskShape
<1>2. ASSUME NEW k \in Task, Command(k) PROVE UNCHANGED boot
  BY <1>2 DEF Command, SendBegin, SetProjectBegin, PickBegin, PickEnd
<1>3. ASSUME NEW q \in Proc, CancelAgentTurn(q) \/ ClearDraft(q) \/ SetScope(q) \/ SaveRead(q)
                             \/ SaveWrite(q)
      PROVE  UNCHANGED boot
  BY <1>3 DEF CancelAgentTurn, ClearDraft, SetScope, SaveRead, SaveWrite, process
<1>4. ASSUME NEW q \in Proc, Start(q) PROVE boot[q] # "up" /\ \A r \in Proc : r # q => boot'[r] = boot[r]
  BY <1>0, <1>4 DEF Start, BootList, BootRead, BootWrite
<1>5. ASSUME NEW q \in Proc, ProcessEnds(q) PROVE \A r \in Proc : r # q => boot'[r] = boot[r]
  BY <1>0, <1>5 DEF ProcessEnds
<1>6. CASE UNCHANGED hostVars
  BY <1>6 DEF hostVars, process
<1> QED BY <1>1, <1>2, <1>3, <1>4, <1>5, <1>6 DEF HostNext

(* The handles in use are those given out, each with the scope it was      *)
(* captured in; a process that is not up has no draft                      *)
DraftRows ==
  \A p \in Proc :
    /\ \A d \in drafts[p].drafts : d.handle < nextDraft /\ captured[d.handle] = d.scope
    /\ boot[p] # "up" => drafts[p].drafts = {}

LEMMA CapturedKept ==
  ASSUME HostTypes, HostTypes', [HostNext]_hostVars
  PROVE  /\ nextDraft <= nextDraft'
         /\ \A h \in Handle : h < nextDraft => captured'[h] = captured[h]
<1>0. nextDraft \in Nat /\ captured \in [Handle -> Scope] /\ \A h \in Handle : h \in Nat
  BY HostAssumption DEF HostTypes, HostTypeOK, TablesOK, Handle
<1> QED BY <1>0, DraftsChange DEF Captures

LEMMA DraftRowsStep ==
  ASSUME HostTypes, HostTypes', GateInv, DraftRows, [HostNext]_hostVars
  PROVE  DraftRows'
<1>0. /\ nextDraft \in Nat /\ captured \in [Handle -> Scope] /\ drafts \in [Proc -> DraftStore]
      /\ \A h \in Handle : h \in Nat
      /\ \A p \in Proc : \A d \in drafts[p].drafts : d.handle \in Handle
  BY HostAssumption DEF HostTypes, HostTypeOK, TablesOK, Handle, DraftStore
<1>1. ASSUME NEW k \in Task, Captures(k), PickEnd(k) PROVE DraftRows'
  <2> DEFINE c == ProcOf[k]
             s == drafts[c].scope
  <2>1. c \in Proc /\ boot' = boot /\ boot[c] = "up"
    <3>1. c \in Proc /\ boot' = boot /\ GateOf(c)
      BY <1>1, HostAssumption DEF PickEnd, GateInv
    <3>2. Busy(c)
      BY <1>1 DEF Captures, Busy
    <3> QED BY <3>1, <3>2 DEF GateOf
  <2>2. drafts' = [drafts EXCEPT ![c].drafts = {[handle |-> nextDraft, scope |-> s]}]
    <3>1. drafts[c] \in DraftStore
      BY <1>0, <2>1
    <3> QED BY <1>0, <1>1, <2>1, <3>1 DEF Captures, ReplaceWith, DraftStore
  <2>3. captured' = [captured EXCEPT ![nextDraft] = s] /\ nextDraft' = nextDraft + 1
        /\ nextDraft \in Handle
    BY <1>1 DEF Captures
  <2>4. drafts[c] \in DraftStore
    BY <1>0, <2>1
  <2>5. drafts'[c].drafts = {[handle |-> nextDraft, scope |-> s]}
    BY <1>0, <2>1, <2>2, <2>4 DEF DraftStore
  <2>6. \A p \in Proc : p # c => drafts'[p] = drafts[p]
    BY <1>0, <2>2
  <2> HIDE DEF c, s
  <2>7. \A d \in drafts'[c].drafts : d.handle < nextDraft' /\ captured'[d.handle] = d.scope
    BY <1>0, <2>3, <2>5
  <2>8. ASSUME NEW p \in Proc, p # c
        PROVE  /\ \A d \in drafts'[p].drafts : d.handle < nextDraft' /\ captured'[d.handle] = d.scope
               /\ boot'[p] # "up" => drafts'[p].drafts = {}
    <3>1. drafts'[p] = drafts[p] /\ boot'[p] = boot[p]
      BY <2>1, <2>6, <2>8
    <3>2. ASSUME NEW d \in drafts[p].drafts PROVE d.handle < nextDraft' /\ captured'[d.handle] = d.scope
      <4>1. d.handle \in Handle /\ d.handle \in Nat /\ d.handle < nextDraft /\ captured[d.handle] = d.scope
        BY <1>0 DEF DraftRows
      <4> QED BY <1>0, <2>3, <4>1
    <3>3. boot[p] # "up" => drafts[p].drafts = {}
      BY DEF DraftRows
    <3> QED BY <3>1, <3>2, <3>3
  <2> QED BY <2>1, <2>7, <2>8 DEF DraftRows
<1>2. ASSUME UNCHANGED <<nextDraft, captured>>,
             \A p \in Proc : drafts'[p].drafts \subseteq drafts[p].drafts
      PROVE  DraftRows'
  <2>1. ASSUME NEW p \in Proc, boot'[p] # "up" PROVE drafts'[p].drafts = {}
    <3>1. CASE boot[p] # "up"
      BY <1>2, <3>1 DEF DraftRows
    <3>2. CASE boot[p] = "up"
      <4>1. ProcessEnds(p)
        BY <2>1, <3>2, UpEnds
      <4> QED BY <1>0, <4>1 DEF ProcessEnds, EmptyDrafts
    <3> QED BY <3>1, <3>2
  <2> QED BY <1>2, <2>1 DEF DraftRows
<1> QED BY <1>1, <1>2, DraftsChange


(* A send that has no turn yet has a draft of its target's scope, and the  *)
(* turn it inserts has the draft                                           *)
DraftTask(k) ==
  /\ pc[k] \in PreparePC =>
       /\ loc[k].session = None => loc[k].ordinal = 0
       /\ loc[k].draft # None =>
            /\ loc[k].draft < nextDraft
            /\ loc[k].session # None => captured[loc[k].draft] = SessionScope(loc[k].session)
            /\ loc[k].session = None => captured[loc[k].draft].kind = "new"
  /\ pc[k] \in HasTurn => turns[loc[k].turn].source = loc[k].draft

LEMMA DraftTaskStep ==
  ASSUME HostTypes, HostTypes', OwnInv, DraftRows, [HostNext]_hostVars,
         NEW j \in Task, DraftTask(j)
  PROVE  DraftTask(j)'
<1>0. /\ pc \in [Task -> PC] /\ loc \in [Task -> Locals] /\ loc[j] \in Locals /\ loc'[j] \in Locals
      /\ TaskTypeOK(j) /\ TaskOwns(j) /\ Lasting /\ nextDraft \in Nat /\ nextDraft' \in Nat
  BY RowsLast DEF HostTypes, HostTypeOK, TablesOK, Locals, OwnInv
<1>1. /\ nextDraft <= nextDraft'
      /\ \A h \in Handle : h < nextDraft => captured'[h] = captured[h]
  BY CapturedKept
<1>2. /\ \A n \in HasTurn : n \notin PreparePC /\ n # "idle"
      /\ "idle" \notin PreparePC /\ "pick" \notin PreparePC /\ "pjSession" \notin PreparePC
      /\ "inflight" \in PreparePC /\ "assemble" \in HasTurn
      /\ \A n \in ProjectPC : n \notin PreparePC /\ n \notin HasTurn
      /\ "pick" \notin HasTurn /\ "pjSession" \notin HasTurn
  BY DEF HasTurn, SendPC, PreparePC, DeltaPC, FinishPC, ProjectPC
<1>3. ASSUME pc[j] \in PreparePC, pc'[j] \in PreparePC, loc'[j].draft = loc[j].draft,
             loc'[j].session = loc[j].session,
             loc[j].session = None => loc'[j].ordinal = loc[j].ordinal
      PROVE  DraftTask(j)'
  <2>1. loc[j].draft # None => loc[j].draft \in Handle /\ loc[j].draft \in Nat
    BY <1>0, HostAssumption DEF Locals, Handle
  <2> QED BY <1>0, <1>1, <1>2, <1>3, <2>1 DEF DraftTask
<1>4. ASSUME pc[j] \in HasTurn, pc'[j] \in HasTurn, loc'[j].draft = loc[j].draft,
             loc'[j].turn = loc[j].turn
      PROVE  DraftTask(j)'
  <2>1. turns'[loc[j].turn].source = turns[loc[j].turn].source
    BY <1>0, <1>4 DEF TaskTypeOK, TaskOwns, Lasting
  <2> QED BY <1>2, <1>4, <2>1 DEF DraftTask
<1>5. CASE Stays(j)
  <2>1. CASE pc[j] \in PreparePC
    BY <1>3, <1>5, <2>1 DEF Stays
  <2>2. CASE pc[j] \in HasTurn
    BY <1>4, <1>5, <2>2 DEF Stays
  <2> QED BY <1>5, <2>1, <2>2 DEF Stays, DraftTask
<1>6. CASE Idles(j)
  BY <1>2, <1>6 DEF Idles, DraftTask
<1>7. CASE Begins(j)
  <2>1. CASE SendBegin(j)
    <3>1. PICK s \in {None} \cup SessionId, pr \in AnyProject, h \in {None} \cup Handle :
            /\ h # None => ResolvesForSend(drafts[ProcOf[j]], h, s)
            /\ pc' = [pc EXCEPT ![j] = "inflight"]
            /\ loc' = [loc EXCEPT ![j] = [Blank EXCEPT !.session = s, !.project = pr, !.draft = h]]
            /\ UNCHANGED <<nextDraft, history>>
      BY <2>1 DEF SendBegin
    <3>2. /\ loc'[j].session = s /\ loc'[j].draft = h /\ loc'[j].ordinal = 0
          /\ pc'[j] = "inflight" /\ nextDraft' = nextDraft /\ captured' = captured
      BY <1>0, <3>1 DEF Blank, history
    <3>3. ASSUME h # None
          PROVE  /\ h < nextDraft
                 /\ s # None => captured[h] = SessionScope(s)
                 /\ s = None => captured[h].kind = "new"
      <4>1. PICK d \in drafts[ProcOf[j]].drafts :
              /\ d.handle = h
              /\ IF s # None THEN d.scope = SessionScope(s)
                 ELSE drafts[ProcOf[j]].scope.kind = "new" /\ d.scope = drafts[ProcOf[j]].scope
        BY <3>1, <3>3 DEF ResolvesForSend
      <4>2. d.handle < nextDraft /\ captured[d.handle] = d.scope
        BY HostAssumption DEF DraftRows
      <4> QED BY <4>1, <4>2
    <3> QED BY <1>2, <3>2, <3>3 DEF DraftTask
  <2>2. CASE ~ SendBegin(j)
    <3>1. pc'[j] \notin PreparePC /\ pc'[j] \notin HasTurn
      <4>1. pc'[j] \in {"idle", "pjSession", "pick"}
        BY <1>0, <1>7, <2>2 DEF Begins, Command, SetProjectBegin, PickBegin, PickEnd, Ends
      <4> QED BY <1>2, <4>1
    <3> QED BY <3>1 DEF DraftTask
  <2> QED BY <2>1, <2>2
<1>8. CASE Carries(j)
  <2>1. pc'[j] # "idle"
    BY <1>2, <1>8 DEF Carries
  <2>2. loc'[j].draft = loc[j].draft
    BY <1>8, <2>1, DraftKept DEF Carries
  <2> QED BY <1>4, <1>8, <2>2 DEF Carries
<1>9. CASE Reads(j)
  <2>1. pc'[j] # "idle"
    BY <1>9 DEF Reads, PreparePC, ProjectPC
  <2>2. loc'[j].draft = loc[j].draft
    BY <1>9, <2>1, DraftKept DEF Reads
  <2>3. CASE pc'[j] \notin PreparePC
    BY <1>2, <1>9, <2>3 DEF Reads, DraftTask
  <2>4. CASE pc'[j] \in PreparePC
    <3>1. ReadInflight(j) \/ ReadSession(j) \/ ReadHistory(j) \/ ReadOrdinal(j) \/ ReadSequence(j)
      BY <1>9, <2>4, Arrivals DEF Reads, PreparePC
    <3>2. pc[j] \in PreparePC
      BY <3>1 DEF ReadInflight, ReadSession, ReadHistory, ReadOrdinal, ReadSequence, PreparePC
    <3>3. CASE ReadOrdinal(j)
      <4>1. loc[j].session # None
        BY <1>0, <3>3 DEF ReadOrdinal, TaskTypeOK, HasSession, PreparePC, SessionId, None
      <4> QED BY <1>3, <1>9, <2>2, <2>4, <3>2, <4>1 DEF Reads
    <3>4. CASE ReadInflight(j) \/ ReadSession(j) \/ ReadHistory(j) \/ ReadSequence(j)
      <4>1. ~ Ends(j)
        BY <1>0, <2>1 DEF Ends
      <4>2. loc'[j].ordinal = loc[j].ordinal
        BY <1>0, <3>4, <4>1 DEF ReadInflight, ReadSession, ReadHistory, ReadSequence, Locals
      <4> QED BY <1>3, <1>9, <2>2, <2>4, <3>2, <4>2 DEF Reads
    <3> QED BY <3>1, <3>3, <3>4
  <2> QED BY <2>3, <2>4
<1>10. CASE Inserts(j)
  <2>1. pc'[j] = "assemble" /\ turns'[loc'[j].turn] = PendingTurn(j, loc'[j].session)
    BY <1>10, InsertedTurn DEF Inserts
  <2>2. PendingTurn(j, loc'[j].session).source = loc[j].draft
    BY DEF PendingTurn
  <2>3. loc'[j].draft = loc[j].draft
    <3>1. TaskStep(j) /\ pc'[j] # "idle"
      BY <1>10 DEF Inserts, TaskStep
    <3> QED BY <3>1, DraftKept
  <2> QED BY <1>2, <2>1, <2>2, <2>3 DEF DraftTask
<1> QED BY <1>5, <1>6, <1>7, <1>8, <1>9, <1>10, TaskCases


(* How a row may change: it is inserted, or it was in flight and keeps     *)
(* what it was inserted with                                               *)
Same(t) == /\ turns'[t].source = turns[t].source /\ turns'[t].session = turns[t].session
           /\ turns'[t].ordinal = turns[t].ordinal

Inserted(t) ==
  \E k \in Task : /\ Inserts(k) /\ t = loc'[k].turn
                  /\ turns'[t] = PendingTurn(k, loc'[k].session)

LEMMA RowChanges ==
  ASSUME HostTypes, OwnInv, [HostNext]_hostVars, NEW t \in TurnId
  PROVE  \/ turns'[t] = turns[t]
         \/ turns[t].state = "absent" /\ Inserted(t)
         \/ /\ Inflight(t) /\ Same(t)
            /\ \/ turns'[t].state \in InflightState /\ turns'[t].code = turns[t].code
               \/ turns'[t].state \notin InflightState /\ \E p \in Proc : boot[p] = "writing"
               \/ \E k \in Task :
                    /\ FinishWrite(k) /\ pc[k] = "finWrite" /\ loc[k].turn = t
                    /\ turns'[t].state \notin InflightState
                    /\ turns'[t].code = CodeFor(loc[k].goal, loc[k].code)
<1>0. turns \in [TurnId -> TurnRow] /\ turns[t] \in TurnRow /\ loc \in [Task -> Locals]
  BY DEF HostTypes, HostTypeOK, TurnRow, Locals
<1>1. ASSUME turns'[t] # turns[t], turns[t].state = "absent" PROVE Inserted(t)
  <2>1. ~ Inflight(t)
    BY <1>1 DEF Inflight, InflightState
  <2>2. PICK k \in Task : CreateSession(k) \/ AppendTurn(k)
    BY <1>1, <2>1, TurnWriters
  <2>3. Inserts(k)
    BY <1>1, <2>2, Inserters DEF durable
  <2> QED BY <1>1, <2>3, InsertedTurn DEF Inserted
<1>2. ASSUME NEW p \in Proc, BootWrite(p), turns'[t] = InterruptedRow(p, t),
             \E r \in listed[p] : r.turn = t
      PROVE  Same(t) /\ turns'[t].state \notin InflightState /\ boot[p] = "writing"
  BY <1>2, InterruptedRowType DEF Same, InflightState, BootWrite
<1>3. ASSUME NEW k \in Task, DeltaWrite(k), pc[k] \in HasTurn, loc[k].turn = t,
             turns'[t] = [turns[t] EXCEPT !.text = loc[k].text, !.state = loc[k].state]
      PROVE  Same(t) /\ turns'[t].state \in InflightState /\ turns'[t].code = turns[t].code
  <2>1. loc[k].state \in InflightState
    <3>1. pc[k] = "deltaWrite" /\ DeltaOK(k)
      BY <1>3 DEF DeltaWrite, OwnInv, DeltaInv
    <3> QED BY <3>1 DEF DeltaOK
  <2> QED BY <1>0, <1>3, <2>1 DEF Same, TurnRow
<1>4. ASSUME NEW k \in Task, FinishWrite(k), loc[k].turn = t,
             turns'[t] = [turns[t] EXCEPT !.state = loc[k].goal, !.text = loc[k].text,
                            !.code = CodeFor(loc[k].goal, loc[k].code)]
      PROVE  /\ Same(t) /\ turns'[t].state \notin InflightState /\ pc[k] = "finWrite"
             /\ turns'[t].code = CodeFor(loc[k].goal, loc[k].code)
  <2> DEFINE c == CodeFor(loc[k].goal, loc[k].code)
  <2>1. loc[k].goal \in TerminalState
    BY <1>0 DEF Locals
  <2>2. turns'[t] = [turns[t] EXCEPT !.state = loc[k].goal, !.text = loc[k].text, !.code = c]
    BY <1>4
  <2> HIDE DEF c
  <2>3. Same(t) /\ turns'[t].state \notin InflightState /\ turns'[t].code = c
    BY <1>0, <2>1, <2>2 DEF Same, TurnRow, TerminalState, InflightState
  <2>4. pc[k] = "finWrite"
    BY <1>4 DEF FinishWrite
  <2> QED BY <2>3, <2>4 DEF c
<1>5. \/ turns'[t] = turns[t]
      \/ turns[t].state = "absent"
      \/ /\ Inflight(t)
         /\ \E p \in Proc : /\ BootWrite(p) /\ turns'[t] = InterruptedRow(p, t)
                            /\ \E r \in listed[p] : r.turn = t
      \/ /\ Inflight(t)
         /\ \E k \in Task :
              /\ DeltaWrite(k) /\ pc[k] \in HasTurn /\ loc[k].turn = t
              /\ turns'[t] = [turns[t] EXCEPT !.text = loc[k].text, !.state = loc[k].state]
      \/ /\ Inflight(t)
         /\ \E k \in Task :
              /\ FinishWrite(k) /\ loc[k].turn = t
              /\ turns'[t] = [turns[t] EXCEPT !.state = loc[k].goal, !.text = loc[k].text,
                                !.code = CodeFor(loc[k].goal, loc[k].code)]
  BY TurnWriters
<1> QED BY <1>1, <1>2, <1>3, <1>4, <1>5

(* The Source of a turn is a draft that was given out and was captured for *)
(* where the turn is; a turn in flight has no code                         *)
BoundTo(t, c) == IF c.kind = "session" THEN turns[t].session = c.id ELSE turns[t].ordinal = 0

DraftTurn(t) ==
  /\ turns[t].source # None => /\ turns[t].source < nextDraft
                               /\ BoundTo(t, captured[turns[t].source])
  /\ Inflight(t) => turns[t].code = "none"

LEMMA DraftTurnStep ==
  ASSUME HostTypes, HostTypes', OwnInv, [HostNext]_hostVars, NEW t \in TurnId, DraftTurn(t),
         \A k \in Task : DraftTask(k)
  PROVE  DraftTurn(t)'
<1>0. /\ nextDraft \in Nat /\ nextDraft' \in Nat /\ nextDraft <= nextDraft'
      /\ turns[t].source # None => turns[t].source \in Handle /\ turns[t].source \in Nat
      /\ \A h \in Handle : h < nextDraft => captured'[h] = captured[h]
  <2>1. nextDraft \in Nat /\ nextDraft' \in Nat /\ turns[t].source \in {None} \cup Handle
    BY DEF HostTypes, HostTypeOK, TablesOK
  <2>2. \A h \in Handle : h \in Nat
    BY HostAssumption DEF Handle
  <2> QED BY <2>1, <2>2, CapturedKept
<1>1. ASSUME Same(t), turns'[t].state \in InflightState => Inflight(t) /\ turns'[t].code = turns[t].code
      PROVE  DraftTurn(t)'
  BY <1>0, <1>1 DEF Same, DraftTurn, BoundTo, Inflight
<1>2. CASE turns'[t] = turns[t]
  BY <1>1, <1>2 DEF Same, Inflight
<1>3. ASSUME NEW k \in Task, Inserts(k), t = loc'[k].turn, turns'[t] = PendingTurn(k, loc'[k].session)
      PROVE  DraftTurn(t)'
  <2>0. PICK h : h = loc[k].draft
    OBVIOUS
  <2>1. /\ turns'[t].source = h /\ turns'[t].ordinal = loc[k].ordinal
        /\ turns'[t].session = loc'[k].session /\ turns'[t].code = "none"
    BY <1>3, <2>0 DEF PendingTurn
  <2>2. /\ loc[k].session = None => loc[k].ordinal = 0
        /\ h # None => /\ h < nextDraft
                       /\ loc[k].session # None => captured[h] = SessionScope(loc[k].session)
                       /\ loc[k].session = None => captured[h].kind = "new"
    BY <1>3, <2>0 DEF DraftTask, Inserts, PreparePC
  <2>3. h # None => h \in Handle /\ h \in Nat
    BY <2>0, HostAssumption DEF HostTypes, HostTypeOK, Handle
  <2>4. loc[k].session # None => loc'[k].session = loc[k].session
    <3>1. ASSUME loc[k].session # None PROVE loc'[k].session = loc[k].session
      <4>0. loc \in [Task -> Locals] /\ loc[k] \in Locals /\ pc \in [Task -> PC]
        BY DEF HostTypes, HostTypeOK, Locals
      <4>1. AppendTurn(k) /\ ~ Ends(k)
        BY <1>3, <3>1, <4>0 DEF Inserts, CreateSession, Ends
      <4>2. PICK u \in TurnId : loc' = [loc EXCEPT ![k].turn = u]
        BY <4>1 DEF AppendTurn
      <4> QED BY <4>0, <4>2 DEF Locals
    <3> QED BY <3>1
  <2>5. h # None => captured'[h] = captured[h] /\ h < nextDraft'
    BY <1>0, <2>2, <2>3
  <2>6. h # None => BoundTo(t, captured[h])'
    BY <2>1, <2>2, <2>4, <2>5 DEF BoundTo, SessionScope
  <2> QED BY <2>1, <2>5, <2>6 DEF DraftTurn
<1>4. \/ turns'[t] = turns[t] \/ Inserted(t)
      \/ /\ Inflight(t) /\ Same(t)
         /\ turns'[t].state \in InflightState => turns'[t].code = turns[t].code
  BY RowChanges
<1> QED BY <1>1, <1>2, <1>3, <1>4 DEF Inserted


(* Every turn that has the draft is in flight or was refused for its size  *)
Unused(h) ==
  \A t \in TurnId : turns[t].source = h /\ turns[t].code # "context_limit" => Inflight(t)

(* The command is failing its turn because the request does not fit        *)
Refusing(k) ==
  /\ pc[k] \in FinishPC
  /\ loc[k].goal = "failed" /\ loc[k].code = "context_limit" /\ loc[k].return = "end"

(* While one process owns the database: a draft that is still stored, or   *)
(* that a send is about to use, has not reached the provider               *)
StoredDraft(h) ==
  /\ Unused(h)
  /\ \A k \in Task : pc[k] \in HasTurn /\ loc[k].draft = h =>
       pc[k] \in {"assemble", "recover"} \/ Refusing(k)

SentOnce ==
  \A t, u \in TurnId :
    (t # u /\ turns[t].source = turns[u].source /\ turns[t].source # None) =>
      "context_limit" \in {turns[t].code, turns[u].code}

SoleDrafts ==
  Sole => /\ \A p \in Proc : \A d \in drafts[p].drafts : StoredDraft(d.handle)
          /\ \A k \in Task : pc[k] \in PreparePC /\ loc[k].draft # None => Unused(loc[k].draft)
          /\ SentOnce

DraftInv == /\ DraftRows /\ SoleDrafts
            /\ \A k \in Task : DraftTask(k)
            /\ \A t \in TurnId : DraftTurn(t)

LEMMA RefusalGoesOn ==
  ASSUME HostTypes, NEW k \in Task, TaskStep(k) \/ StoreFails(k), Refusing(k), pc'[k] # "idle"
  PROVE  Refusing(k)' \/ pc'[k] = "recover"
<1>0. loc \in [Task -> Locals] /\ loc[k] \in Locals /\ pc \in [Task -> PC] /\ ~ Ends(k)
  BY DEF HostTypes, HostTypeOK, Locals, Ends
<1>1. ASSUME NEW ok, FinishReturns(k, ok) PROVE pc'[k] = "recover"
  BY <1>0, <1>1 DEF FinishReturns, Refusing, Goes
<1>2. CASE StoreFails(k)
  BY <1>0, <1>1, <1>2 DEF StoreFails, Refusing, FinishPC, PreparePC, ProjectPC, DeltaPC
<1>3. CASE FinishReadTurn(k) /\ ~ FinishReturns(k, FALSE)
  <2>1. pc'[k] = "finSession" /\ loc' = [loc EXCEPT ![k].text = turns[loc[k].turn].text]
    BY <1>0, <1>3 DEF FinishReadTurn, Goes
  <2> QED BY <1>0, <2>1 DEF Refusing, FinishPC, Locals
<1>4. CASE FinishReadSession(k)
  BY <1>0, <1>4 DEF FinishReadSession, Goes, Refusing, FinishPC, Locals
<1>5. CASE FinishReadSequence(k)
  <2> DEFINE n == NextEventSequence(loc[k].session)
  <2>1. pc'[k] = "finWrite" /\ loc' = [loc EXCEPT ![k].sequence = n]
    BY <1>0, <1>5 DEF FinishReadSequence, Goes
  <2> HIDE DEF n
  <2> QED BY <1>0, <2>1 DEF Refusing, FinishPC, Locals
<1>6. CASE FinishWrite(k)
  BY <1>1, <1>6 DEF FinishWrite
<1>7. CASE TaskStep(k)
  <2>1. FinishReadTurn(k) \/ FinishReadSession(k) \/ FinishReadSequence(k) \/ FinishWrite(k)
    BY <1>7 DEF TaskStep, ReadInflight, ReadSession, ReadHistory, ReadOrdinal, ReadSequence,
       CreateSession, AppendTurn, SendStart, Refresh, StreamCancelled, StreamDelta,
       StreamCompleted, StreamFails, DeltaReadTurn, DeltaReadSequence, DeltaWrite, Finalize,
       Recover, SetProjectReadSession, SetProjectReadSequence, SetProjectWrite, Refusing, FinishPC
  <2> QED BY <1>1, <1>3, <1>4, <1>5, <1>6, <2>1
<1> QED BY <1>2, <1>7

LEMMA UnusedKept ==
  ASSUME HostTypes, OwnInv, [HostNext]_hostVars, NEW h, Unused(h),
         \A p \in Proc : boot[p] # "writing",
         \A k \in Task : pc[k] = "finWrite" /\ turns[loc[k].turn].source = h => Refusing(k)
  PROVE  Unused(h)'
<1> SUFFICES ASSUME NEW t \in TurnId, turns'[t].source = h, turns'[t].code # "context_limit",
                    turns'[t].state \notin InflightState
             PROVE  FALSE
  BY DEF Unused, Inflight
<1>1. CASE turns'[t] = turns[t]
  BY <1>1 DEF Unused, Inflight
<1>2. ASSUME NEW k \in Task, turns'[t] = PendingTurn(k, loc'[k].session) PROVE FALSE
  BY <1>2 DEF PendingTurn, InflightState
<1>3. ASSUME Same(t), NEW k \in Task, pc[k] = "finWrite", loc[k].turn = t,
             turns'[t].code = CodeFor(loc[k].goal, loc[k].code)
      PROVE  FALSE
  <2>1. Refusing(k)
    BY <1>3 DEF Same
  <2> QED BY <1>3, <2>1 DEF Refusing, CodeFor
<1>4. \/ turns'[t] = turns[t] \/ Inserted(t)
      \/ /\ Same(t)
         /\ \E k \in Task : /\ pc[k] = "finWrite" /\ loc[k].turn = t
                            /\ turns'[t].code = CodeFor(loc[k].goal, loc[k].code)
  BY RowChanges
<1> QED BY <1>1, <1>2, <1>3, <1>4 DEF Inserted

LEMMA StoredKept ==
  ASSUME HostTypes, GateInv, OwnInv, DraftInv, Sole, [HostNext]_hostVars,
         NEW p \in Proc, NEW d \in drafts[p].drafts, d \in drafts'[p].drafts
  PROVE  StoredDraft(d.handle)'
<1>0. /\ pc \in [Task -> PC] /\ loc \in [Task -> Locals] /\ drafts \in [Proc -> DraftStore]
      /\ drafts[p] \in DraftStore /\ d.handle \in Handle /\ ProcOf \in [Task -> Proc]
  BY HostAssumption DEF HostTypes, HostTypeOK, TablesOK, Locals, DraftStore
<1>1. boot[p] = "up"
  BY DEF DraftInv, DraftRows
<1>2. \A q \in Proc : boot[q] # "new" => q = p
  BY <1>1, SoleActor
<1>3. PICK h : h = d.handle
  OBVIOUS
<1>4. h \in Handle /\ StoredDraft(h)
  BY <1>0, <1>3 DEF DraftInv, SoleDrafts
<1>5. Unused(h)'
  <2>1. \A q \in Proc : boot[q] # "writing"
    BY <1>1, <1>2
  <2>2. ASSUME NEW k \in Task, pc[k] = "finWrite", turns[loc[k].turn].source = h PROVE Refusing(k)
    <3>1. pc[k] \in HasTurn
      BY <2>2 DEF HasTurn, SendPC, PreparePC, FinishPC
    <3>2. loc[k].draft = h
      BY <2>2, <3>1 DEF DraftInv, DraftTask
    <3> QED BY <1>4, <2>2, <3>1, <3>2 DEF StoredDraft
  <2> QED BY <1>4, <2>1, <2>2, UnusedKept DEF StoredDraft
<1>6. ASSUME NEW k \in Task, pc'[k] \in HasTurn, loc'[k].draft = h
      PROVE  pc'[k] \in {"assemble", "recover"} \/ Refusing(k)'
  <2>1. CASE Stays(k)
    BY <1>4, <1>6, <2>1 DEF Stays, StoredDraft, Refusing
  <2>2. CASE Inserts(k)
    BY <2>2 DEF Inserts
  <2>3. CASE Carries(k)
    <3>1. pc'[k] # "idle" /\ (TaskStep(k) \/ StoreFails(k)) /\ pc[k] \in HasTurn
      BY <1>6, <2>3 DEF Carries, HasTurn, SendPC, PreparePC, DeltaPC, FinishPC
    <3>2. loc[k].draft = h
      BY <1>6, <3>1, DraftKept
    <3>3. pc[k] \in {"assemble", "recover"} \/ Refusing(k)
      BY <1>4, <3>1, <3>2 DEF StoredDraft
    <3>4. CASE pc[k] = "assemble"
      <4>1. SendStart(k)
        BY <3>1, <3>4 DEF StoreFails, StorePC, PreparePC, DeltaPC, FinishPC, ProjectPC, TaskStep,
           ReadInflight, ReadSession, ReadHistory, ReadOrdinal, ReadSequence,
           CreateSession, AppendTurn, Refresh, StreamCancelled, StreamDelta,
           StreamCompleted, StreamFails, DeltaReadTurn, DeltaReadSequence, DeltaWrite, Finalize,
           FinishReadTurn, FinishReadSession, FinishReadSequence, FinishWrite,
           Recover, SetProjectReadSession, SetProjectReadSequence, SetProjectWrite
      <4>2. CASE Finishes(k, "failed", "context_limit", "end")
        BY <1>0, <4>2 DEF Finishes, Refusing, FinishPC, Locals
      <4>3. CASE drafts' = [drafts EXCEPT ![ProcOf[k]] =
                   BindSessionScope(ClearHandle(@, loc[k].draft), loc[k].session)]
        <5>1. ProcOf[k] = p
          <6>1. ProcOf[k] \in Proc /\ GateOf(ProcOf[k])
            BY <1>0 DEF GateInv
          <6>2. Busy(ProcOf[k])
            BY <3>4 DEF Busy
          <6>3. boot[ProcOf[k]] = "up"
            BY <6>1, <6>2 DEF GateOf
          <6> QED BY <1>2, <6>1, <6>3
        <5>2. drafts'[p] = BindSessionScope(ClearHandle(drafts[p], h), loc[k].session)
          BY <1>0, <3>2, <4>3, <5>1
        <5>3. \A e \in drafts'[p].drafts : e.handle # h
          BY <1>0, <5>2 DEF BindSessionScope, ClearHandle, DraftStore
        <5> QED BY <1>3, <5>3
      <4> QED BY <4>1, <4>2, <4>3 DEF SendStart
    <3>5. CASE pc[k] = "recover"
      <4>1. Recover(k)
        BY <3>1, <3>5 DEF StoreFails, StorePC, PreparePC, DeltaPC, FinishPC, ProjectPC, TaskStep,
           ReadInflight, ReadSession, ReadHistory, ReadOrdinal, ReadSequence,
           CreateSession, AppendTurn, SendStart, Refresh, StreamCancelled, StreamDelta,
           StreamCompleted, StreamFails, DeltaReadTurn, DeltaReadSequence, DeltaWrite, Finalize,
           FinishReadTurn, FinishReadSession, FinishReadSequence, FinishWrite,
           SetProjectReadSession, SetProjectReadSequence, SetProjectWrite
      <4> QED BY <1>0, <3>1, <4>1 DEF Recover, Ends
    <3>6. CASE Refusing(k)
      BY <3>1, <3>6, RefusalGoesOn
    <3> QED BY <3>3, <3>4, <3>5, <3>6
  <2>4. ~ Idles(k) /\ ~ Begins(k) /\ ~ Reads(k)
    BY <1>6 DEF Idles, Begins, Reads, HasTurn, SendPC, PreparePC, DeltaPC, FinishPC, ProjectPC
  <2> QED BY <2>1, <2>2, <2>3, <2>4, TaskCases
<1>7. StoredDraft(h)'
  BY <1>5, <1>6 DEF StoredDraft
<1> QED BY <1>3, <1>7


LEMMA SentOnceStep ==
  ASSUME HostTypes, GateInv, OwnInv, SoleInv, DraftInv, Sole, [HostNext]_hostVars
  PROVE  SentOnce'
<1>0. /\ SentOnce /\ \A t \in TurnId : DraftTurn(t)
      /\ \A k \in Task : pc[k] \in PreparePC /\ loc[k].draft # None => Unused(loc[k].draft)
  BY DEF DraftInv, SoleDrafts
<1>1. ASSUME NEW t \in TurnId, NEW u \in TurnId, t # u, turns'[t].source = turns'[u].source,
             turns'[t].source # None, Inserted(t)
      PROVE  turns'[u].code = "context_limit"
  <2>1. PICK k \in Task : /\ Inserts(k) /\ t = loc'[k].turn
                          /\ turns'[t] = PendingTurn(k, loc'[k].session)
    BY <1>1 DEF Inserted
  <2>2. turns'[t].source = loc[k].draft /\ pc[k] = "append"
    BY <2>1 DEF PendingTurn, Inserts
  <2>3. turns'[u] = turns[u]
    BY <1>1, <2>1, InsertedTurn
  <2>4. ~ Inflight(u)
    BY <2>2 DEF SoleInv, SoleTask, HasInflightTurn, PreparePC
  <2>5. Unused(loc[k].draft)
    BY <1>0, <1>1, <2>2 DEF PreparePC
  <2> QED BY <1>1, <2>2, <2>3, <2>4, <2>5 DEF Unused
<1>2. ASSUME NEW t \in TurnId, turns[t].code = "context_limit", ~ Inserted(t)
      PROVE  turns'[t].code = "context_limit"
  <2>1. ~ Inflight(t)
    BY <1>0, <1>2 DEF DraftTurn
  <2>2. turns'[t] = turns[t]
    BY <1>2, <2>1, RowChanges
  <2> QED BY <1>2, <2>2
<1>3. ASSUME NEW t \in TurnId, ~ Inserted(t) PROVE turns'[t].source = turns[t].source
  BY <1>3, RowChanges DEF Same
<1> SUFFICES ASSUME NEW t \in TurnId, NEW u \in TurnId, t # u, turns'[t].source = turns'[u].source,
                    turns'[t].source # None
             PROVE  "context_limit" \in {turns'[t].code, turns'[u].code}
  BY DEF SentOnce
<1>4. CASE Inserted(t) \/ Inserted(u)
  BY <1>1, <1>4
<1>5. CASE ~ Inserted(t) /\ ~ Inserted(u)
  <2>1. turns[t].code = "context_limit" \/ turns[u].code = "context_limit"
    BY <1>0, <1>3, <1>5 DEF SentOnce
  <2> QED BY <1>2, <1>5, <2>1
<1> QED BY <1>4, <1>5

LEMMA SoleDraftsStep ==
  ASSUME HostTypes, GateInv, OwnInv, SoleInv, DraftInv, [HostNext]_hostVars
  PROVE  SoleDrafts'
<1> SUFFICES ASSUME Sole'
             PROVE  /\ \A p \in Proc : \A d \in drafts'[p].drafts : StoredDraft(d.handle)'
                    /\ \A k \in Task : pc'[k] \in PreparePC /\ loc'[k].draft # None
                                         => Unused(loc[k].draft)'
                    /\ SentOnce'
  BY DEF SoleDrafts
<1>0. Sole /\ pc \in [Task -> PC] /\ loc \in [Task -> Locals] /\ drafts \in [Proc -> DraftStore]
  BY SoleBefore DEF HostTypes, HostTypeOK, TablesOK, Locals
<1>1. ASSUME NEW p \in Proc, NEW d \in drafts'[p].drafts PROVE StoredDraft(d.handle)'
  <2>1. CASE d \in drafts[p].drafts
    BY <1>0, <1>1, <2>1, StoredKept
  <2>2. CASE d \notin drafts[p].drafts
    <3>1. PICK c \in Task : Captures(c) /\ PickEnd(c)
      BY <1>1, <2>2, DraftsChange
    <3>2. PICK h : h = nextDraft
      OBVIOUS
    <3>3. h \in Handle /\ h \in Nat
      BY <3>1, <3>2, HostAssumption DEF Captures, Handle
    <3>4. d.handle = h
      <4>1. drafts[ProcOf[c]] \in DraftStore /\ ProcOf[c] \in Proc
        BY <1>0, HostAssumption
      <4>2. drafts' = [drafts EXCEPT ![ProcOf[c]] = ReplaceWith(@, h)]
        BY <3>1, <3>2 DEF Captures
      <4>3. p = ProcOf[c]
        BY <1>0, <1>1, <2>2, <4>2
      <4> QED BY <1>0, <1>1, <4>1, <4>2, <4>3 DEF ReplaceWith, DraftStore
    <3>5. turns' = turns
      BY <3>1 DEF Captures, durable
    <3>6. \A t \in TurnId : turns[t].source # h
      <4>1. \A t \in TurnId : turns[t].source # None => turns[t].source < h
        BY <3>2 DEF DraftInv, DraftTurn
      <4> QED BY <3>3, <4>1 DEF Handle, None
    <3>7. \A k \in Task : pc'[k] = "idle"
      <4>1. \A k \in Task : k # c => pc[k] = "idle"
        BY <1>0, <3>1, SoleActor DEF Captures
      <4> QED BY <1>0, <3>1, <4>1 DEF PickEnd, Ends
    <3>8. StoredDraft(h)'
      BY <3>5, <3>6, <3>7 DEF StoredDraft, Unused, HasTurn, SendPC, PreparePC, DeltaPC, FinishPC
    <3> QED BY <3>4, <3>8
  <2> QED BY <2>1, <2>2
<1>2. ASSUME NEW k \in Task, pc'[k] \in PreparePC, loc'[k].draft # None PROVE Unused(loc[k].draft)'
  <2>1. ASSUME NEW h, h = loc'[k].draft, Unused(h), UNCHANGED durable PROVE Unused(loc[k].draft)'
    BY <2>1 DEF Unused, Inflight, durable
  <2>2. ASSUME pc[k] \in PreparePC, loc'[k].draft = loc[k].draft, UNCHANGED durable
        PROVE  Unused(loc[k].draft)'
    BY <1>0, <1>2, <2>1, <2>2 DEF DraftInv, SoleDrafts
  <2>3. CASE Stays(k)
    <3>1. pc[k] # "idle"
      BY <1>2, <2>3 DEF Stays, PreparePC
    <3>2. UNCHANGED durable
      BY <1>0, <2>3, <3>1, SoleWriter
    <3> QED BY <1>2, <2>2, <2>3, <3>2 DEF Stays
  <2>4. CASE Reads(k)
    <3>1. pc[k] \in PreparePC
      <4>1. ReadInflight(k) \/ ReadSession(k) \/ ReadHistory(k) \/ ReadOrdinal(k) \/ ReadSequence(k)
        BY <1>2, <2>4, Arrivals DEF Reads, PreparePC
      <4> QED BY <4>1 DEF ReadInflight, ReadSession, ReadHistory, ReadOrdinal, ReadSequence, PreparePC
    <3>2. loc'[k].draft = loc[k].draft
      <4>1. pc'[k] # "idle"
        BY <1>2 DEF PreparePC
      <4> QED BY <2>4, <4>1, DraftKept DEF Reads
    <3> QED BY <2>2, <2>4, <3>1, <3>2 DEF Reads
  <2>5. CASE Begins(k)
    <3>1. SendBegin(k)
      <4>1. pc'[k] \notin {"idle", "pick", "pjSession"}
        BY <1>2 DEF PreparePC
      <4> QED BY <1>0, <2>5, <4>1 DEF Begins, Command, SetProjectBegin, PickBegin, PickEnd, Ends
    <3>2. PICK s \in {None} \cup SessionId, pr \in AnyProject, h \in {None} \cup Handle :
            /\ h # None => ResolvesForSend(drafts[ProcOf[k]], h, s)
            /\ loc' = [loc EXCEPT ![k] = [Blank EXCEPT !.session = s, !.project = pr, !.draft = h]]
      BY <3>1 DEF SendBegin
    <3>3. loc'[k].draft = h
      BY <1>0, <3>2 DEF Blank
    <3>4. PICK d \in drafts[ProcOf[k]].drafts : d.handle = h
      BY <1>2, <3>2, <3>3 DEF ResolvesForSend
    <3>5. Unused(h)
      <4>1. ProcOf[k] \in Proc
        BY HostAssumption
      <4>2. StoredDraft(d.handle)
        BY <1>0, <4>1 DEF DraftInv, SoleDrafts
      <4> QED BY <3>4, <4>2 DEF StoredDraft
    <3> QED BY <2>1, <2>5, <3>3, <3>5 DEF Begins
  <2>6. ~ Idles(k) /\ ~ Carries(k) /\ ~ Inserts(k)
    BY <1>2 DEF Idles, Carries, Inserts, HasTurn, SendPC, PreparePC, DeltaPC, FinishPC
  <2> QED BY <2>3, <2>4, <2>5, <2>6, TaskCases
<1>3. SentOnce'
  BY <1>0, SentOnceStep
<1> QED BY <1>1, <1>2, <1>3

LEMMA DraftInit == HostInit => DraftInv
<1> SUFFICES ASSUME HostInit PROVE DraftInv
  OBVIOUS
<1>1. DraftRows
  BY DEF HostInit, DraftRows, EmptyDrafts
<1>2. \A k \in Task : DraftTask(k)
  BY DEF HostInit, DraftTask, HasTurn, SendPC, PreparePC, DeltaPC, FinishPC
<1>3. \A t \in TurnId : DraftTurn(t) /\ turns[t].source = None
  BY DEF HostInit, DraftTurn, AbsentTurn, Inflight, InflightState
<1>4. SoleDrafts
  <2>1. SentOnce
    BY <1>3 DEF SentOnce
  <2>2. \A p \in Proc : drafts[p].drafts = {}
    BY DEF HostInit, EmptyDrafts
  <2>3. \A k \in Task : pc[k] \notin PreparePC
    BY DEF HostInit, PreparePC
  <2> QED BY <2>1, <2>2, <2>3 DEF SoleDrafts
<1> QED BY <1>1, <1>2, <1>3, <1>4 DEF DraftInv

LEMMA DraftStep ==
  ASSUME HostInv, HostInv', DraftInv, [HostNext]_hostVars
  PROVE  DraftInv'
<1>1. DraftRows'
  BY DraftRowsStep DEF HostInv, DraftInv
<1>2. \A k \in Task : DraftTask(k)'
  BY DraftTaskStep DEF HostInv, DraftInv
<1>3. \A t \in TurnId : DraftTurn(t)'
  BY DraftTurnStep DEF HostInv, DraftInv
<1>4. SoleDrafts'
  BY SoleDraftsStep DEF HostInv
<1> QED BY <1>1, <1>2, <1>3, <1>4 DEF DraftInv

(* A Source draft goes only to the composer scope it was captured in, and  *)
(* while one process owns the database only one turn that reaches the      *)
(* provider has it, although a refused turn leaves the draft in the store  *)
(* (source_draft.rs:207, agents.rs:1066)                                   *)
THEOREM DraftBound == HostSpec => []DraftIsBound
<1>1. DraftInv => DraftIsBound
  <2>1. DraftInv => \A t \in TurnId : turns[t].source # None => BoundTo(t, captured[turns[t].source])
    BY DEF DraftInv, DraftTurn
  <2>2. DraftInv => (Sole => SentOnce)
    BY DEF DraftInv, SoleDrafts
  <2> QED BY <2>1, <2>2 DEF DraftIsBound, BoundTo, Sole, SentOnce
<1>2. HostInv /\ HostInv' /\ DraftInv /\ [HostNext]_hostVars => DraftInv'
  BY DraftStep
<1> QED BY <1>1, <1>2, HostInvariant, DraftInit, PTL DEF HostSpec
=============================================================================
