---------------------------- MODULE MCAgentHost ----------------------------
(***************************************************************************)
(* One process, whose user has two commands in progress at a time: k1      *)
(* sends, k2 picks Sources and sets the Project.  One fault: a store call  *)
(* fails, or the process ends and is started again.                        *)
(***************************************************************************)
EXTENDS AgentHost, TLC

CONSTANTS p1, k1, k2

MCProc   == {p1}
MCTask   == {k1, k2}
MCProcOf == (k1 :> p1) @@ (k2 :> p1)

MCNext ==
  \/ \E k \in Task : TaskStep(k) \/ StoreFails(k)
  \/ SendBegin(k1) \/ SetProjectBegin(k2) \/ PickBegin(k2) \/ PickEnd(k2)
  \/ CancelAgentTurn(p1) \/ ClearDraft(p1) \/ SetScope(p1)
  \/ SaveRead(p1) \/ SaveWrite(p1)
  \/ Start(p1) \/ ProcessEnds(p1)

MCSpec == HostInit /\ [][MCNext]_hostVars
=============================================================================
