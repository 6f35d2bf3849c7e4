---------------------------- MODULE MCAgentHosts ----------------------------
(***************************************************************************)
(* Two processes on one database, started in either order and at any time, *)
(* each sending.                                                           *)
(***************************************************************************)
EXTENDS AgentHost, TLC

CONSTANTS p1, p2, k1, k3

MCProc   == {p1, p2}
MCTask   == {k1, k3}
MCProcOf == (k1 :> p1) @@ (k3 :> p2)

MCNext ==
  \/ \E k \in Task : TaskStep(k) \/ SendBegin(k)
  \/ \E p \in Proc : Start(p)

MCSpec == HostInit /\ [][MCNext]_hostVars /\ HostFairness
=============================================================================
