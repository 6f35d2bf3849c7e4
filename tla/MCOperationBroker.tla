------------------------- MODULE MCOperationBroker -------------------------
(***************************************************************************)
(* Two processes on one Run.  Of the other use cases the environment takes *)
(* those that change what the handshake reads: a pair is frozen, grants    *)
(* are issued and revoked, the Run is cancelled, unknowns are reconciled.  *)
(***************************************************************************)
EXTENDS OperationBroker, TLC

CONSTANTS p1, p2

MCProc     == {p1, p2}
MCScope    == {"target"}
MCOps      == {"CreateOrReplace"}
MCClaimant == {CLAIMANT}
MCSymmetry == Permutations(MCProc)

MCNext ==
  \/ \E p \in Proc, op \in Ops, g \in GrantId, s \in Scope,
        pr \in frozen \cup {NoPair} :
       CallBroker(p, op, g, grants[g], s, pr, clock)
  \/ \E p \in Proc : Handshake(p) \/ Return(p) \/ EndProcess(p)
  \/ /\ \/ \E pr \in PairId : FreezePair(pr)
        \/ \E g \in GrantId, op \in Ops, s \in Scope,
              pr \in frozen \cup {NoPair} : IssueGrant(g, op, s, pr, clock)
        \/ \E g \in GrantId : RevokeGrant(g)
        \/ CancelRun
     /\ UNCHANGED brokerVars
  \/ \E e \in EffectId, probe \in Probe : Reconcile(e, probe)

MCSpec == Init /\ [][MCNext]_vars
=============================================================================
