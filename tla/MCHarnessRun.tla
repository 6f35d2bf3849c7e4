---------------------------- MODULE MCHarnessRun ----------------------------
(***************************************************************************)
(* One process, the whole life of a Run from its creation: bootstrap,      *)
(* approval, grants and execution.  Up to MaxDisturb times something goes  *)
(* wrong, the process is started again, the user pauses, cancels, revokes, *)
(* takes over the lease or edits the target, or time passes.               *)
(***************************************************************************)
EXTENDS HarnessRun, TLC

CONSTANTS
  p1,
  MaxDisturb      \* faults and acts of the environment (bound)

VARIABLE disturbed

MCProc     == {p1}
MCContent  == {"ready", "review"}
MCReview   == [c \in {"ready"} |-> "review"]
MCScope    == MCContent \cup {"index.html"}
MCOps      == Capability
MCClaimant == {CLAIMANT}
MCOwner    == MCProc \X (0 .. MaxCrash)

MCInit == HarnessInit /\ disturbed = 0

MCNext ==
  \/ (\E p \in Proc : Command(p)) /\ UNCHANGED disturbed
  \/ /\ disturbed < MaxDisturb /\ disturbed' = disturbed + 1
     /\ Environment \/ \E p \in Proc : Fault(p)

MCSpec == MCInit /\ [][MCNext]_<<harnessVars, disturbed>>
=============================================================================
