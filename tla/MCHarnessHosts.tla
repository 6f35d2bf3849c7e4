--------------------------- MODULE MCHarnessHosts ---------------------------
(***************************************************************************)
(* Two processes on one Run that is ready to execute.  Both have bound the *)
(* target and read it; the first one's bootstrap froze pair 1, which was   *)
(* approved and granted; the second one's bootstrap stopped after its      *)
(* read.  From there the processes execute, bootstrap and approve against  *)
(* each other, with up to MaxDisturb faults, restarts, ticks and acts of   *)
(* the user.                                                               *)
(***************************************************************************)
EXTENDS HarnessRun, Sequences, TLC

CONSTANTS
  p1, p2,
  MaxDisturb      \* faults and acts of the environment (bound)

VARIABLE disturbed

MCProc     == {p1, p2}
MCContent  == {"ready", "review"}
MCReview   == [c \in {"ready"} |-> "review"]
MCScope    == MCContent \cup {"index.html"}
MCOps      == Capability
MCClaimant == {CLAIMANT}
MCOwner    == MCProc \X (0 .. MaxCrash)

Grant(cap, scope, pair, left) ==
  [cap |-> cap, scope |-> scope, pair |-> pair, issued |-> 0, left |-> left,
   revoked |-> FALSE]
Settled(op, g) ==
  [phase |-> "Settled", op |-> op, grant |-> g, pair |-> NoPair,
   claimant |-> CLAIMANT, result |-> "Success",
   certainty |-> "ConfirmedCommitted"]
Pad(s, none, ids) == [i \in ids |-> IF i <= Len(s) THEN s[i] ELSE none]

MCInit ==
  LET issued == << Grant("LocalRead", Target, NoPair, 0),
                   Grant("ProviderDisclose", "ready", NoPair, 0),
                   Grant("LocalRead", Target, NoPair, 0),
                   Grant("CreateOrReplace", "ready", 1, 1),
                   Grant("NativeInspection", Target, 1, 1) >>
      done   == << Settled("LocalRead", 1), Settled("ProviderDisclose", 2),
                   Settled("LocalRead", 3) >>
  IN /\ life = "Executing" /\ cancelled = FALSE
     /\ frozen = {1} /\ approved = {1} /\ result = NoPair
     /\ grants = Pad(issued, NoGrant, GrantId)
     /\ effects = Pad(done, NoEffect, EffectId)
     /\ clock = 0 /\ call = [p \in Proc |-> NoCall]
     /\ performed = [e \in EffectId |-> e <= 3]
     /\ spentBy = [g \in GrantId |-> IF g <= 3 THEN g ELSE 0]
     /\ LeaseInit
     /\ file = [content |-> "ready", ident |-> 0]
     /\ pairs = [k \in PairId |->
                   [pre |-> IF k = 1 THEN "ready" ELSE NoContent,
                    ident |-> 0, at |-> 0]]
     /\ binding = [p \in Proc |->
                     [bound |-> TRUE, pre |-> "ready", ident |-> 0]]
     /\ cmd = [p \in Proc |-> NoCmd]
     /\ instance = [p \in Proc |-> 0]
     /\ validations = {}
     /\ disturbed = 0

MCNext ==
  \/ (\E p \in Proc : Command(p)) /\ UNCHANGED disturbed
  \/ /\ disturbed < MaxDisturb /\ disturbed' = disturbed + 1
     /\ Environment \/ \E p \in Proc : Fault(p)

MCSpec == MCInit /\ [][MCNext]_<<harnessVars, disturbed>>
=============================================================================
