----------------------------- MODULE MCServices -----------------------------
(***************************************************************************)
(* The services behind the agent commands for TLC.  They share no state    *)
(* (AgentHost has what a turn does with them), so a behaviour is one of a  *)
(* single service and the others stay where they are.                      *)
(***************************************************************************)
EXTENDS Credentials, ProviderStream, SourceCapture

VARIABLE service

MCTexts ==
  LET text(n) == [i \in 1 .. n |-> <<"text", 0>>]
  IN  {<<>>, text(1), Header(1, 1) \o text(1), text(MaxSource + 1)}

MCInit ==
  /\ service \in {"account", "stream", "capture"}
  /\ service = "stream"  \/ wire = <<>>
  /\ service = "capture" \/ (folder = <<>> /\ draft = NoDraft)
  /\ CredInit /\ StreamInit /\ CaptureInit

MCNext ==
  /\ UNCHANGED service
  /\ \/ service = "account" /\ CredNext    /\ UNCHANGED <<streamVars, captureVars>>
     \/ service = "stream"  /\ StreamNext  /\ UNCHANGED <<credVars, captureVars>>
     \/ service = "capture" /\ CaptureNext /\ UNCHANGED <<credVars, streamVars>>

MCSpec == MCInit /\ [][MCNext]_<<service, credVars, streamVars, captureVars>>
=============================================================================
