--------------------------- MODULE MCRunStoreCAS ---------------------------
(***************************************************************************)
(* One Run in its tables, in two views: two processes between their reads  *)
(* and their commits (RunStoreCAS), and the records as columns that are    *)
(* read back (RunEvidence).  The views share no state, so a behaviour is   *)
(* one of a single view; the evidence is explored in three views, each     *)
(* about some of the events.                                               *)
(***************************************************************************)
EXTENDS RunStoreCAS, RunEvidence

CONSTANTS h1, h2

VARIABLE view

MCHost     == {h1, h2}
MCScope    == {"target"}
MCOps      == {"CreateOrReplace"}
MCClaimant == {"operation-broker"}
MCSymmetry == Permutations(MCHost)

(* The second text is what the encoding puts between two of the first *)
MCWording ==
  {<<"t">>, <<"t", "provider_profile_id", "xai-subscription-oauth", "model_id", "t">>}

MCInit ==
  /\ view \in {"processes", "pairs", "journal", "leases"}
  /\ CASInit /\ EvidenceInit
  /\ view # "pairs" => db.run.cohort = <<>>

(* The use cases of a view, with a bound on its events *)
MCNext ==
  /\ UNCHANGED view
  /\ \/ /\ view = "processes" /\ CASNext /\ UNCHANGED evidenceVars
     \/ /\ \/ view = "pairs"   /\ Len(db.events) < 5 /\ (PairNext \/ PrepareNext)
           \/ view = "journal" /\ Len(db.events) < 7 /\ (PrepareNext \/ EffectNext)
           \/ view = "leases"  /\ Len(db.events) < 6 /\ (PrepareNext \/ LeaseNext)
        /\ UNCHANGED casVars

MCSpec == MCInit /\ [][MCNext]_<<view, casVars, evidenceVars>>
=============================================================================
