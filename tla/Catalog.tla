------------------------------- MODULE Catalog -------------------------------
(***************************************************************************)
(* The provider model catalog: the tables of sqlite/provider_models.rs as  *)
(* one record, and what provider.rs reads from and writes to it.  Module   *)
(* Credentials puts it in motion; what parse_catalog_body and the filter   *)
(* of usable models make of a fetched body is any set of models.           *)
(*                                                                         *)
(* The entries of the stored catalog carry the account whose access token  *)
(* fetched them; the tables do not, which is what the generation and the   *)
(* seal are for.  Entries and rejections of another generation than the    *)
(* current one never survive the transaction that advances it, so one      *)
(* generation of each is kept.                                             *)
(***************************************************************************)
EXTENDS Integers

CONSTANTS Model, NoModel, DefaultModel

ASSUME CatalogAssumption == DefaultModel \in Model /\ NoModel \notin Model

(* provider::REQUIRES_EXPLICIT_CHOICE.                                     *)
RequiresExplicitChoice == "requires_choice"

(* A new database: nothing fetched, the built-in default selected.         *)
EmptyCatalog(account) ==
  [generation |-> 0, account |-> account, entries |-> {}, current |-> FALSE,
   rejected |-> {}, selected |-> DefaultModel]

(* get_catalog_snapshot: the rejected entries are left out, and an empty   *)
(* rest is no snapshot.  Not hidden by the seal.                           *)
Snapshot(c) == c.entries \ c.rejected

(* catalog_needs_refresh and the early return of refresh_model_catalog;    *)
(* `current' is freshness and compatibility revision together.             *)
NeedsRefresh(c) == Snapshot(c) = {} \/ ~c.current

(* replace_catalog_snapshot; the caller has filtered the rejected entries, *)
(* and an empty rest is refused.                                           *)
CanReplace(c, models) == models \ c.rejected # {}

ReplaceSnapshot(c, generation, account, models) ==
  [c EXCEPT !.generation = generation, !.account = account,
            !.entries = models \ c.rejected, !.current = TRUE]

(* touch_catalog_retrieval, after a 304.                                   *)
Touch(c) == [c EXCEPT !.current = TRUE]

(* invalidate_catalog_for_credential_change, the seal apart.               *)
InvalidateCatalog(c) ==
  [c EXCEPT !.generation = @ + 1, !.entries = {}, !.current = FALSE, !.rejected = {}]

ScrubCatalog(c) == [c EXCEPT !.entries = {}, !.current = FALSE, !.rejected = {}]

(* resolve_selected_default.                                               *)
ResolveSelectedDefault(selected, entries) ==
  LET wanted == IF selected = NoModel THEN DefaultModel ELSE selected
  IN  IF wanted \in entries THEN wanted ELSE NoModel

(* build_selection_response's selected_model_id and requires_selection.    *)
SelectionResponse(c, sealed) ==
  LET resolved == ResolveSelectedDefault(c.selected, Snapshot(c)) IN
  CASE sealed -> [model |-> NoModel, requires |-> FALSE]
    [] ~sealed /\ c.selected = RequiresExplicitChoice ->
         [model |-> NoModel, requires |-> Snapshot(c) # {}]
    [] ~sealed /\ c.selected # RequiresExplicitChoice /\ resolved # NoModel ->
         [model |-> resolved, requires |-> FALSE]
    [] OTHER -> [model |-> c.selected, requires |-> Snapshot(c) # {} \/ c.selected # NoModel]

(* build_catalog_response: what the windows are shown.                     *)
CatalogResponse(c, sealed) == IF sealed THEN {} ELSE Snapshot(c)

(* validate_new_session_model and the checks of persist_model_selection.   *)
AcceptsModel(c, m) == m \notin c.rejected /\ m \in Snapshot(c)

(* apply_model_rejection.                                                  *)
RejectModel(c, m, sealed) ==
  LET d == [c EXCEPT !.rejected = @ \cup {m}]
  IN  IF SelectionResponse(d, sealed).model = m \/ d.selected = m
      THEN [d EXCEPT !.selected = RequiresExplicitChoice] ELSE d
=============================================================================
