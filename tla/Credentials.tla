---------------------------- MODULE Credentials ----------------------------
(***************************************************************************)
(* The xAI subscription adapter's credentials (xai_subscription.rs), the   *)
(* commands of lib.rs that connect, disconnect and fetch the catalog, and  *)
(* the part of a send that refreshes and uses the access token.            *)
(*                                                                         *)
(* Three values are kept in the credential manager, each with one call and *)
(* without a transaction; the handle in the provider profile, in SQLite,   *)
(* is the marker that they belong together.  persist_tokens and            *)
(* remove_credentials_and_metadata change them one call at a time and put  *)
(* back what they changed when a call fails.  A step is one such call or   *)
(* one wait for the provider or the user; the process may end between two  *)
(* steps and is then started again.                                        *)
(*                                                                         *)
(* profile_lock is held while op is not NoOp.  gate is the operation gate  *)
(* that connect, disconnect and send share: "stream", "reject" and "fetch" *)
(* are the points where its holder has let go of profile_lock.  A stored   *)
(* value is the account it was issued for.                                 *)
(***************************************************************************)
EXTENDS Catalog, Sequences

CONSTANTS
  Account, NoAccount,
  Withdrawn,        \* the offer of a connect that was cancelled
  MaxGeneration,    \* catalog generation at which no connect or disconnect begins (bound)
  MaxFaults,        \* failed calls on the stores (bound)
  MaxRestarts       \* ends of the process (bound)

ASSUME CredentialsAssumption ==
  /\ NoAccount \notin Account /\ Withdrawn \notin Account
  /\ MaxGeneration \in Nat /\ MaxFaults \in Nat /\ MaxRestarts \in Nat

VARIABLES
  cred,        \* credential manager: kind -> account it was issued for
  marker,      \* provider profile: the credential handle is ours
  seal,        \* provider_model_catalog_quarantine holds the profile
  catalog,     \* the catalog tables
  flag,        \* reconnect_required
  connecting,
  slot,        \* connect_cancel: none, armed, cancelled
  gate, op,
  choice,      \* a set_provider_model_selection that has passed its checks
  faults, restarts,
  owner,       \* history: the account of the last connect that committed
  cut          \* history: how the last change of accounts was cut short, or "no"

stored   == <<cred, marker, seal, catalog>>
holder   == <<connecting, slot, gate, op>>
bounds   == <<faults, restarts>>
history  == <<owner, cut>>
credVars == <<stored, holder, flag, choice, bounds, history>>

Kind == {"refresh", "access", "account"}

WriteOrder(keep) ==
  IF keep THEN <<"access", "account">> ELSE <<"refresh", "access", "account">>
DeleteOrder == <<"account", "access", "refresh">>

NoCred == [k \in Kind |-> NoAccount]
NoOp   == [by |-> "none", pc |-> "idle", account |-> NoAccount, keep |-> FALSE,
           force |-> FALSE, token |-> FALSE, snap |-> NoCred, mark |-> FALSE,
           prior |-> NoAccount, changed |-> FALSE, todo |-> <<>>, done |-> <<>>,
           restore |-> TRUE, markBack |-> FALSE, sealBack |-> FALSE,
           committed |-> FALSE, whole |-> TRUE]

CredInit ==
  /\ cred = NoCred /\ marker = FALSE /\ seal = FALSE /\ catalog = EmptyCatalog(NoAccount)
  /\ flag = FALSE /\ connecting = FALSE /\ slot = "none" /\ gate = "free" /\ op = NoOp
  /\ choice = NoModel /\ faults = 0 /\ restarts = 0
  /\ owner = NoAccount /\ cut = "no"

(* connection_status_for_commit_marker.                                    *)
ConnectionStatus ==
  LET present == {k \in Kind : cred[k] # NoAccount} IN
  CASE connecting                                        -> "connecting"
    [] ~connecting /\ flag                               -> "reconnect_required"
    [] ~connecting /\ ~flag /\ present = Kind /\ marker  -> "connected"
    [] ~connecting /\ ~flag /\ present = {} /\ ~marker   -> "disconnected"
    [] OTHER                                             -> "reconnect_required"

-----------------------------------------------------------------------------
(* A call on the credential manager or the database succeeds or fails.     *)
Call(ok) ==
  /\ ok \in BOOLEAN /\ UNCHANGED restarts
  /\ IF ok THEN UNCHANGED faults ELSE faults < MaxFaults /\ faults' = faults + 1

At(pc) == op.pc = pc

Goes(pc) == op' = [op EXCEPT !.pc = pc] /\ UNCHANGED <<connecting, slot, gate>>

(* The operation lets go of profile_lock.  A connect also clears its slot  *)
(* and `connecting'; a command that took the gate leaves it at g.          *)
(* Mutant: the slot of a connect that ends is not cleared.                 *)
X_Ends(g) ==
  /\ op' = NoOp
  /\ connecting' = FALSE
  /\ UNCHANGED slot
  /\ gate' = IF op.by = "catalog" THEN gate ELSE g

Ends(g) ==
  /\ op' = NoOp
  /\ connecting' = FALSE
  /\ slot' = IF op.by = "connect" THEN "none" ELSE slot
  /\ gate' = IF op.by = "catalog" THEN gate ELSE g

Begins(by, pc) == op = NoOp /\ op' = [NoOp EXCEPT !.by = by, !.pc = pc, !.prior = owner]

(* PersistenceCancellation::is_cancelled.                                  *)
Cancelled == \/ op.by = "connect" /\ slot = "cancelled"
             \/ op.by = "send" /\ op.token

(* What cut becomes when the operation goes no further: values put back    *)
(* under a commit that stands, or a change the catalog has not followed.   *)
Broken ==
  CASE op.committed /\ ~At("invalidate")                                -> "torn"
    [] op.changed /\ (~op.committed \/ At("invalidate")) /\ cut = "no" -> "uninvalidated"
    [] OTHER                                                             -> cut

(* restore_persistence_state and restore_snapshot_and_catalog_access begin *)
(* by putting the values back in reverse order.                            *)
Reversed(s) == [i \in 1 .. Len(s) |-> s[Len(s) + 1 - i]]

UndoBegins(done, markBack, sealBack) ==
  /\ op' = [op EXCEPT !.pc = "undo", !.todo = Reversed(done),
                      !.markBack = markBack, !.sealBack = sealBack]
  /\ UNCHANGED <<connecting, slot, gate>>

-----------------------------------------------------------------------------
(* connect_xai and connect_device_code.  With profile_lock taken the       *)
(* command is refused and leaves nothing behind.                           *)
ConnectBegin ==
  /\ gate = "free" /\ ~connecting /\ catalog.generation < MaxGeneration
  /\ Begins("connect", "device")
  /\ connecting' = TRUE /\ slot' = "armed" /\ gate' = "busy"
  /\ UNCHANGED <<stored, flag, choice, bounds, history>>

(* cancel_xai_connect.                                                     *)
CancelConnect ==
  /\ slot = "armed" /\ slot' = "cancelled"
  /\ UNCHANGED <<stored, connecting, gate, op, flag, choice, bounds, history>>

(* request_device_code and poll_device_code_token: the user approves for   *)
(* some account, or the connect is cancelled, denied or out of time.       *)
DeviceCode ==
  /\ At("device")
  /\ \/ Ends("free")
     \/ /\ slot = "armed"
        /\ \E a \in Account : op' = [op EXCEPT !.pc = "begin", !.account = a]
        /\ UNCHANGED <<connecting, slot, gate>>
  /\ UNCHANGED <<stored, flag, choice, bounds, history>>

-----------------------------------------------------------------------------
(* persist_tokens.                                                         *)

PersistBegin ==
  /\ At("begin")
  /\ \E ok \in BOOLEAN :
       /\ Call(ok)
       /\ IF ~ok \/ Cancelled THEN Ends("free")
          ELSE LET changed == cred["account"] # op.account IN
               /\ op' = [op EXCEPT !.pc = IF changed THEN "seal" ELSE "unmark",
                           !.snap = cred, !.mark = marker, !.changed = changed,
                           !.todo = WriteOrder(op.keep)]
               /\ UNCHANGED <<connecting, slot, gate>>
  /\ UNCHANGED <<stored, flag, choice, history>>

PersistSeal ==
  /\ At("seal")
  /\ \E ok \in BOOLEAN :
       /\ Call(ok)
       /\ IF ok THEN seal' = TRUE /\ Goes("unmark") ELSE Ends("free") /\ UNCHANGED seal
  /\ UNCHANGED <<cred, marker, catalog, flag, choice, history>>

(* Mutant: the values are written under the marker of the old ones.        *)
X_PersistUnmark ==
  /\ At("unmark")
  /\ Goes("write")
  /\ UNCHANGED <<stored, flag, choice, bounds, history>>

PersistUnmark ==
  /\ At("unmark")
  /\ \E ok \in BOOLEAN :
       /\ Call(ok)
       /\ CASE ok -> marker' = FALSE /\ Goes("write")
            [] ~ok /\ op.changed -> UNCHANGED marker /\ Goes("unseal")
            [] OTHER -> UNCHANGED marker /\ Ends("free")
  /\ UNCHANGED <<cred, seal, catalog, flag, choice, history>>

(* clear_catalog_read_seal after the marker could not be cleared; an error *)
(* is dropped.                                                             *)
PersistUnseal ==
  /\ At("unseal")
  /\ \E ok \in BOOLEAN : Call(ok) /\ seal' = (seal /\ ~ok)
  /\ Ends("free")
  /\ UNCHANGED <<cred, marker, catalog, flag, choice, history>>

PersistWrite ==
  /\ At("write")
  /\ \E ok \in BOOLEAN :
       LET kind == Head(op.todo)
           done == IF ok THEN Append(op.done, kind) ELSE op.done IN
       /\ Call(ok)
       /\ cred' = IF ok THEN [cred EXCEPT ![kind] = op.account] ELSE cred
       /\ IF ~ok \/ Cancelled THEN UndoBegins(done, TRUE, op.changed)
          ELSE /\ op' = [op EXCEPT !.pc = IF Len(op.todo) = 1 THEN "commit" ELSE "write",
                                   !.todo = Tail(op.todo), !.done = done]
               /\ UNCHANGED <<connecting, slot, gate>>
  /\ UNCHANGED <<marker, seal, catalog, flag, choice, history>>

OwnerFollows ==
  IF op.by = "connect"
  THEN owner' = op.account /\ cut' = IF cut = "torn" /\ ~op.changed THEN "uninvalidated" ELSE cut
  ELSE UNCHANGED history

(* The profile is written with the slot locked: a cancellation comes       *)
(* before, and the connect is undone, or finds the slot empty.             *)
(* Mutant: the slot is not looked at again.                                *)
X_PersistCommit ==
  /\ At("commit")
  /\ marker' = TRUE
  /\ OwnerFollows
  /\ op' = [op EXCEPT !.pc = IF op.changed THEN "invalidate" ELSE "done", !.committed = op.changed]
  /\ UNCHANGED <<cred, seal, catalog, connecting, slot, gate, flag, choice, bounds>>

PersistCommit ==
  /\ At("commit")
  /\ \E ok \in BOOLEAN :
       /\ Call(ok)
       /\ IF ~ok \/ Cancelled
          THEN UndoBegins(op.done, TRUE, op.changed) /\ UNCHANGED <<marker, history>>
          ELSE /\ marker' = TRUE
               /\ OwnerFollows
               /\ slot' = IF op.by = "connect" THEN "none" ELSE slot
               /\ op' = [op EXCEPT !.pc = IF op.changed THEN "invalidate" ELSE "done",
                                   !.committed = op.changed]
               /\ UNCHANGED <<connecting, gate>>
  /\ UNCHANGED <<cred, seal, catalog, flag, choice>>

(* Mutant: the generation is advanced, the entries are left.               *)
X_Invalidates == catalog' = [catalog EXCEPT !.generation = @ + 1] /\ seal' = FALSE

(* The transaction that advances the generation also lifts the seal.       *)
Invalidates == catalog' = InvalidateCatalog(catalog) /\ seal' = FALSE

PersistInvalidate ==
  /\ At("invalidate")
  /\ \E ok \in BOOLEAN :
       /\ Call(ok)
       /\ IF ok THEN /\ Invalidates /\ cut' = IF op.by = "connect" \/ cut # "torn" THEN "no" ELSE cut
                     /\ op' = [op EXCEPT !.pc = "done", !.changed = FALSE, !.committed = FALSE]
                     /\ UNCHANGED <<connecting, slot, gate>>
          ELSE UndoBegins(op.done, TRUE, TRUE) /\ UNCHANGED <<catalog, seal, cut>>
  /\ UNCHANGED <<cred, marker, flag, choice, owner>>

(* What comes after: a connect fetches the catalog, a send streams, a      *)
(* catalog refresh goes on.                                                *)
PersistDone ==
  /\ At("done")
  /\ flag' = FALSE
  /\ CASE op.by = "connect" -> Ends("fetch")
       [] op.by = "send"    -> Ends("stream")
       [] OTHER             -> Goes("read")
  /\ UNCHANGED <<stored, choice, bounds, history>>

-----------------------------------------------------------------------------
(* The way back.  A value that cannot be put back does not keep the others *)
(* from being put back; the profile and the seal are left then.            *)

UndoNext(whole) ==
  CASE ~whole                    -> "failed"
    [] whole /\ op.markBack      -> "undoMark"
    [] OTHER                     -> "undoSeal"

UndoValue ==
  /\ At("undo")
  /\ IF op.todo = <<>>
     THEN /\ Goes(UndoNext(op.whole))
          /\ UNCHANGED <<cred, bounds>>
     ELSE \E ok \in BOOLEAN :
            LET kind == Head(op.todo) IN
            /\ Call(ok)
            /\ cred' = IF ok THEN [cred EXCEPT ![kind] = op.snap[kind]] ELSE cred
            /\ op' = [op EXCEPT !.todo = Tail(op.todo), !.whole = op.whole /\ ok]
            /\ UNCHANGED <<connecting, slot, gate>>
  /\ UNCHANGED <<marker, seal, catalog, flag, choice, history>>

UndoMark ==
  /\ At("undoMark")
  /\ \E ok \in BOOLEAN :
       /\ Call(ok)
       /\ IF ok THEN /\ marker' = op.mark
                     /\ owner' = op.prior
                     /\ Goes("undoSeal")
          ELSE Goes("failed") /\ UNCHANGED <<marker, owner>>
  /\ UNCHANGED <<cred, seal, catalog, flag, choice, cut>>

UndoSeal ==
  /\ At("undoSeal")
  /\ IF ~op.sealBack THEN Ends("free") /\ UNCHANGED <<seal, bounds>>
     ELSE \E ok \in BOOLEAN :
            /\ Call(ok)
            /\ IF ok THEN seal' = FALSE /\ Ends("free") ELSE UNCHANGED seal /\ Goes("failed")
  /\ UNCHANGED <<cred, marker, catalog, flag, choice, history>>

(* scrub_catalog_entries is tried when the commit stands; the flag asks    *)
(* for a new connect.                                                      *)
UndoFailed ==
  /\ At("failed")
  /\ \E ok \in BOOLEAN :
       /\ ok \/ op.committed
       /\ Call(ok)
       /\ catalog' = IF op.committed /\ ok THEN ScrubCatalog(catalog) ELSE catalog
  /\ flag' = TRUE /\ cut' = Broken
  /\ Ends("free")
  /\ UNCHANGED <<cred, marker, seal, choice, owner>>

-----------------------------------------------------------------------------
(* disconnect_xai and remove_credentials_and_metadata.  After a refused    *)
(* refresh token nothing is put back.                                      *)

DisconnectBegin ==
  /\ gate = "free" /\ catalog.generation < MaxGeneration
  /\ Begins("disconnect", "rmBegin")
  /\ gate' = "busy"
  /\ UNCHANGED <<stored, connecting, slot, flag, choice, bounds, history>>

RemoveBegin ==
  /\ At("rmBegin")
  /\ \E ok \in BOOLEAN :
       /\ Call(ok)
       /\ IF ok THEN /\ op' = [op EXCEPT !.pc = "rmSeal", !.snap = cred, !.mark = marker,
                                          !.todo = DeleteOrder]
                     /\ UNCHANGED <<connecting, slot, gate>>
          ELSE Ends("free")
  /\ UNCHANGED <<stored, flag, choice, history>>

RemoveSeal ==
  /\ At("rmSeal")
  /\ \E ok \in BOOLEAN :
       /\ Call(ok)
       /\ IF ok THEN /\ seal' = TRUE
                     /\ op' = [op EXCEPT !.pc = "rmDelete", !.changed = TRUE]
                     /\ UNCHANGED <<connecting, slot, gate>>
          ELSE Ends("free") /\ UNCHANGED seal
  /\ UNCHANGED <<cred, marker, catalog, flag, choice, history>>

(* A step of the removal has failed.                                       *)
RemoveFails(done, markBack) ==
  IF op.restore THEN UndoBegins(done, markBack, TRUE) /\ UNCHANGED cut
  ELSE Ends("free") /\ cut' = Broken

(* A value counts as deleted once the delete has returned; the read after  *)
(* it may still fail or find it.                                           *)
RemoveDelete ==
  /\ At("rmDelete")
  /\ \E ok, deletes \in BOOLEAN :
       LET kind == Head(op.todo)
           done == IF deletes THEN Append(op.done, kind) ELSE op.done IN
       /\ ok => deletes
       /\ Call(ok)
       /\ cred' = IF deletes THEN [cred EXCEPT ![kind] = NoAccount] ELSE cred
       /\ IF ~ok THEN RemoveFails(done, FALSE)
          ELSE /\ op' = [op EXCEPT !.pc = IF Len(op.todo) = 1 THEN "rmUnmark" ELSE "rmDelete",
                                   !.todo = Tail(op.todo), !.done = done]
               /\ UNCHANGED <<connecting, slot, gate, cut>>
  /\ UNCHANGED <<marker, seal, catalog, flag, choice, owner>>

RemoveUnmark ==
  /\ At("rmUnmark")
  /\ \E ok \in BOOLEAN :
       /\ Call(ok)
       /\ IF ok THEN marker' = FALSE /\ Goes("rmInvalidate") /\ UNCHANGED cut
          ELSE RemoveFails(op.done, TRUE) /\ UNCHANGED marker
  /\ UNCHANGED <<cred, seal, catalog, flag, choice, owner>>

RemoveInvalidate ==
  /\ At("rmInvalidate")
  /\ \E ok \in BOOLEAN :
       /\ Call(ok)
       /\ IF ok THEN /\ Invalidates /\ owner' = NoAccount /\ cut' = "no"
                     /\ flag' = (flag /\ op.by # "disconnect")
                     /\ Ends("free")
          ELSE /\ RemoveFails(op.done, TRUE)
               /\ flag' = (flag \/ ~op.restore)
               /\ UNCHANGED <<catalog, seal, owner>>
  /\ UNCHANGED <<cred, marker, choice>>

-----------------------------------------------------------------------------
(* ensure_fresh_access and refresh_access_token_locked, under a send, a    *)
(* catalog command, or the fetch that follows a connect or a rejection.    *)

SendBegin ==
  /\ gate = "free" /\ ConnectionStatus = "connected"
  /\ Begins("send", "fresh") /\ gate' = "busy"
  /\ UNCHANGED <<stored, connecting, slot, flag, choice, bounds, history>>

CancelSend ==
  /\ op.by = "send" /\ ~op.token
  /\ op' = [op EXCEPT !.token = TRUE]
  /\ UNCHANGED <<stored, connecting, slot, gate, flag, choice, bounds, history>>

(* get_provider_model_catalog and refresh_provider_model_catalog: they     *)
(* wait for profile_lock but not for the gate.                             *)
CatalogBegin(force) ==
  /\ ConnectionStatus = "connected" /\ (force \/ NeedsRefresh(catalog))
  /\ op = NoOp /\ op' = [NoOp EXCEPT !.by = "catalog", !.pc = "fresh", !.force = force, !.prior = owner]
  /\ UNCHANGED <<stored, connecting, slot, gate, flag, choice, bounds, history>>

FetchBegin ==
  /\ gate = "fetch" /\ op = NoOp
  /\ IF ConnectionStatus = "connected"
     THEN /\ op' = [NoOp EXCEPT !.by = "fetch", !.pc = "fresh", !.force = TRUE, !.prior = owner]
          /\ UNCHANGED gate
     ELSE gate' = "free" /\ UNCHANGED op
  /\ UNCHANGED <<stored, connecting, slot, flag, choice, bounds, history>>

(* Whether the access token has expired is left open.                      *)
Fresh ==
  /\ At("fresh")
  /\ \E expired \in BOOLEAN :
       CASE Cancelled \/ ~marker \/ (expired /\ cred["refresh"] = NoAccount) -> Ends("free")
         [] ~Cancelled /\ marker /\ expired /\ cred["refresh"] # NoAccount -> Goes("http")
         [] OTHER -> IF op.by = "send" THEN Ends("stream") ELSE Goes("read")
  /\ flag' = (flag \/ (~Cancelled /\ ~marker))
  /\ UNCHANGED <<stored, choice, bounds, history>>

(* refresh_via_http: no usable answer (or a cancellation, which drops the  *)
(* answer), invalid_grant, or tokens of the account the refresh token is   *)
(* of, with or without a new refresh token.                                *)
Http ==
  /\ At("http")
  /\ \/ Ends("free") /\ UNCHANGED flag
     \/ /\ ~Cancelled
        /\ op' = [op EXCEPT !.pc = "rmBegin", !.restore = FALSE]
        /\ flag' = TRUE
        /\ UNCHANGED <<connecting, slot, gate>>
     \/ /\ ~Cancelled
        /\ \E keep \in BOOLEAN :
             op' = [op EXCEPT !.pc = "begin", !.account = cred["refresh"], !.keep = keep]
        /\ UNCHANGED <<connecting, slot, gate, flag>>
  /\ UNCHANGED <<stored, choice, bounds, history>>

(* stream: it takes profile_lock anew; the values may be gone.             *)
StreamBegin ==
  /\ gate = "stream"
  /\ IF cred["access"] = NoAccount \/ cred["account"] = NoAccount
     THEN gate' = "free" /\ UNCHANGED op
     ELSE Begins("send", "streaming") /\ UNCHANGED gate
  /\ op = NoOp
  /\ UNCHANGED <<stored, connecting, slot, flag, choice, bounds, history>>

(* 401 asks for a new connect, a rejected model for a new catalog.         *)
StreamEnd ==
  /\ At("streaming")
  /\ \E result \in {"ended", "unauthorized", "rejected"} :
       /\ flag' = (flag \/ result = "unauthorized")
       /\ Ends(IF result = "rejected" THEN "reject" ELSE "free")
  /\ UNCHANGED <<stored, choice, bounds, history>>

(* apply_model_rejection for the model of the session, then the forced     *)
(* refresh.                                                                *)
ApplyRejection(m) ==
  /\ gate = "reject" /\ gate' = "fetch"
  /\ catalog' = RejectModel(catalog, m, seal)
  /\ UNCHANGED <<cred, marker, seal, connecting, slot, op, flag, choice, bounds, history>>

-----------------------------------------------------------------------------
(* The rest of refresh_model_catalog.                                      *)

CatalogRead ==
  /\ At("read")
  /\ IF (~op.force /\ ~NeedsRefresh(catalog)) \/ cred["access"] = NoAccount \/ cred["account"] = NoAccount
     THEN Ends("free") ELSE Goes("fetching")
  /\ UNCHANGED <<stored, flag, choice, bounds, history>>

(* No answer, not modified (asked only about a snapshot), or models.       *)
CatalogFetch ==
  /\ At("fetching")
  /\ \/ UNCHANGED catalog
     \/ Snapshot(catalog) # {} /\ catalog' = Touch(catalog)
     \/ \E models \in SUBSET Model :
          /\ CanReplace(catalog, models)
          /\ catalog' = ReplaceSnapshot(catalog, catalog.generation, cred["access"], models)
  /\ Ends("free")
  /\ UNCHANGED <<cred, marker, seal, flag, choice, bounds, history>>

(* set_provider_model_selection: the checks, then the write.               *)
SelectBegin(m) ==
  /\ choice = NoModel /\ AcceptsModel(catalog, m)
  /\ choice' = m
  /\ UNCHANGED <<stored, holder, flag, bounds, history>>

SelectWrite ==
  /\ choice # NoModel /\ choice' = NoModel
  /\ \E ok \in BOOLEAN :
       Call(ok) /\ catalog' = IF ok THEN [catalog EXCEPT !.selected = choice] ELSE catalog
  /\ UNCHANGED <<cred, marker, seal, holder, flag, history>>

(* Time passes.                                                            *)
CatalogAges ==
  /\ catalog.current /\ catalog' = [catalog EXCEPT !.current = FALSE]
  /\ UNCHANGED <<cred, marker, seal, holder, flag, choice, bounds, history>>

(* The process ends, wherever it is, and is started again.                 *)
ProcessRestarts ==
  /\ restarts < MaxRestarts /\ restarts' = restarts + 1
  /\ op' = NoOp /\ connecting' = FALSE /\ slot' = "none" /\ gate' = "free"
  /\ flag' = FALSE /\ choice' = NoModel /\ cut' = Broken
  /\ UNCHANGED <<stored, faults, owner>>

-----------------------------------------------------------------------------
Persists == \/ PersistBegin \/ PersistSeal \/ PersistUnmark \/ PersistUnseal
            \/ PersistWrite \/ PersistCommit \/ PersistInvalidate \/ PersistDone
Undoes   == UndoValue \/ UndoMark \/ UndoSeal \/ UndoFailed
Removes  == RemoveBegin \/ RemoveSeal \/ RemoveDelete \/ RemoveUnmark \/ RemoveInvalidate

CredNext ==
  \/ ConnectBegin \/ CancelConnect \/ DeviceCode \/ Persists \/ Undoes
  \/ DisconnectBegin \/ Removes
  \/ SendBegin \/ CancelSend \/ Fresh \/ Http \/ StreamBegin \/ StreamEnd
  \/ FetchBegin \/ CatalogRead \/ CatalogFetch \/ SelectWrite \/ CatalogAges \/ ProcessRestarts
  \/ \E force \in BOOLEAN : CatalogBegin(force)
  \/ \E m \in Model : ApplyRejection(m) \/ SelectBegin(m)

CredSpec == CredInit /\ [][CredNext]_credVars

-----------------------------------------------------------------------------
(* Every variable keeps its type, profile_lock has one holder, which is in *)
(* the middle of what it does, and a connect under way is the one the      *)
(* windows are told of and the only one that can be cancelled.             *)
CredTypeOK ==
  /\ cred \in [Kind -> Account \cup {NoAccount}]
  /\ marker \in BOOLEAN /\ seal \in BOOLEAN /\ flag \in BOOLEAN
  /\ catalog.entries \subseteq Model /\ catalog.rejected \subseteq Model
  /\ catalog.selected \in Model \cup {RequiresExplicitChoice}
  /\ gate \in {"free", "busy", "stream", "reject", "fetch"}
  /\ op.by \in {"connect", "disconnect", "send"} => gate # "free"
  /\ connecting = (op.by = "connect")
  /\ slot \in {"armed", "cancelled"} => connecting

(* A status of Connected is the truth about the three values: whatever     *)
(* calls failed, whenever the connect was cancelled and wherever the       *)
(* process ended, they belong together and to the account of the last      *)
(* connect that was committed (persist_tokens, the commit marker).  The    *)
(* exception is a compensation after the commit that did not come to its   *)
(* end.                                                                    *)
ConnectedIsWhole ==
  ConnectionStatus = "connected" /\ cut # "torn" => \A k \in Kind : cred[k] = owner

(* The models shown were fetched with the credentials of the account that  *)
(* is stored now (seal_catalog_reads, the generation), unless a change of  *)
(* accounts was cut short.                                                 *)
CatalogFollowsAccount ==
  cut = "no" /\ CatalogResponse(catalog, seal) # {} => catalog.account = cred["account"]

(* architecture.md: the quarantine hides the catalog "until invalidation   *)
(* commits or the original credential state is restored, including across  *)
(* process restart".  So the models shown while connected are those of the *)
(* connected account, without the exception.                               *)
QuarantineSurvivesRestart ==
  ConnectionStatus = "connected" /\ CatalogResponse(catalog, seal) # {} =>
    catalog.account = cred["account"]

(* The credentials behave as the connection the user was promised.         *)
TheAccount == INSTANCE ProviderAccount WITH
  status  <- ConnectionStatus,
  account <- IF connecting THEN op.prior ELSE owner,
  offer   <- CASE ~connecting                          -> NoAccount
               [] connecting /\ slot = "cancelled"     -> Withdrawn
               [] OTHER                                -> op.account

ImplementsAccount == TheAccount!AccountSpec
=============================================================================
