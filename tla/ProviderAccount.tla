-------------------------- MODULE ProviderAccount --------------------------
(***************************************************************************)
(* What the provider connection promises its user: the status shown, the   *)
(* account the connection belongs to, and the account offered by a connect *)
(* that is under way.  A connection may stop being usable and come back,   *)
(* but it changes hands only through a connect the user has completed and  *)
(* not cancelled, and it is given up only by the removal of what is kept.  *)
(***************************************************************************)
CONSTANTS Account, NoAccount, Withdrawn

VARIABLES status, account, offer

Status == {"disconnected", "connecting", "connected", "reconnect_required"}

AccountInit == status = "disconnected" /\ account = NoAccount /\ offer = NoAccount

(* The user starts to connect.                                             *)
Open ==
  /\ status # "connecting" /\ status' = "connecting"
  /\ offer' = NoAccount
  /\ UNCHANGED account

(* The user approves the connection at the provider.                       *)
Approve ==
  /\ status = "connecting" /\ offer = NoAccount
  /\ offer' \in Account
  /\ UNCHANGED <<status, account>>

(* The user cancels and the cancellation is acknowledged.                  *)
Withdraw ==
  /\ status = "connecting" /\ offer' = Withdrawn
  /\ UNCHANGED <<status, account>>

(* The connect ends, by itself or with the process: with the account that  *)
(* was offered, or with whatever was there before.                         *)
Settle ==
  /\ status = "connecting" /\ status' \in Status \ {"connecting"}
  /\ account' \in {account} \cup ({offer} \cap Account)
  /\ status' = "connected" => account' # NoAccount
  /\ offer' = NoAccount

(* The connection stops being usable, for a time or for good.              *)
Lose ==
  /\ status # "connecting" /\ status' \in {"reconnect_required", "disconnected"}
  /\ account' \in {account, NoAccount}
  /\ UNCHANGED offer

(* What is kept of it is whole again.                                      *)
Resume ==
  /\ status \in {"reconnect_required", "disconnected"} /\ status' = "connected"
  /\ account # NoAccount
  /\ UNCHANGED <<account, offer>>

AccountNext == Open \/ Approve \/ Withdraw \/ Settle \/ Lose \/ Resume

AccountSpec == AccountInit /\ [][AccountNext]_<<status, account, offer>>
=============================================================================
