------------------------------ MODULE RootLease ------------------------------
(***************************************************************************)
(* The durable lease on a Run (crates/tule-core/src/run.rs RootLease and   *)
(* the lease use cases of run_use_cases.rs).  No caller renews it, and the *)
(* host never releases it.                                                 *)
(***************************************************************************)
EXTENDS Naturals

CONSTANTS
  LeaseTTL,   \* ROOT_LEASE_TTL_MS, in ticks
  Owner       \* owner strings ("pid:..."), one per process instance

ASSUME LeaseAssumption == LeaseTTL \in Nat

VARIABLE lease    \* the row of harness_leases, held = FALSE while there is none

LeaseInit ==
  lease = [held |-> FALSE, owner |-> CHOOSE o \in Owner : TRUE, expires |-> 0]

(* RootLease::is_expired *)
IsExpired(now) == now >= lease.expires

(* acquire_root_lease: an absent or expired lease goes to whoever asks *)
AcquireLease(o, now) ==
  /\ ~ lease.held \/ IsExpired(now)
  /\ lease' = [held |-> TRUE, owner |-> o, expires |-> now + LeaseTTL]

(* takeover_root_lease and authorize_takeover: expiry plays no part; `gone' *)
(* is the caller's evidence about the owner.                                *)
TakeoverLease(o, gone, unsettled, now) ==
  /\ gone /\ (lease.held => ~ unsettled)
  /\ lease' = [held |-> TRUE, owner |-> o, expires |-> now + LeaseTTL]
=============================================================================
