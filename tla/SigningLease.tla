---------------------------- MODULE SigningLease ----------------------------
(***************************************************************************)
(* The two-phase signing lease of one credential, an authorization code or *)
(* one version of a refresh token family, as crates/infra-core/src/lease.rs*)
(* states it in its pure functions.  The stores of the HTTP crate do not   *)
(* call those functions: CodeExchange and RefreshFamily model what the     *)
(* stores do, and are shown to implement this module.                      *)
(*                                                                         *)
(* lease.rs leaves the holder of the lease implicit (the caller of         *)
(* try_acquire_lease); the fencing tokens of the stores make it a value.   *)
(***************************************************************************)
CONSTANTS
    Holders,   \* attempts that may hold the lease
    NoHolder,
    Credential \* GrantCredential: "Code" or "Refresh"

VARIABLES
    lease,  \* LeaseState
    holder, \* the attempt in the signing phase
    lapsed  \* lease_expired: the lease's time to live is over

vars == <<lease, holder, lapsed>>

LeaseStates == {"Idle", "Signing", "Finalized", "ExchangeFailed"}

Outcomes == {"Success", "KmsTransient", "SemanticFailure", "FinalizeFailure"}

Init == lease = "Idle" /\ holder = NoHolder /\ lapsed = FALSE

\* try_acquire_lease, and handle_request's arm for an expired lease.  A write
\* that takes long may find its lease over as soon as it is there.
Acquire ==
    /\ lease = "Idle" \/ (lease = "Signing" /\ lapsed)
    /\ lease' = "Signing"
    /\ holder' \in Holders /\ lapsed' \in BOOLEAN

\* resolve: the state an attempt leaves behind.
Resolution(outcome) ==
    CASE outcome = "Success"         -> "Finalized"
      [] outcome = "KmsTransient"    -> "Idle"
      [] outcome = "SemanticFailure" -> IF Credential = "Code" THEN "ExchangeFailed" ELSE "Idle"
      [] outcome = "FinalizeFailure" -> "Signing"

\* The attempt in the signing phase ends; after FinalizeFailure it leaves the
\* lease to its time to live.
Resolve(outcome) ==
    /\ lease = "Signing" /\ lease' = Resolution(outcome)
    /\ IF lease' = "Signing" THEN UNCHANGED <<holder, lapsed>>
                             ELSE holder' = NoHolder /\ lapsed' = FALSE

Lapse == lease = "Signing" /\ lapsed' = TRUE /\ UNCHANGED <<lease, holder>>

Next == Acquire \/ (\E o \in Outcomes : Resolve(o)) \/ Lapse

Spec == Init /\ [][Next]_vars
=============================================================================
