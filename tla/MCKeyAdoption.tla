--------------------------- MODULE MCKeyAdoption ----------------------------
(***************************************************************************)
(* One tenant is onboarded by a command that the queue delivers more than  *)
(* once: two workers, both algorithms, three keys.                         *)
(***************************************************************************)
EXTENDS TenantKeys, TLC

CONSTANTS o1, w1, w2

ThreeKeys == 1..3
OnboardOnly == {[cmd |-> "ensure", op |-> o1]}
Symmetry == Permutations({w1, w2})

\* No request is given an active key that is being deleted, because a key is scheduled
\* for deletion only after it has left the served snapshot (retire, rollback,
\* handle_cas_losing_key, cleanup_pending_deletions).
ActiveKeysAlive == \A k \in KeysOf(rec.served.active) : kms[k].state # "deleting"
=============================================================================
