------------------------- MODULE MCPolicyRevocation -------------------------
(***************************************************************************)
(* A revocation by GrantStore::revoke while a recomputation runs: one      *)
(* Grant, one text, one invocation with its backfill and second pass.      *)
(***************************************************************************)
EXTENDS PolicyRecompute

CONSTANTS g1, r, w

WideConsent == [g \in Grants |-> {r, w}]
Texts == {{r}, {r, w}}

\* A revoked Grant stays revoked, also when the revocation and a recomputation overlap
\* (authorization.rs, revoke and put_conditional).
RevocationStands == [][RevokedStays]_vars
=============================================================================
