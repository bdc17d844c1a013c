--------------------------- MODULE MCRefreshRetry ---------------------------
(***************************************************************************)
(* One client that does as it is told: it presents the newest version it   *)
(* has received, one request at a time, and after a 503 not before the     *)
(* Retry-After of that answer (lease_retry_after).                         *)
(***************************************************************************)
EXTENDS RefreshFamily

VARIABLE told \* instant before which the client does not try again

\* The newest version the client holds.
Held == IF answers = {} THEN 0
        ELSE 1 + CHOOSE v \in {a.ver : a \in answers} : \A a \in answers : a.ver <= v

HonestInit == Init /\ told = 0

HonestNext ==
    \/ \E p \in Procs, r \in Requests :
          told <= now /\ (\A q \in Procs : proc[q].pc = "idle") /\ Load(p, Held, r)
          /\ UNCHANGED told
    \/ \E p \in Procs :
          /\ proc[p].pc = "finalize" /\ (FinalizeRefused(p) \/ FinalizeAnswerLost(p))
          /\ told' = IF proc[p].until > now THEN proc[p].until ELSE now + 1
    \/ \E p \in Procs : Continue(p) /\ ~FinalizeRefused(p) /\ UNCHANGED told
    \/ Tick /\ UNCHANGED told

HonestSpec == HonestInit /\ [][HonestNext]_<<vars, told>>

\* A client that retries when it is told to is never taken for a thief.
HonestClientKeepsFamily == ~fam.revoked
=============================================================================
