--------------------------- MODULE PolicyRecompute ---------------------------
(***************************************************************************)
(* Policy versions and the effective authority of Grants                   *)
(* (crates/http/src: recompute.rs, authz_gate.rs, policy_freshness.rs and  *)
(* the Grant store of adapters/aws/authorization.rs).                      *)
(*                                                                         *)
(* A policy text permits a set of scopes; consent is a set of scopes and,  *)
(* possibly, a rich authorization request (Rar), which evaluation passes   *)
(* through.  A Grant keeps what the user consented to, and beside it the   *)
(* effective authority together with the version of the policy it was      *)
(* computed from.  The scheduled recomputation publishes the deployed text *)
(* as the next version, backfills, and runs a second pass; each pass finds *)
(* its Grants in an index that lags behind the table (index), reads them   *)
(* all, and only then writes them one by one.  A Grant is created, revoked *)
(* and used for tokens at the same time.                                   *)
(***************************************************************************)
EXTENDS Naturals

CONSTANTS
    Grants,     \* Grant ids
    Rar,        \* the rich authorization request
    Consent,    \* what the user consented to, by Grant
    Policies,   \* texts that parse: each the set of scopes it permits
    Broken,     \* a text that does not parse
    None,
    Workers,    \* recomputation functions that may run
    Revokers,   \* requests that revoke with GrantStore::revoke
    Fenced,     \* revoke_if_epoch_before is called as well
    Issuing,    \* tokens are issued
    MaxPv,      \* bound: policy versions
    MaxRev,     \* bound: revisions of a Grant
    MaxDeploys, \* bound: changes of the deployed text
    MaxFaults   \* bound: crashes, and bumps the SDK sends twice

Versions == 1..MaxPv

PolicyAssumption ==
    /\ Broken \notin Policies /\ None \notin Policies \cup {Broken}
    /\ Policies # {} /\ Fenced \in BOOLEAN /\ Issuing \in BOOLEAN
    /\ MaxPv \in Nat \ {0} /\ MaxRev \in Nat /\ MaxDeploys \in Nat /\ MaxFaults \in Nat

VARIABLES
    deployed, \* AGENT_AUTH_POLICY_SET
    deploys,  \* changes of it so far
    pv,       \* the tenant's policy version
    art,      \* published policy artifacts by version
    grants,   \* the Grant table
    index,    \* effective_pv by Grant as the secondary index has it
    creating, \* creations in flight
    worker,   \* recomputation functions
    revoker,  \* Grants read by revocations in flight
    cache,    \* current_pv_cache of the token function
    token,    \* history: the last token issued
    faults    \* faults so far

vars == <<deployed, deploys, pv, art, grants, index, creating, worker, revoker, cache,
          token, faults>>
policy == <<deployed, deploys, pv, art>>
hot == <<cache, token>>

Absent == [status |-> "none", rev |-> 0, pv |-> 0, eff |-> {}]
NotStarted == [pc |-> "idle", n |-> 0, policy |-> None]
Idle == [pc |-> "idle", text |-> None, n |-> 0, policy |-> None, todo |-> {}, seen |-> <<>>,
         round |-> 1]

Authorities == {Consent[g] \cap (p \cup {Rar}) : g \in Grants, p \in Policies}
GrantRecords == [status : {"none", "active", "revoked"}, rev : 0..MaxRev, pv : 0..MaxPv,
                 eff : Authorities \cup {{}}]

TypeOK ==
    /\ deployed \in Policies \cup {Broken} /\ deploys \in 0..MaxDeploys /\ pv \in 0..MaxPv
    /\ art \in [Versions -> Policies \cup {None}]
    /\ grants \in [Grants -> GrantRecords]
    /\ DOMAIN index \subseteq Grants /\ \A g \in DOMAIN index : index[g] \in 0..MaxPv
    /\ creating \in [Grants -> [pc : {"idle", "artifact", "put", "done"}, n : 0..MaxPv,
                                policy : Policies \cup {None}]]
    /\ \A w \in Workers :
         /\ DOMAIN worker[w] = DOMAIN Idle
         /\ worker[w].pc \in {"idle", "publish", "put", "bump", "heal", "version", "artifact",
                              "query", "get", "write"}
         /\ worker[w].todo \subseteq Grants /\ DOMAIN worker[w].seen \subseteq Grants
         /\ \A g \in DOMAIN worker[w].seen : worker[w].seen[g] \in GrantRecords
    /\ \A r \in Revokers : revoker[r].pc \in {"idle", "put"} /\ revoker[r].grant \in GrantRecords
    /\ cache \in {None} \cup (0..MaxPv)
    /\ faults \in 0..MaxFaults

\* Grants made before the feature was enabled, or none yet.
Init ==
    /\ deployed \in Policies /\ deploys = 0 /\ pv = 0
    /\ art = [v \in Versions |-> None]
    /\ grants \in [Grants -> {Absent, [Absent EXCEPT !.status = "active"]}]
    /\ index = [g \in {x \in Grants : grants[x].status = "active"} |-> 0]
    /\ creating = [g \in Grants |-> NotStarted]
    /\ worker = [w \in Workers |-> Idle]
    /\ revoker = [r \in Revokers |-> [pc |-> "idle", id |-> None, grant |-> Absent]]
    /\ cache = None /\ token = None /\ faults = 0

-----------------------------------------------------------------------------
\* Evaluation and the writes of a Grant

\* evaluate: the scopes the policy permits; the RAR passes through.
Evaluate(p, g) == Consent[g] \cap (p \cup {Rar})

\* The Grant has something to evaluate and the policy leaves nothing of it.
DeniedAll(p, g) == Consent[g] # {} /\ Evaluate(p, g) = {}

Put(g, rec) == grants' = [grants EXCEPT ![g] = rec]

\* effective_view
EffectiveView(g, rec) == IF rec.pv = 0 THEN Consent[g] ELSE rec.eff

-----------------------------------------------------------------------------
\* Creation (apply_policy_to_grant, then the unconditional put of a new id)

CreateVersion(g) ==
    /\ creating[g].pc = "idle" /\ grants[g] = Absent
    /\ creating' = [creating EXCEPT ![g] = [pc |-> IF pv = 0 THEN "put" ELSE "artifact",
                                            n |-> pv, policy |-> None]]
    /\ UNCHANGED <<policy, grants, index, worker, revoker, hot, faults>>

\* The text is evaluated but its refusal is not looked at.
CreateArtifactAnyway(g) ==
    LET c == creating[g] IN
    /\ c.pc = "artifact"
    /\ creating' = [creating EXCEPT ![g] = IF art[c.n] = None THEN [c EXCEPT !.pc = "done"]
                                           ELSE [c EXCEPT !.pc = "put", !.policy = art[c.n]]]
    /\ UNCHANGED <<policy, grants, index, worker, revoker, hot, faults>>

\* A missing artifact and a policy that denies everything refuse the creation.
CreateArtifact(g) ==
    LET c == creating[g] IN
    /\ c.pc = "artifact"
    /\ creating' = [creating EXCEPT ![g] =
                      IF art[c.n] = None THEN [c EXCEPT !.pc = "done"]
                      ELSE IF DeniedAll(art[c.n], g) THEN [c EXCEPT !.pc = "done"]
                      ELSE [c EXCEPT !.pc = "put", !.policy = art[c.n]]]
    /\ UNCHANGED <<policy, grants, index, worker, revoker, hot, faults>>

\* The stamp is the version in force when the Grant is written.
CreatePutNow(g) ==
    LET c == creating[g] IN
    /\ c.pc = "put"
    /\ Put(g, [status |-> "active", rev |-> 0, pv |-> IF c.n = 0 THEN 0 ELSE pv,
               eff |-> IF c.n = 0 THEN {} ELSE Evaluate(c.policy, g)])
    /\ creating' = [creating EXCEPT ![g].pc = "done"]
    /\ UNCHANGED <<policy, index, worker, revoker, hot, faults>>

CreatePut(g) ==
    LET c == creating[g] IN
    /\ c.pc = "put"
    /\ Put(g, [status |-> "active", rev |-> 0, pv |-> c.n,
               eff |-> IF c.n = 0 THEN {} ELSE Evaluate(c.policy, g)])
    /\ creating' = [creating EXCEPT ![g].pc = "done"]
    /\ UNCHANGED <<policy, index, worker, revoker, hot, faults>>

\* DynamoDB brings the index up to date.
IndexCatchUp(g) ==
    /\ grants[g].status # "none"
    /\ g \in DOMAIN index => index[g] # grants[g].pv
    /\ index' = [x \in DOMAIN index \cup {g} |-> IF x = g THEN grants[g].pv ELSE index[x]]
    /\ UNCHANGED <<policy, grants, creating, worker, revoker, hot, faults>>

-----------------------------------------------------------------------------
\* Publication (publish_policy_from_env)

Step(w, rec) == worker' = [worker EXCEPT ![w] = rec]

Deploy(p) ==
    /\ deploys < MaxDeploys /\ p # deployed
    /\ deployed' = p /\ deploys' = deploys + 1
    /\ UNCHANGED <<pv, art, grants, index, creating, worker, revoker, hot, faults>>

Invoke(w) ==
    /\ worker[w].pc = "idle"
    /\ Step(w, [Idle EXCEPT !.pc = "publish", !.text = deployed])
    /\ UNCHANGED <<policy, grants, index, creating, revoker, hot, faults>>

\* The text is published without being parsed.
PublishReadUnparsed(w) ==
    LET k == worker[w] IN
    /\ k.pc = "publish" /\ pv < MaxPv
    /\ Step(w, IF pv > 0 /\ art[pv] = k.text THEN [k EXCEPT !.pc = "version"]
               ELSE [k EXCEPT !.pc = "put", !.n = pv + 1])
    /\ UNCHANGED <<policy, grants, index, creating, revoker, hot, faults>>

\* The text is published already; or it does not parse, and the backfill is skipped.
PublishRead(w) ==
    LET k == worker[w] IN
    /\ k.pc = "publish"
    /\ pv = MaxPv => k.text \in {art[pv], Broken}
    /\ Step(w, IF pv > 0 /\ art[pv] = k.text THEN [k EXCEPT !.pc = "version"]
               ELSE IF k.text = Broken THEN [k EXCEPT !.pc = "version", !.round = 2]
               ELSE [k EXCEPT !.pc = "put", !.n = pv + 1])
    /\ UNCHANGED <<policy, grants, index, creating, revoker, hot, faults>>

PublishPut(w) ==
    LET k == worker[w] IN
    /\ k.pc = "put"
    /\ art' = [art EXCEPT ![k.n] = k.text]
    /\ Step(w, [k EXCEPT !.pc = "bump"])
    /\ UNCHANGED <<deployed, deploys, pv, grants, index, creating, revoker, hot, faults>>

\* The counter is an ADD that the SDK repeats when the answer is lost.
PublishBump(w, times) ==
    LET k == worker[w] IN
    /\ k.pc = "bump" /\ pv + times <= MaxPv
    /\ times = 2 => faults < MaxFaults
    /\ faults' = faults + times - 1
    /\ pv' = pv + times
    /\ Step(w, IF pv + times = k.n THEN [k EXCEPT !.pc = "version"]
               ELSE [k EXCEPT !.pc = "heal", !.n = pv + times])
    /\ UNCHANGED <<deployed, deploys, art, grants, index, creating, revoker, hot>>

PublishHeal(w) ==
    LET k == worker[w] IN
    /\ k.pc = "heal"
    /\ art' = [art EXCEPT ![k.n] = k.text]
    /\ Step(w, [k EXCEPT !.pc = "version"])
    /\ UNCHANGED <<deployed, deploys, pv, grants, index, creating, revoker, hot, faults>>

-----------------------------------------------------------------------------
\* One pass (run_recompute_pass): the backfill is round 1, the scheduled pass round 2

PassOver(k) == IF k.round = 1 THEN [Idle EXCEPT !.pc = "version", !.round = 2] ELSE Idle

ReadVersion(w) ==
    LET k == worker[w] IN
    /\ k.pc = "version"
    /\ Step(w, IF pv = 0 THEN PassOver(k) ELSE [k EXCEPT !.pc = "artifact", !.n = pv])
    /\ UNCHANGED <<policy, grants, index, creating, revoker, hot, faults>>

ReadArtifact(w) ==
    LET k == worker[w] IN
    /\ k.pc = "artifact"
    /\ Step(w, IF art[k.n] = None THEN PassOver(k)
               ELSE [k EXCEPT !.pc = "query", !.policy = art[k.n]])
    /\ UNCHANGED <<policy, grants, index, creating, revoker, hot, faults>>

\* list_stale: the keys come from the index.
Query(w) ==
    LET k == worker[w] IN
    /\ k.pc = "query"
    /\ Step(w, [k EXCEPT !.pc = "get", !.todo = {g \in DOMAIN index : index[g] < k.n}])
    /\ UNCHANGED <<policy, grants, index, creating, revoker, hot, faults>>

\* list_stale: the records come from the table; those not active are dropped.
Get(w, g) ==
    LET k == worker[w]
        keep == IF grants[g].status = "active" THEN {g} ELSE {} IN
    /\ k.pc = "get" /\ g \in k.todo
    /\ Step(w, [k EXCEPT !.todo = @ \ {g},
                         !.seen = [x \in DOMAIN @ \cup keep |-> IF x = g THEN grants[g] ELSE @[x]]])
    /\ UNCHANGED <<policy, grants, index, creating, revoker, hot, faults>>

Listed(w) ==
    LET k == worker[w] IN
    /\ k.pc = "get" /\ k.todo = {}
    /\ Step(w, IF DOMAIN k.seen = {} THEN PassOver(k) ELSE [k EXCEPT !.pc = "write"])
    /\ UNCHANGED <<policy, grants, index, creating, revoker, hot, faults>>

\* Revisions are counted modulo MaxRev + 1: revocations stop at MaxRev, so between the
\* read and the write of one worker a revision cannot come round again.
NextRev(n) == (n + 1) % (MaxRev + 1)

\* A Grant with nothing to evaluate is kept as it is, without a stamp.
RecomputedUnstamped(k, g) ==
    IF DeniedAll(k.policy, g)
      THEN [grants[g] EXCEPT !.status = "revoked", !.rev = NextRev(@)]
      ELSE IF Consent[g] = {} THEN [k.seen[g] EXCEPT !.rev = NextRev(@)]
      ELSE [k.seen[g] EXCEPT !.eff = Evaluate(k.policy, g), !.pv = k.n, !.rev = NextRev(@)]

\* What the pass writes: a revocation, or the copy it read with the new authority.
Recomputed(k, g) ==
    IF DeniedAll(k.policy, g)
      THEN [grants[g] EXCEPT !.status = "revoked", !.rev = NextRev(@)]
      ELSE [k.seen[g] EXCEPT !.eff = IF Consent[g] = {} THEN @ ELSE Evaluate(k.policy, g),
                             !.pv = k.n, !.rev = NextRev(@)]

\* The put replaces whatever is there.
WriteCommitsAlways(k, g) == TRUE

\* revoke_if_revision also looks at the status, put_conditional does not.
WriteCommits(k, g) ==
    /\ grants[g].rev = k.seen[g].rev
    /\ DeniedAll(k.policy, g) => grants[g].status = "active"

Write(w, g) ==
    LET k == worker[w]
        left == DOMAIN k.seen \ {g}
        next == [k EXCEPT !.seen = [x \in left |-> k.seen[x]]] IN
    /\ k.pc = "write" /\ g \in DOMAIN k.seen
    /\ IF WriteCommits(k, g) THEN Put(g, Recomputed(k, g)) ELSE UNCHANGED grants
    /\ Step(w, IF left = {} THEN PassOver(k) ELSE next)
    /\ UNCHANGED <<policy, index, creating, revoker, hot, faults>>

\* The function crashes, or a store call that ends it fails.
Crash(w) ==
    /\ worker[w].pc # "idle" /\ faults < MaxFaults
    /\ faults' = faults + 1
    /\ Step(w, Idle)
    /\ UNCHANGED <<policy, grants, index, creating, revoker, hot>>

-----------------------------------------------------------------------------
\* Revocation

RevokeRead(r, g) ==
    /\ revoker[r].pc = "idle" /\ grants[g].status # "none" /\ grants[g].rev < MaxRev
    /\ revoker' = [revoker EXCEPT ![r] = [pc |-> "put", id |-> g, grant |-> grants[g]]]
    /\ UNCHANGED <<policy, grants, index, creating, worker, hot, faults>>

\* revoke: the put asks only that the Grant exists.
RevokePut(r) ==
    LET copy == revoker[r].grant IN
    /\ revoker[r].pc = "put"
    /\ Put(revoker[r].id, [copy EXCEPT !.status = "revoked", !.rev = @ + 1])
    /\ revoker' = [revoker EXCEPT ![r] = [pc |-> "idle", id |-> None, grant |-> Absent]]
    /\ UNCHANGED <<policy, index, creating, worker, hot, faults>>

\* revoke_if_epoch_before: the read and the put are fenced by the revision.
RevokeBeforeEpoch(g) ==
    /\ Fenced /\ grants[g].status # "none" /\ grants[g].rev < MaxRev
    /\ Put(g, [grants[g] EXCEPT !.status = "revoked", !.rev = @ + 1])
    /\ UNCHANGED <<policy, index, creating, worker, revoker, hot, faults>>

-----------------------------------------------------------------------------
\* Issuing (stale_gate and the token that follows it)

CacheExpire ==
    /\ cache # None
    /\ cache' = None
    /\ UNCHANGED <<policy, grants, index, creating, worker, revoker, token, faults>>

\* A Grant that was never evaluated is not policed.
StaleOnlyIfEvaluated(rec, cur) == rec.pv > 0 /\ rec.pv < cur

Stale(rec, cur) == rec.pv < cur

\* The Grant is read first and then compared with the cached version.
Issue(g) ==
    LET cur == IF cache = None THEN pv ELSE cache IN
    /\ Issuing /\ grants[g].status = "active"
    /\ cache' = cur
    /\ token' = IF Stale(grants[g], cur) THEN None
                ELSE [id |-> g, authority |-> EffectiveView(g, grants[g]), since |-> cur]
    /\ UNCHANGED <<policy, grants, index, creating, worker, revoker, faults>>

-----------------------------------------------------------------------------
WorkerStep(w) ==
    \/ Invoke(w) \/ PublishRead(w) \/ PublishPut(w) \/ PublishBump(w, 1) \/ PublishHeal(w)
    \/ ReadVersion(w) \/ ReadArtifact(w) \/ Query(w) \/ Listed(w)
    \/ \E g \in Grants : Get(w, g) \/ Write(w, g)

Next ==
    \/ \E w \in Workers : WorkerStep(w) \/ PublishBump(w, 2) \/ Crash(w)
    \/ \E g \in Grants :
         \/ CreateVersion(g) \/ CreateArtifact(g) \/ CreatePut(g) \/ IndexCatchUp(g)
         \/ RevokeBeforeEpoch(g) \/ Issue(g)
    \/ \E r \in Revokers : RevokePut(r) \/ \E g \in Grants : RevokeRead(r, g)
    \/ \E p \in Policies \cup {Broken} : Deploy(p)
    \/ CacheExpire

Spec == Init /\ [][Next]_vars

-----------------------------------------------------------------------------
\* The effective authority of a Grant is that of the artifact of the version it is stamped
\* with, whatever publications, passes and creations overlapped.
StampTruthful ==
    \A g \in Grants :
      (grants[g].status = "active" /\ grants[g].pv > 0) =>
        /\ art[grants[g].pv] # None
        /\ grants[g].eff = Evaluate(art[grants[g].pv], g)

\* No active Grant that has something to evaluate is stored evaluated and empty: the
\* creation is refused and the recomputation revokes (grant/src/lib.rs:71).
NoEmptyAuthority ==
    \A g \in Grants :
      (grants[g].status = "active" /\ grants[g].pv > 0 /\ Consent[g] # {}) => grants[g].eff # {}

\* A token carries no authority beyond what some version in force since the cached
\* version was read permits: a narrowing reaches the hot path within the cache's life.
IssueWithinPolicy ==
    token # None =>
      \/ token.since = 0 /\ token.authority = Consent[token.id]
      \/ \E v \in Versions : v >= token.since /\ v <= pv /\ art[v] # None
                             /\ token.authority \subseteq Evaluate(art[v], token.id)

\* A revoked Grant stays revoked: the recomputation does not bring it back
\* (authorization.rs, revoke and put_conditional).
RevokedStays ==
    \A g \in Grants : grants[g].status = "revoked" => grants'[g].status = "revoked"
=============================================================================
