--------------------------- MODULE MCBackground -----------------------------
(***************************************************************************)
(* What runs beside the requests: policy recomputation, client reclaim,    *)
(* event delivery and administrator credential rotation, in small          *)
(* instances. Each behaviour is one of a single instance, named by the     *)
(* variable instance. This module extends the component of the deliveries, *)
(* so its invariants speak of every instance; where nothing is delivered   *)
(* its variables stay as Init has them, and those of the other components  *)
(* stay NotUsed.                                                           *)
(***************************************************************************)
EXTENDS SsfDelivery, Integers, TLC

CONSTANTS g, reading, writing, rar, v, w1, w2, w3, c1, c2, c3, f1, f2, p1, p2, a1,
          e1, r1, r2, m1, m2, Broken, NoValue, NotUsed

VARIABLES instance, deployed, deploys, pv, art, grants, listed, creating, worker,
          revoker, cache, token, faults, client, source, refs, covered, legacy,
          mig, pass, admin, versions, stages, now, load, settled

\* Documents of the administrator secret: the one there is, a rotation, its cancellation, its
\* promotion, and a replacement without overlap.
Doc(rev, cur, next, at, retired) ==
    [rev |-> rev, cur |-> cur, next |-> next, retireAt |-> at, retired |-> retired]
LegacyDoc == Doc(1, c1, NoValue, 3, {})
RotationDocs ==
    {Doc(2, c1, c2, 2, {}), Doc(3, c1, NoValue, 3, {c2}), Doc(3, c2, NoValue, 3, {c1}),
     Doc(2, c3, NoValue, 3, {c1})}

Policy == INSTANCE PolicyRecompute WITH
    Grants <- {g}, Rar <- rar, Consent <- [x \in {g} |-> {writing}],
    Policies <- {{reading}, {reading, writing}}, Broken <- Broken, Workers <- {w3},
    Revokers <- {v}, Fenced <- FALSE, Issuing <- TRUE, MaxPv <- 3, MaxRev <- 2,
    MaxDeploys <- 1, MaxFaults <- 1, None <- NoValue, index <- listed
FencedPass == INSTANCE PolicyRecompute WITH
    Grants <- {g}, Rar <- rar, Consent <- [x \in {g} |-> {reading, writing}],
    Policies <- {{reading}, {reading, writing}}, Broken <- Broken, Workers <- {w3},
    Revokers <- {}, Fenced <- TRUE, Issuing <- FALSE, MaxPv <- 3, MaxRev <- 3,
    MaxDeploys <- 2, MaxFaults <- 1, None <- NoValue, index <- listed
Reclaim == INSTANCE ClientReclaim WITH
    Codes <- {c1}, Families <- {f1, f2}, Passes <- {p1, p2}, Admins <- {a1},
    MaxMigrations <- 1
TimelyDelivery == INSTANCE SsfDelivery WITH
    Events <- {e1}, Workers <- {w1, w2}, MaxRev <- 2, MaxCycle <- 1, MaxTotal <- 2,
    MaxRedrives <- 0, MaxCrashes <- 1, Timely <- TRUE, MayAge <- TRUE
Rotation == INSTANCE AdminCredentials WITH
    Creds <- {c1, c2, c3}, Docs <- RotationDocs, Legacy <- LegacyDoc,
    Runtimes <- {r1, r2}, Steady <- {}, Migrators <- {m1, m2}, CacheTTL <- 1,
    Reserve <- 1, MaxTime <- 2, MaxVersions <- 4, None <- NoValue,
    task <- load

ASSUME
    /\ Policy!PolicyAssumption /\ FencedPass!PolicyAssumption
    /\ Reclaim!ReclaimAssumption /\ SsfAssumption
    /\ TimelyDelivery!SsfAssumption /\ Rotation!CredentialsAssumption

\* The variables of the components that an instance leaves out.
NotPolicy == <<client, source, refs, covered, legacy, mig, pass, admin, versions, stages,
    now, load, settled, vars>>
NotClients == <<deployed, deploys, pv, art, grants, listed, creating, worker, revoker,
    cache, token, faults, versions, stages, now, load, settled, vars>>
NotDeliveries == <<deployed, deploys, pv, art, grants, listed, creating, worker, revoker,
    cache, token, faults, client, source, refs, covered, legacy, mig, pass, admin,
    versions, stages, now, load, settled>>
NotCredentials == <<deployed, deploys, pv, art, grants, listed, creating, worker, revoker,
    token, faults, client, source, refs, covered, legacy, pass, admin, vars>>
OnlyPolicy ==
    /\ client = NotUsed /\ source = NotUsed /\ refs = NotUsed /\ covered = NotUsed
    /\ legacy = NotUsed /\ mig = NotUsed /\ pass = NotUsed /\ admin = NotUsed
    /\ versions = NotUsed /\ stages = NotUsed /\ now = NotUsed /\ load = NotUsed
    /\ settled = NotUsed
OnlyClients ==
    /\ deployed = NotUsed /\ deploys = NotUsed /\ pv = NotUsed /\ art = NotUsed
    /\ grants = NotUsed /\ listed = NotUsed /\ creating = NotUsed /\ worker = NotUsed
    /\ revoker = NotUsed /\ cache = NotUsed /\ token = NotUsed /\ faults = NotUsed
    /\ versions = NotUsed /\ stages = NotUsed /\ now = NotUsed /\ load = NotUsed
    /\ settled = NotUsed
OnlyDeliveries ==
    /\ deployed = NotUsed /\ deploys = NotUsed /\ pv = NotUsed /\ art = NotUsed
    /\ grants = NotUsed /\ listed = NotUsed /\ creating = NotUsed /\ worker = NotUsed
    /\ revoker = NotUsed /\ cache = NotUsed /\ token = NotUsed /\ faults = NotUsed
    /\ client = NotUsed /\ source = NotUsed /\ refs = NotUsed /\ covered = NotUsed
    /\ legacy = NotUsed /\ mig = NotUsed /\ pass = NotUsed /\ admin = NotUsed
    /\ versions = NotUsed /\ stages = NotUsed /\ now = NotUsed /\ load = NotUsed
    /\ settled = NotUsed
OnlyCredentials ==
    /\ deployed = NotUsed /\ deploys = NotUsed /\ pv = NotUsed /\ art = NotUsed
    /\ grants = NotUsed /\ listed = NotUsed /\ creating = NotUsed /\ worker = NotUsed
    /\ revoker = NotUsed /\ token = NotUsed /\ faults = NotUsed /\ client = NotUsed
    /\ source = NotUsed /\ refs = NotUsed /\ covered = NotUsed /\ legacy = NotUsed
    /\ pass = NotUsed /\ admin = NotUsed

AllInit ==
    /\ Init
    /\ \/ instance = "policy" /\ Policy!Init /\ OnlyPolicy
       \/ instance = "fenced" /\ FencedPass!Init /\ OnlyPolicy
       \/ instance = "reclaim" /\ Reclaim!Init /\ OnlyClients
       \/ instance \in {"delivery", "timely"} /\ OnlyDeliveries
       \/ instance = "rotation" /\ Rotation!Init /\ OnlyCredentials

AllNext ==
    /\ UNCHANGED instance
    /\ \/ instance = "policy" /\ Policy!Next /\ UNCHANGED NotPolicy
       \/ instance = "fenced" /\ FencedPass!Next /\ UNCHANGED NotPolicy
       \/ instance = "reclaim" /\ Reclaim!Next /\ UNCHANGED NotClients
       \/ instance = "delivery" /\ Next /\ UNCHANGED NotDeliveries
       \/ instance = "timely" /\ TimelyDelivery!Next /\ UNCHANGED NotDeliveries
       \/ instance = "rotation" /\ Rotation!Next /\ UNCHANGED NotCredentials

allVars == <<instance, vars, NotDeliveries>>

AllSpec == AllInit /\ [][AllNext]_allVars

Symmetry ==
    UNION {Permutations(S) : S \in {{w1, w2}, {r1, r2}, {m1, m2}}}

-----------------------------------------------------------------------------
\* The effective authority of a Grant is that of the artifact of the version it is
\* stamped with, whatever publications, passes and creations overlapped
\* (recompute); no active Grant that has something to evaluate is stored evaluated
\* and empty; and a token carries nothing beyond what some version in force since
\* the cached version was read permits: a narrowing reaches the hot path within the
\* life of the cache.
AuthorityFollowsPolicy ==
    /\ instance = "policy" => Policy!StampTruthful
    /\ instance = "fenced" => FencedPass!StampTruthful
    /\ instance = "policy" => Policy!NoEmptyAuthority
    /\ instance = "fenced" => FencedPass!NoEmptyAuthority
    /\ instance = "policy" => Policy!IssueWithinPolicy

\* Once coverage is published, the references show every live code and family,
\* although writers of two releases and the scans of the migration overlapped
\* (authority_refs.rs); and no live code or family belongs to a tombstone or to a
\* deleted client, although passes read codes and families at different times
\* (reclaim_one).
ReclaimIsSafe ==
    /\ instance = "reclaim" => Reclaim!CoverageIsComplete
    /\ instance = "reclaim" => Reclaim!NothingDangles

\* What depends on a time limit. As a lease lasts as long as a pass may, two passes
\* never push a delivery at once (DELIVERY_LEASE_SECS); and a cache lifetime after the
\* label of trust has moved, no runtime accepts anything else than the trusted version
\* (ensure_stage_snapshots_stable).
LimitsSuffice ==
    /\ instance = "timely" => TimelyDelivery!DeliveryIsSound
    /\ instance = "rotation" => Rotation!CachesAgree

\* What was ended stays ended: the recomputation does not bring a revoked Grant
\* back, a metadata update that read the client before does not revive a tombstone
\* (put_if_credential_versions), a retired administrator credential does not return
\* with a cancelled rotation that is committed late (validate_transition), and the
\* label of trust only moves to higher revisions (commit_validated).
NothingIsRevived ==
    [][/\ instance = "fenced" => FencedPass!RevokedStays
       /\ instance = "reclaim" => Reclaim!TombstoneStays
       /\ instance = "rotation" => Rotation!DeadStaysDead
       /\ instance = "rotation" => Rotation!AnchorAdvances]_allVars
=============================================================================
