---------------------------- MODULE MCSettling ------------------------------
(***************************************************************************)
(* What workers, passes and operators have to finish, in small instances   *)
(* with the fairness of their schedules and of people who repeat what has  *)
(* not come true. Each behaviour is one of a single instance, named by the *)
(* variable instance; the variables of the other components stay NotUsed. *)
(***************************************************************************)
EXTENDS Integers, TLC

CONSTANTS c1, c2, c3, r1, r2, m1, o1, o2, w1, w2, e1, p1, p2, a1, k1, f1, east,
          west, s1, NoValue, NotUsed

VARIABLES instance, versions, stages, now, task, cache, mig, settled, rec, kms,
          indexed, work, signed, since, stream, eligible, removal, index, crashes,
          pushed, req, replica, expired, rested, pw, active, grant, proc, resent,
          faults, issued, outdated, client, source, refs, covered, legacy, pass,
          admin, prod, late, queue, log, row, idx, note, object, sent, retained,
          table, pend, age, mem, job, codes, spent, proof, seen, accepted, op, ctx,
          wait, hold, lease, frozen, data, act, secret, wk

\* A server in either Region.
ServerHome == p1 :> east @@ s1 :> west

\* A rotation of the administrator secret and its promotion.
Doc(rev, cur, next, at, retired) ==
    [rev |-> rev, cur |-> cur, next |-> next, retireAt |-> at, retired |-> retired]
LegacyDoc == Doc(1, c1, NoValue, 3, {})
RotationDocs == {Doc(2, c1, c2, 2, {}), Doc(3, c2, NoValue, 3, {c1})}

\* Commands that leave keys behind when they are interrupted.
InterruptedCommands ==
    {[cmd |-> c, op |-> o2] : c \in {"rotate", "rollback", "emergency_revoke"}}

Admin == INSTANCE AdminCredentials WITH
    Creds <- {c1, c2, c3}, Docs <- RotationDocs, Legacy <- LegacyDoc,
    Runtimes <- {r1, r2}, Steady <- {r1}, Migrators <- {m1}, CacheTTL <- 1,
    Reserve <- 1, MaxTime <- 2, MaxVersions <- 3, None <- NoValue
Orphans == INSTANCE TenantKeys WITH
    NumAlgs <- 1, Keys <- 1..3, NoKey <- 0, Ops <- {o1, o2}, NoOp <- NoValue,
    OnboardOp <- o1, Workers <- {w1, w2}, Commands <- InterruptedCommands,
    PublishAhead <- 1, PublishingTimeout <- 1, Overlap <- 1, WorkerTimeout <- 0,
    CommitDelay <- 0, TokenLife <- 1, JwksMaxAge <- 1, MaxTime <- 1
Ssf == INSTANCE SsfDelivery WITH
    Events <- {e1}, Workers <- {w1, w2}, MaxRev <- 1, MaxCycle <- 2, MaxTotal <- 2,
    MaxRedrives <- 0, MaxCrashes <- 1, Timely <- TRUE, MayAge <- FALSE
Served == INSTANCE PollGrant WITH
    Polls <- {p1}, Approvers <- {a1}, Device <- FALSE, Push <- TRUE,
    FaultKinds <- {"sign"}, MaxFaults <- 1, MaxPolls <- 2, MaxResets <- 0,
    MayExpire <- FALSE
Reclaim == INSTANCE ClientReclaim WITH
    Codes <- {k1}, Families <- {f1}, Passes <- {p1, p2}, Admins <- {a1},
    MaxMigrations <- 1
Archive == INSTANCE SecurityEvents WITH
    Slots <- 1..2, HotAttempts <- 2, EnqueueAttempts <- 1, IngressAttempts <- 9,
    HistoryLimit <- 64, ArchiveAttempts <- 1, CasAttempts <- 1, StreamTries <- 2,
    NoteReceives <- 2, Start <- "hot", AmbiguousEnqueue <- FALSE, MaxFaults <- 2,
    MaxCrashes <- 0, MaxAttempts <- 12
Region == INSTANCE RegionFailover WITH
    Primary <- east, Standby <- west, Instances <- {p1, s1}, Home <- ServerHome,
    Workers <- {}, Operators <- {o1}, Quiescence <- 3, ApiLimit <- 1,
    WorkerLimit <- 2, Lifetime <- 0, Skew <- 0, ClockError <- 0, Follow <- {},
    LateCalls <- FALSE, MaxRev <- 5, MaxFaults <- 1, None <- NoValue
Hold == INSTANCE Governance WITH
    Workers <- {w1, w2}, Faulty <- {w2}, Jobs <- {"offboarding"}, Rows <- {r1},
    Aliases <- {a1}, Secret <- "present", Fifo <- TRUE, Holds <- TRUE,
    WorkerLimit <- 1, LeaseSecs <- 2, ClaimSecs <- 2, Bound <- 1, None <- NoValue
Erasure == INSTANCE Governance WITH
    Workers <- {w1, w2}, Faulty <- {w2}, Jobs <- {"erasure"}, Rows <- {r1},
    Aliases <- {a1}, Secret <- "present", Fifo <- TRUE, Holds <- FALSE,
    WorkerLimit <- 1, LeaseSecs <- 2, ClaimSecs <- 2, Bound <- 1, None <- NoValue

\* The scheduled reconciliation of w1 runs again and again and is not cut off; the other
\* workers serve what the queue delivers and may stop at any point.
ReconcilerNext ==
    /\ \/ Orphans!Receive(w1, "reconcile", o1)
       \/ Orphans!Work(w1)
       \/ \E c \in InterruptedCommands : Orphans!Receive(w2, c.cmd, c.op)
       \/ Orphans!Work(w2)
       \/ Orphans!Abandon(w2)
       \/ \E k \in 1..3 : Orphans!Index(k)
       \/ Orphans!Tick
    /\ Orphans!Observe

\* The client waits for the interval before it polls again, as slow_down asks it to.
Polite == (proc[p1].pc = "idle" /\ proc'[p1].pc = "claim") => rested
PoliteNext == Served!Next /\ Polite

ASSUME
    /\ Admin!CredentialsAssumption /\ Orphans!AlgsAssumption
    /\ Orphans!NamesAssumption /\ Orphans!TimesAssumption
    /\ Orphans!CommandsAssumption /\ Ssf!SsfAssumption /\ Served!PollAssumption
    /\ Reclaim!ReclaimAssumption /\ Archive!BoundsAssumption
    /\ Region!TimesAssumption /\ Region!InstancesAssumption
    /\ Hold!TimesAssumption /\ Hold!JobsAssumption /\ Hold!SecretAssumption
    /\ Erasure!TimesAssumption /\ Erasure!JobsAssumption
    /\ Erasure!SecretAssumption

\* The variables of the components that an instance leaves out.
NotAdmin == <<rec, kms, indexed, work, signed, since, stream, eligible, removal,
    index, crashes, pushed, req, replica, expired, rested, pw, active, grant, proc,
    resent, faults, issued, outdated, client, source, refs, covered, legacy, pass,
    admin, prod, late, queue, log, row, idx, note, object, sent, retained, table,
    pend, age, mem, job, codes, spent, proof, seen, accepted, op, ctx, wait, hold,
    lease, frozen, data, act, secret, wk>>
NotKeys == <<versions, stages, task, cache, mig, settled, stream, eligible,
    removal, index, crashes, pushed, req, replica, expired, rested, pw, active,
    grant, proc, resent, faults, issued, outdated, client, source, refs, covered,
    legacy, pass, admin, prod, late, queue, log, row, idx, note, object, sent,
    retained, table, pend, age, mem, job, codes, spent, proof, seen, accepted, op,
    ctx, wait, hold, lease, frozen, data, act, secret, wk>>
NotSsf == <<versions, stages, now, cache, mig, settled, kms, indexed, work, signed,
    since, req, replica, expired, rested, pw, active, grant, proc, resent, faults,
    issued, outdated, client, source, refs, covered, legacy, pass, admin, prod,
    late, queue, log, row, idx, note, object, sent, retained, table, pend, age,
    mem, job, codes, spent, proof, seen, accepted, op, ctx, wait, hold, lease,
    frozen, data, act, secret, wk>>
NotPoll == <<versions, stages, now, task, cache, mig, settled, rec, kms, indexed,
    work, signed, since, stream, eligible, removal, index, crashes, pushed, client,
    source, refs, covered, legacy, pass, admin, prod, late, queue, log, row, idx,
    note, object, sent, retained, table, pend, age, mem, job, codes, spent, proof,
    seen, accepted, op, ctx, wait, hold, lease, frozen, data, act, secret, wk>>
NotClients == <<versions, stages, now, task, cache, settled, rec, kms, indexed,
    work, signed, since, stream, eligible, removal, index, crashes, pushed, req,
    replica, expired, rested, pw, active, grant, proc, resent, faults, issued,
    outdated, prod, late, queue, log, row, idx, note, object, sent, retained,
    table, pend, age, mem, job, codes, spent, proof, seen, accepted, op, ctx, wait,
    hold, lease, frozen, data, act, secret, wk>>
NotEvents == <<versions, stages, now, task, cache, mig, settled, rec, kms, indexed,
    signed, since, eligible, removal, index, pushed, req, replica, expired, rested,
    pw, active, grant, proc, resent, issued, outdated, client, source, refs,
    covered, legacy, pass, admin, table, pend, age, mem, job, codes, spent, proof,
    seen, accepted, op, ctx, wait, hold, lease, frozen, data, act, secret, wk>>
NotRegion == <<versions, stages, now, task, cache, mig, settled, rec, kms, indexed,
    work, signed, since, stream, eligible, removal, index, crashes, pushed, req,
    expired, rested, pw, active, grant, proc, resent, issued, outdated, client,
    source, refs, covered, legacy, pass, admin, prod, queue, log, row, idx, note,
    object, sent, retained, hold, lease, frozen, data, act, secret, wk>>
NotGovernance == <<versions, stages, now, task, cache, mig, settled, rec, kms,
    indexed, work, signed, since, stream, eligible, removal, index, crashes,
    pushed, req, replica, expired, rested, pw, active, grant, proc, resent, faults,
    issued, outdated, client, source, refs, covered, legacy, pass, admin, prod,
    late, log, row, idx, note, object, sent, retained, table, pend, age, mem,
    codes, spent, proof, seen, accepted, op, ctx, wait>>
OnlyAdmin ==
    /\ rec = NotUsed /\ kms = NotUsed /\ indexed = NotUsed /\ work = NotUsed /\ signed = NotUsed
    /\ since = NotUsed /\ stream = NotUsed /\ eligible = NotUsed /\ removal = NotUsed
    /\ index = NotUsed /\ crashes = NotUsed /\ pushed = NotUsed /\ req = NotUsed
    /\ replica = NotUsed /\ expired = NotUsed /\ rested = NotUsed /\ pw = NotUsed
    /\ active = NotUsed /\ grant = NotUsed /\ proc = NotUsed /\ resent = NotUsed /\ faults = NotUsed
    /\ issued = NotUsed /\ outdated = NotUsed /\ client = NotUsed /\ source = NotUsed
    /\ refs = NotUsed /\ covered = NotUsed /\ legacy = NotUsed /\ pass = NotUsed /\ admin = NotUsed
    /\ prod = NotUsed /\ late = NotUsed /\ queue = NotUsed /\ log = NotUsed /\ row = NotUsed
    /\ idx = NotUsed /\ note = NotUsed /\ object = NotUsed /\ sent = NotUsed /\ retained = NotUsed
    /\ table = NotUsed /\ pend = NotUsed /\ age = NotUsed /\ mem = NotUsed /\ job = NotUsed
    /\ codes = NotUsed /\ spent = NotUsed /\ proof = NotUsed /\ seen = NotUsed /\ accepted = NotUsed
    /\ op = NotUsed /\ ctx = NotUsed /\ wait = NotUsed /\ hold = NotUsed /\ lease = NotUsed
    /\ frozen = NotUsed /\ data = NotUsed /\ act = NotUsed /\ secret = NotUsed /\ wk = NotUsed
OnlyKeys ==
    /\ versions = NotUsed /\ stages = NotUsed /\ task = NotUsed /\ cache = NotUsed /\ mig = NotUsed
    /\ settled = NotUsed /\ stream = NotUsed /\ eligible = NotUsed /\ removal = NotUsed
    /\ index = NotUsed /\ crashes = NotUsed /\ pushed = NotUsed /\ req = NotUsed
    /\ replica = NotUsed /\ expired = NotUsed /\ rested = NotUsed /\ pw = NotUsed
    /\ active = NotUsed /\ grant = NotUsed /\ proc = NotUsed /\ resent = NotUsed /\ faults = NotUsed
    /\ issued = NotUsed /\ outdated = NotUsed /\ client = NotUsed /\ source = NotUsed
    /\ refs = NotUsed /\ covered = NotUsed /\ legacy = NotUsed /\ pass = NotUsed /\ admin = NotUsed
    /\ prod = NotUsed /\ late = NotUsed /\ queue = NotUsed /\ log = NotUsed /\ row = NotUsed
    /\ idx = NotUsed /\ note = NotUsed /\ object = NotUsed /\ sent = NotUsed /\ retained = NotUsed
    /\ table = NotUsed /\ pend = NotUsed /\ age = NotUsed /\ mem = NotUsed /\ job = NotUsed
    /\ codes = NotUsed /\ spent = NotUsed /\ proof = NotUsed /\ seen = NotUsed /\ accepted = NotUsed
    /\ op = NotUsed /\ ctx = NotUsed /\ wait = NotUsed /\ hold = NotUsed /\ lease = NotUsed
    /\ frozen = NotUsed /\ data = NotUsed /\ act = NotUsed /\ secret = NotUsed /\ wk = NotUsed
OnlySsf ==
    /\ versions = NotUsed /\ stages = NotUsed /\ now = NotUsed /\ cache = NotUsed /\ mig = NotUsed
    /\ settled = NotUsed /\ kms = NotUsed /\ indexed = NotUsed /\ work = NotUsed /\ signed = NotUsed
    /\ since = NotUsed /\ req = NotUsed /\ replica = NotUsed /\ expired = NotUsed
    /\ rested = NotUsed /\ pw = NotUsed /\ active = NotUsed /\ grant = NotUsed /\ proc = NotUsed
    /\ resent = NotUsed /\ faults = NotUsed /\ issued = NotUsed /\ outdated = NotUsed
    /\ client = NotUsed /\ source = NotUsed /\ refs = NotUsed /\ covered = NotUsed
    /\ legacy = NotUsed /\ pass = NotUsed /\ admin = NotUsed /\ prod = NotUsed /\ late = NotUsed
    /\ queue = NotUsed /\ log = NotUsed /\ row = NotUsed /\ idx = NotUsed /\ note = NotUsed
    /\ object = NotUsed /\ sent = NotUsed /\ retained = NotUsed /\ table = NotUsed /\ pend = NotUsed
    /\ age = NotUsed /\ mem = NotUsed /\ job = NotUsed /\ codes = NotUsed /\ spent = NotUsed
    /\ proof = NotUsed /\ seen = NotUsed /\ accepted = NotUsed /\ op = NotUsed /\ ctx = NotUsed
    /\ wait = NotUsed /\ hold = NotUsed /\ lease = NotUsed /\ frozen = NotUsed /\ data = NotUsed
    /\ act = NotUsed /\ secret = NotUsed /\ wk = NotUsed
OnlyPoll ==
    /\ versions = NotUsed /\ stages = NotUsed /\ now = NotUsed /\ task = NotUsed /\ cache = NotUsed
    /\ mig = NotUsed /\ settled = NotUsed /\ rec = NotUsed /\ kms = NotUsed /\ indexed = NotUsed
    /\ work = NotUsed /\ signed = NotUsed /\ since = NotUsed /\ stream = NotUsed
    /\ eligible = NotUsed /\ removal = NotUsed /\ index = NotUsed /\ crashes = NotUsed
    /\ pushed = NotUsed /\ client = NotUsed /\ source = NotUsed /\ refs = NotUsed
    /\ covered = NotUsed /\ legacy = NotUsed /\ pass = NotUsed /\ admin = NotUsed /\ prod = NotUsed
    /\ late = NotUsed /\ queue = NotUsed /\ log = NotUsed /\ row = NotUsed /\ idx = NotUsed
    /\ note = NotUsed /\ object = NotUsed /\ sent = NotUsed /\ retained = NotUsed /\ table = NotUsed
    /\ pend = NotUsed /\ age = NotUsed /\ mem = NotUsed /\ job = NotUsed /\ codes = NotUsed
    /\ spent = NotUsed /\ proof = NotUsed /\ seen = NotUsed /\ accepted = NotUsed /\ op = NotUsed
    /\ ctx = NotUsed /\ wait = NotUsed /\ hold = NotUsed /\ lease = NotUsed /\ frozen = NotUsed
    /\ data = NotUsed /\ act = NotUsed /\ secret = NotUsed /\ wk = NotUsed
OnlyClients ==
    /\ versions = NotUsed /\ stages = NotUsed /\ now = NotUsed /\ task = NotUsed /\ cache = NotUsed
    /\ settled = NotUsed /\ rec = NotUsed /\ kms = NotUsed /\ indexed = NotUsed /\ work = NotUsed
    /\ signed = NotUsed /\ since = NotUsed /\ stream = NotUsed /\ eligible = NotUsed
    /\ removal = NotUsed /\ index = NotUsed /\ crashes = NotUsed /\ pushed = NotUsed
    /\ req = NotUsed /\ replica = NotUsed /\ expired = NotUsed /\ rested = NotUsed /\ pw = NotUsed
    /\ active = NotUsed /\ grant = NotUsed /\ proc = NotUsed /\ resent = NotUsed /\ faults = NotUsed
    /\ issued = NotUsed /\ outdated = NotUsed /\ prod = NotUsed /\ late = NotUsed /\ queue = NotUsed
    /\ log = NotUsed /\ row = NotUsed /\ idx = NotUsed /\ note = NotUsed /\ object = NotUsed
    /\ sent = NotUsed /\ retained = NotUsed /\ table = NotUsed /\ pend = NotUsed /\ age = NotUsed
    /\ mem = NotUsed /\ job = NotUsed /\ codes = NotUsed /\ spent = NotUsed /\ proof = NotUsed
    /\ seen = NotUsed /\ accepted = NotUsed /\ op = NotUsed /\ ctx = NotUsed /\ wait = NotUsed
    /\ hold = NotUsed /\ lease = NotUsed /\ frozen = NotUsed /\ data = NotUsed /\ act = NotUsed
    /\ secret = NotUsed /\ wk = NotUsed
OnlyEvents ==
    /\ versions = NotUsed /\ stages = NotUsed /\ now = NotUsed /\ task = NotUsed /\ cache = NotUsed
    /\ mig = NotUsed /\ settled = NotUsed /\ rec = NotUsed /\ kms = NotUsed /\ indexed = NotUsed
    /\ signed = NotUsed /\ since = NotUsed /\ eligible = NotUsed /\ removal = NotUsed
    /\ index = NotUsed /\ pushed = NotUsed /\ req = NotUsed /\ replica = NotUsed
    /\ expired = NotUsed /\ rested = NotUsed /\ pw = NotUsed /\ active = NotUsed /\ grant = NotUsed
    /\ proc = NotUsed /\ resent = NotUsed /\ issued = NotUsed /\ outdated = NotUsed
    /\ client = NotUsed /\ source = NotUsed /\ refs = NotUsed /\ covered = NotUsed
    /\ legacy = NotUsed /\ pass = NotUsed /\ admin = NotUsed /\ table = NotUsed /\ pend = NotUsed
    /\ age = NotUsed /\ mem = NotUsed /\ job = NotUsed /\ codes = NotUsed /\ spent = NotUsed
    /\ proof = NotUsed /\ seen = NotUsed /\ accepted = NotUsed /\ op = NotUsed /\ ctx = NotUsed
    /\ wait = NotUsed /\ hold = NotUsed /\ lease = NotUsed /\ frozen = NotUsed /\ data = NotUsed
    /\ act = NotUsed /\ secret = NotUsed /\ wk = NotUsed
OnlyRegion ==
    /\ versions = NotUsed /\ stages = NotUsed /\ now = NotUsed /\ task = NotUsed /\ cache = NotUsed
    /\ mig = NotUsed /\ settled = NotUsed /\ rec = NotUsed /\ kms = NotUsed /\ indexed = NotUsed
    /\ work = NotUsed /\ signed = NotUsed /\ since = NotUsed /\ stream = NotUsed
    /\ eligible = NotUsed /\ removal = NotUsed /\ index = NotUsed /\ crashes = NotUsed
    /\ pushed = NotUsed /\ req = NotUsed /\ expired = NotUsed /\ rested = NotUsed /\ pw = NotUsed
    /\ active = NotUsed /\ grant = NotUsed /\ proc = NotUsed /\ resent = NotUsed /\ issued = NotUsed
    /\ outdated = NotUsed /\ client = NotUsed /\ source = NotUsed /\ refs = NotUsed
    /\ covered = NotUsed /\ legacy = NotUsed /\ pass = NotUsed /\ admin = NotUsed /\ prod = NotUsed
    /\ queue = NotUsed /\ log = NotUsed /\ row = NotUsed /\ idx = NotUsed /\ note = NotUsed
    /\ object = NotUsed /\ sent = NotUsed /\ retained = NotUsed /\ hold = NotUsed /\ lease = NotUsed
    /\ frozen = NotUsed /\ data = NotUsed /\ act = NotUsed /\ secret = NotUsed /\ wk = NotUsed
OnlyGovernance ==
    /\ versions = NotUsed /\ stages = NotUsed /\ now = NotUsed /\ task = NotUsed /\ cache = NotUsed
    /\ mig = NotUsed /\ settled = NotUsed /\ rec = NotUsed /\ kms = NotUsed /\ indexed = NotUsed
    /\ work = NotUsed /\ signed = NotUsed /\ since = NotUsed /\ stream = NotUsed
    /\ eligible = NotUsed /\ removal = NotUsed /\ index = NotUsed /\ crashes = NotUsed
    /\ pushed = NotUsed /\ req = NotUsed /\ replica = NotUsed /\ expired = NotUsed
    /\ rested = NotUsed /\ pw = NotUsed /\ active = NotUsed /\ grant = NotUsed /\ proc = NotUsed
    /\ resent = NotUsed /\ faults = NotUsed /\ issued = NotUsed /\ outdated = NotUsed
    /\ client = NotUsed /\ source = NotUsed /\ refs = NotUsed /\ covered = NotUsed
    /\ legacy = NotUsed /\ pass = NotUsed /\ admin = NotUsed /\ prod = NotUsed /\ late = NotUsed
    /\ log = NotUsed /\ row = NotUsed /\ idx = NotUsed /\ note = NotUsed /\ object = NotUsed
    /\ sent = NotUsed /\ retained = NotUsed /\ table = NotUsed /\ pend = NotUsed /\ age = NotUsed
    /\ mem = NotUsed /\ codes = NotUsed /\ spent = NotUsed /\ proof = NotUsed /\ seen = NotUsed
    /\ accepted = NotUsed /\ op = NotUsed /\ ctx = NotUsed /\ wait = NotUsed

Init ==
    \/ instance = "admin" /\ Admin!Init /\ OnlyAdmin
    \/ instance = "keys" /\ Orphans!ReadyInit /\ OnlyKeys
    \/ instance = "ssf" /\ Ssf!Init /\ OnlySsf
    \/ instance = "poll" /\ Served!Init /\ OnlyPoll
    \/ instance = "reclaim" /\ Reclaim!Init /\ OnlyClients
    \/ instance = "events" /\ Archive!InitEvent /\ OnlyEvents
    \/ instance = "region" /\ Region!Init /\ OnlyRegion
    \/ instance = "hold" /\ Hold!Init /\ OnlyGovernance
    \/ instance = "erasure" /\ Erasure!Init /\ OnlyGovernance

Next ==
    /\ UNCHANGED instance
    /\ \/ instance = "admin" /\ Admin!Next /\ UNCHANGED NotAdmin
       \/ instance = "keys" /\ ReconcilerNext /\ UNCHANGED NotKeys
       \/ instance = "ssf" /\ Ssf!Next /\ UNCHANGED NotSsf
       \/ instance = "poll" /\ PoliteNext /\ UNCHANGED NotPoll
       \/ instance = "reclaim" /\ Reclaim!Next /\ UNCHANGED NotClients
       \/ instance = "events" /\ Archive!NextEvent /\ UNCHANGED NotEvents
       \/ instance = "region" /\ Region!Next /\ UNCHANGED NotRegion
       \/ instance = "hold" /\ Hold!Next /\ UNCHANGED NotGovernance
       \/ instance = "erasure" /\ Erasure!Next /\ UNCHANGED NotGovernance

vars == <<instance, versions, stages, now, task, cache, mig, settled, rec, kms,
          indexed, work, signed, since, stream, eligible, removal, index, crashes,
          pushed, req, replica, expired, rested, pw, active, grant, proc, resent,
          faults, issued, outdated, client, source, refs, covered, legacy, pass,
          admin, prod, late, queue, log, row, idx, note, object, sent, retained,
          table, pend, age, mem, job, codes, spent, proof, seen, accepted, op, ctx,
          wait, hold, lease, frozen, data, act, secret, wk>>

\* The variables an instance uses, and a step of an instance.
used ==
    CASE instance = "admin" -> Admin!vars
      [] instance = "keys" -> Orphans!vars
      [] instance = "ssf" -> Ssf!vars
      [] instance = "poll" -> Served!vars
      [] instance = "reclaim" -> Reclaim!vars
      [] instance = "events" -> Archive!eventVars
      [] instance = "region" -> Region!vars
      [] instance \in {"hold", "erasure"} -> Hold!vars
InAdmin == instance = "admin" /\ UNCHANGED instance
InOrphans == instance = "keys" /\ UNCHANGED instance
InSsf == instance = "ssf" /\ UNCHANGED instance
InServed == instance = "poll" /\ UNCHANGED instance
InReclaim == instance = "reclaim" /\ UNCHANGED instance
InArchive == instance = "events" /\ UNCHANGED instance
InRegion == instance = "region" /\ UNCHANGED instance
InHold == instance = "hold" /\ UNCHANGED instance
InErasure == instance = "erasure" /\ UNCHANGED instance

\* What is scheduled, of each instance.  An instance stays what it is, so the fairness of one
\* action of each can be stated together.  Strong fairness (Fair1 to Fair4): passes come again
\* and again and find, when they do, what was enabled in between.
\*   admin: time passes, calls end, requests reach a steady runtime, the operator follows the
\*          recovery instructions
\*   keys: the scheduled reconciliation runs, the index of KMS aliases catches up
\*   ssf: the schedule starts passes, leases run out, the index catches up
\*   poll: the client goes on polling, handlers run on, the replica catches up
\*   reclaim: daily passes, and the migration is driven to its end
\*   events: the producer runs on, the stream, the queues and the sweep deliver
\*   region: time passes, rows are replicated, invocations begin and end, one that is admitted
\*           again and again gets on, and the operator repeats the script until it is through
\*   hold, erasure: time passes; an invocation goes on or is killed at its limit; a worker that
\*           does not fail gets, sooner or later, a command at a moment when it can be carried
\*           out; owners and operators repeat a request that has not come true
Fair1 ==
    \/ InSsf /\ Ssf!Query(w1, e1)
    \/ InServed /\ Served!Poll(p1, req) /\ Polite
    \/ InReclaim /\ Reclaim!ReadRefresh(p1)
    \/ InArchive /\ (\E k \in 1..2 : Archive!BeginStream(k))
    \/ InRegion /\ Region!admit(p1)
    \/ InHold /\ (Hold!BeginHeld(w1, "offboarding") \/ Hold!BeginWork(w1, "offboarding"))
    \/ InErasure /\ (Erasure!BeginHeld(w1, "erasure") \/ Erasure!BeginWork(w1, "erasure"))
Fair2 ==
    \/ InSsf /\ Ssf!Query(w2, e1)
    \/ InReclaim /\ Reclaim!ReadCode(p1)
    \/ InArchive /\ (\E k \in 1..2 : Archive!BeginNote(k))
    \/ InRegion /\ Region!admit(s1)
    \/ InHold /\ Hold!settle_enabling_policy
    \/ InErasure /\ Erasure!settle_enabling_policy
Fair3 ==
    \/ InReclaim /\ Reclaim!Convert(p1)
    \/ InArchive /\ (\E k \in 1..2 : Archive!BeginIngress(k))
    \/ InHold /\ Hold!start_tenant_offboarding
    \/ InErasure /\ Erasure!start_user_erasure
Fair4 ==
    \/ InReclaim /\ Reclaim!HardDelete(p1)
    \/ InArchive /\ (\E k \in 1..2 : Archive!BeginSweep(k))
    \/ InHold /\ Hold!control_resume_job
    \/ InErasure /\ Erasure!control_resume_job
Fair5 ==
    \/ InAdmin /\ Admin!OperatorClear
    \/ InOrphans /\ Orphans!Receive(w1, "reconcile", o1) /\ Orphans!Observe
    \/ InSsf /\ Ssf!WorkerStep(w1)
    \/ InServed /\ Served!Replicate
    \/ InReclaim /\ Reclaim!Migrate
    \/ InArchive /\ (Archive!WriteRow \/ Archive!Enqueue)
    \/ InRegion /\ Region!Tick
    \/ InHold /\ Hold!Tick
    \/ InErasure /\ Erasure!Tick
Fair6 ==
    \/ InAdmin /\ Admin!Tick
    \/ InOrphans /\ Orphans!Work(w1) /\ Orphans!Observe
    \/ InSsf /\ Ssf!WorkerStep(w2)
    \/ InServed /\ Served!Rest
    \/ InReclaim /\ Reclaim!GraceOver
    \/ InArchive /\ Archive!LateWrite
    \/ InRegion /\ Region!Script(o1)
    \/ InHold /\ (Hold!Proceed(w1) \/ Hold!Killed(w1))
    \/ InErasure /\ (Erasure!Proceed(w1) \/ Erasure!Killed(w1))
Fair7 ==
    \/ InAdmin /\ (Admin!Commit(r1) \/ Admin!Abort(r1))
    \/ InOrphans /\ Orphans!Index(1) /\ Orphans!Observe
    \/ InSsf /\ Ssf!ComeDue(e1)
    \/ InServed /\ Served!IssueStep(p1)
    \/ InReclaim /\ Reclaim!List(p1)
    \/ InArchive /\ Archive!LeaseRunsOut
    \/ InRegion /\ Region!Ctl.state = "quiescing" /\ Region!rollback_to_primary(o1)
    \/ InHold /\ (Hold!Proceed(w2) \/ Hold!Killed(w2))
    \/ InErasure /\ (Erasure!Proceed(w2) \/ Erasure!Killed(w2))
Fair8 ==
    \/ InAdmin /\ (Admin!Commit(r2) \/ Admin!Abort(r2))
    \/ InOrphans /\ Orphans!Index(2) /\ Orphans!Observe
    \/ InSsf /\ Ssf!IndexCatchUp(e1)
    \/ InServed /\ Served!IssueStep(a1)
    \/ InArchive /\ Archive!IndexCatchesUp
    \/ InRegion /\ Region!Read(p1)
Fair9 ==
    \/ InAdmin /\ Admin!Load(r1)
    \/ InOrphans /\ Orphans!Index(3) /\ Orphans!Observe
    \/ InServed /\ Served!Claim(p1)
    \/ InArchive /\ Archive!ArchiveStep(1)
    \/ InRegion /\ Region!Read(s1)
Fair10 ==
    \/ InServed /\ Served!CommitDecision(a1)
    \/ InArchive /\ Archive!ArchiveStep(2)
    \/ InRegion /\ Region!End(p1)
Fair11 ==
    \/ InServed /\ Served!SkipPush(a1)
    \/ InRegion /\ Region!End(s1)
Fair12 == InRegion /\ Region!Replicate(Region!Control)
Fair13 == InRegion /\ Region!Replicate(Region!Row(east))
Fair14 == InRegion /\ Region!Replicate(Region!Row(west))
Fair15 == InRegion /\ Region!Replicate(Region!Fence(east))
Fair16 == InRegion /\ Region!Replicate(Region!Fence(west))

Fairness ==
    /\ SF_used(Fair1) /\ SF_used(Fair2) /\ SF_used(Fair3) /\ SF_used(Fair4)
    /\ WF_used(Fair5) /\ WF_used(Fair6) /\ WF_used(Fair7) /\ WF_used(Fair8)
    /\ WF_used(Fair9) /\ WF_used(Fair10) /\ WF_used(Fair11) /\ WF_used(Fair12)
    /\ WF_used(Fair13) /\ WF_used(Fair14) /\ WF_used(Fair15) /\ WF_used(Fair16)

LiveSpec == Init /\ [][Next]_vars /\ Fairness

-----------------------------------------------------------------------------
\* What is under way, in each instance: a rotation that is not yet trusted, a key nothing
\* refers to, a delivery, an approved request without token, a client that nobody uses,
\* an event that is not in the archive, Regions none of which serves, a hold that was asked
\* for, a job that was started.
Unsettled ==
    CASE instance = "admin" -> Admin!Pending
      [] instance = "keys" ->
           \E k \in 1..3 : kms[k].state = "enabled" /\ k \notin Orphans!References(rec)
      [] instance = "ssf" -> rec[e1].status \in Ssf!Active
      [] instance = "poll" ->
           req.status = "approved" /\ issued = 0 /\ pw = req.pwv /\ active
      [] instance = "reclaim" -> Reclaim!Reclaimable
      [] instance = "events" -> row # Archive!Absent /\ row.status # "archived"
      [] instance = "region" ->
           ~\E i \in {p1, s1} : Region!Running(i) /\ Region!Ctl.state = "active"
      [] instance = "hold" -> hold = "enabling"
      [] instance = "erasure" -> job["erasure"].st \notin {"none"} \union Erasure!Terminal

\* What a worker or a pass has to finish is finished, wherever workers stopped before: a
\* rotation becomes trusted (EnsurePending), an orphaned key is deleted
\* (reconcile_discovered_orphans), a delivery ends (apply_attempt_result), an approved request
\* is answered, an idle client is reclaimed (reclaim_one), an event is archived, its
\* late copies included (process_due_archive, reconcile_duplicate_delivery), a transition
\* between the Regions ends with an admitted invocation of the one that was activated
\* (failover.sh), a hold is enabled or withdrawn as leases run out and claims are drained
\* (settle_enabling_hold), a job reaches the end of its deletions.
EverythingSettles == []<>~Unsettled
=============================================================================
