----------------------------- MODULE TenantKeys -----------------------------
(***************************************************************************)
(* The provisioner of a tenant's signing keys                              *)
(* (http/src/tenant_key_provisioner.rs).  Commands arrive on a standard    *)
(* queue, so several workers serve one tenant at a time, a command may be  *)
(* delivered again, and a worker may stop at any await.                    *)
(*                                                                         *)
(* A step is what a worker does between two calls to KMS.  A read and the  *)
(* compare-and-swap that follows it with no call between are one step: the *)
(* swap that loses is a worker that stops.  Where a KMS call lies between  *)
(* them, "fresh" says that nobody has written the record since the read,   *)
(* which is what the comparison of revisions decides.                      *)
(*                                                                         *)
(* External: KMS (keys, their tags, deletion) and the tag index, which     *)
(* learns of a key some time after its creation.                           *)
(***************************************************************************)
EXTENDS TenantKeyRecord

CONSTANTS
    Workers,
    Commands,          \* what the queue delivers, any number of times
    OnboardOp,         \* the operation id of the scheduled reconciliation
    PublishAhead,      \* PUBLISH_AHEAD_SECS
    PublishingTimeout, \* PUBLISHING_TIMEOUT_SECS
    Overlap,           \* TOKEN_OVERLAP_SECS
    WorkerTimeout,     \* the time limit of the provisioner's invocation
    CommitDelay,       \* between a command's clock reading and its commit
    TokenLife,         \* the longest lived signature
    JwksMaxAge,        \* how long a verifier keeps the published keys
    MaxTime            \* bound

AllCommands == {"ensure", "rotate", "activate", "rollback", "retire",
                "emergency_revoke", "offboard", "reconcile"}

TimesAssumption ==
    /\ {PublishAhead, PublishingTimeout, Overlap, WorkerTimeout, CommitDelay,
        TokenLife, JwksMaxAge, MaxTime} \subseteq Nat
    /\ Overlap > 0
\* What the windows of the code presuppose: verifiers refresh the key set
\* before a published key signs, an invocation ends before its rotation can
\* be activated, and the clock skew added to the overlap absorbs the delay
\* of a commit, which is made before the invocation ends.
WindowsAssumption ==
    /\ JwksMaxAge <= PublishAhead
    /\ CommitDelay <= WorkerTimeout /\ WorkerTimeout < PublishAhead
    /\ TokenLife + CommitDelay <= Overlap
CommandsAssumption ==
    /\ OnboardOp \in Ops
    /\ \A c \in Commands : c.cmd \in AllCommands /\ c.op \in Ops

VARIABLES
    rec,     \* the tenant's record
    kms,     \* the keys, by state and tag
    indexed, \* the keys the tag index returns
    work,    \* what each worker is doing
    now,
    signed,  \* when each key was last the active one (0: never, or revoked)
    since    \* since when each key is published (0: it is not)

vars == <<rec, kms, indexed, work, now, signed, since>>

Steps == {"get", "find", "create", "record", "lost", "reget", "orphans",
          "persist", "probe", "verify", "delete", "compensate", "sweep",
          "discover", "finish"}

NoRecord == [BeginOnboarding(NoOp) EXCEPT !.lifecycle = "none",
                                          !.op = NoOperation]
NoTag == [state |-> "absent", op |-> NoOp, gen |-> 0, alg |-> 1]
Stopped == [pc |-> "idle", op |-> NoOp, gen |-> 0, alg |-> 1,
            key |-> NoKey, todo |-> {}, fresh |-> FALSE, after |-> "idle",
            start |-> 0]

Init ==
    /\ rec = NoRecord
    /\ kms = [k \in Keys |-> NoTag]
    /\ indexed = {}
    /\ work = [w \in Workers |-> Stopped]
    /\ now = 1
    /\ signed = [k \in Keys |-> 0]
    /\ since = [k \in Keys |-> 0]

TypeOK ==
    /\ rec.lifecycle \in Lifecycles \cup {"none"}
    /\ rec.outcome \in Outcomes
    /\ rec.pending \subseteq Keys /\ rec.scheduled \subseteq Keys
    /\ Tracks(rec) \subseteq Keys
    /\ {rec.op.id, rec.failure.id, rec.completed, rec.revoked, rec.offboard}
           \subseteq Ops \cup {NoOp}
    /\ kms \in [Keys -> [state : {"absent", "enabled", "deleting"},
                         op : Ops \cup {NoOp}, gen : Nat, alg : Algs]]
    /\ indexed \subseteq {k \in Keys : kms[k].state # "absent"}
    /\ \A w \in Workers :
           /\ work[w].pc \in {"idle"} \cup AllCommands \cup Steps
           /\ work[w].todo \subseteq Keys
           /\ work[w].alg \in 1..(NumAlgs + 1)
    /\ now \in 1..MaxTime
    /\ signed \in [Keys -> 0..MaxTime] /\ since \in [Keys -> 0..MaxTime]

-----------------------------------------------------------------------------
At(w, pc) == work[w].pc = pc

\* The worker's local state becomes l; the record is not written.
Step(w, l) == work' = [work EXCEPT ![w] = l] /\ UNCHANGED rec
Stop(w) == Step(w, Stopped)
Goto(w, pc) == Step(w, [work[w] EXCEPT !.pc = pc])

\* A successful compare_and_swap: every other read is out of date.
Commit(w, r, l) ==
    /\ rec' = r
    /\ work' = [v \in Workers |->
                   IF v = w THEN l ELSE [work[v] EXCEPT !.fresh = FALSE]]

\* Continue with the deletion of keys, then at "after".
Deleting(w, keys, after) ==
    [work[w] EXCEPT !.pc = "delete", !.todo = keys, !.fresh = TRUE,
                    !.after = after]
Compensating(w, keys, after) ==
    [work[w] EXCEPT !.pc = "compensate", !.todo = keys, !.fresh = TRUE,
                    !.after = after]
Provisioning(w) ==
    [work[w] EXCEPT !.pc = "get", !.alg = 1, !.after = "idle", !.todo = {}]

\* cleanup_pending_deletions where there is something to delete.
CleanUp(w) ==
    IF rec.pending = {} THEN Stop(w)
                        ELSE Step(w, Deleting(w, rec.pending, "idle"))
CommitAndCleanUp(w, r) ==
    Commit(w, r, IF r.pending = {} THEN Stopped
                                   ELSE Deleting(w, r.pending, "idle"))

TaggedAnyAlgorithm(op, gen, a) ==
    {k \in indexed : kms[k].op = op /\ kms[k].gen = gen}
Tagged(op, gen, a) ==
    {k \in indexed : kms[k].op = op /\ kms[k].gen = gen /\ kms[k].alg = a}

Receive(w, cmd, op) ==
    /\ At(w, "idle")
    /\ Step(w, [Stopped EXCEPT !.pc = cmd, !.op = op, !.start = now])
    /\ UNCHANGED <<kms, indexed, now>>

\* A transient error, the invocation's time limit or a crash.
Abandon(w) ==
    /\ ~At(w, "idle")
    /\ Stop(w)
    /\ UNCHANGED <<kms, indexed, now>>

-----------------------------------------------------------------------------
(* The commands, up to the first call to KMS. *)

EnsureTenant(w) ==
    LET op == work[w].op IN
    /\ At(w, "ensure")
    /\ \/ /\ rec = NoRecord
          /\ Commit(w, BeginOnboarding(op), Provisioning(w))
       \/ /\ rec # NoRecord /\ rec.failure.pending
          /\ Step(w, Compensating(w, rec.failure.cleanup, "ensure"))
       \/ /\ rec.lifecycle = "failed" /\ ~rec.failure.pending
          /\ IF rec.failure.id # op /\ CanRetryOnboarding(rec)
             THEN Commit(w, RetryOnboarding(rec, op), Provisioning(w))
             ELSE Stop(w)
       \/ /\ rec # NoRecord /\ ~rec.failure.pending
          /\ rec.lifecycle # "failed"
          /\ IF /\ rec.lifecycle = "provisioning"
                /\ rec.op.kind = "onboard" /\ OpRuns(rec, op)
             THEN Step(w, Provisioning(w)) ELSE Stop(w)
    /\ UNCHANGED <<kms, indexed, now>>

RotateTenant(w) ==
    LET op == work[w].op IN
    /\ At(w, "rotate")
    /\ IF rec.lifecycle = "ready" /\ Idle(rec)
       THEN \/ /\ rec.pending # {}
               /\ Step(w, Deleting(w, rec.pending, "rotate"))
            \/ /\ rec.pending = {} /\ rec.failure.pending
               /\ Step(w, Compensating(w, rec.failure.cleanup, "rotate"))
            \/ /\ rec.pending = {} /\ ~rec.failure.pending
               /\ IF op \in {rec.failure.id, rec.completed}
                  THEN Stop(w)
                  ELSE Commit(w, BeginRotation(rec, op), Provisioning(w))
       ELSE IF /\ rec.lifecycle = "provisioning"
               /\ rec.op.kind = "rotate" /\ OpRuns(rec, op)
            THEN Step(w, Provisioning(w)) ELSE Stop(w)
    /\ UNCHANGED <<kms, indexed, now>>

ActivateTenant(w) ==
    LET l == work[w] IN
    /\ At(w, "activate")
    /\ IF /\ CanActivate(rec, l.op)
          /\ l.start >= rec.served.committed + PublishAhead
       THEN Commit(w, ActivateCandidate(rec, l.start, l.start + Overlap),
                   Stopped)
       ELSE Stop(w)
    /\ UNCHANGED <<kms, indexed, now>>

RolledBack(op) ==
    \/ rec.lifecycle = "rollback_overlap" /\ OpRuns(rec, op)
    \/ /\ rec.lifecycle = "ready" /\ rec.completed = op
       /\ rec.outcome \in {"rolled_back", "retired_rollback"}

RollbackTenant(w) ==
    LET l == work[w] IN
    /\ At(w, "rollback")
    /\ IF RolledBack(l.op) THEN CleanUp(w)
       ELSE IF CanRollback(rec, l.op)
            THEN CommitAndCleanUp(w, Rollback(rec, l.start,
                                              l.start + Overlap))
            ELSE Stop(w)
    /\ UNCHANGED <<kms, indexed, now>>

RetireTenant(w) ==
    LET l == work[w] IN
    /\ At(w, "retire")
    /\ IF rec.lifecycle = "ready" /\ rec.completed = l.op THEN CleanUp(w)
       ELSE IF CanRetire(rec, l.op, l.start)
            THEN CommitAndCleanUp(w, Retire(rec, l.start))
            ELSE Stop(w)
    /\ UNCHANGED <<kms, indexed, now>>

EmergencyRevokeTenant(w) ==
    LET l == work[w] IN
    /\ At(w, "emergency_revoke")
    /\ IF /\ rec.lifecycle = "ready"
          /\ rec.completed = l.op /\ rec.revoked = l.op
       THEN CleanUp(w)
       ELSE IF CanEmergencyRevoke(rec, l.op)
            THEN CommitAndCleanUp(w, EmergencyRevoke(rec, l.start))
            ELSE Stop(w)
    /\ UNCHANGED <<kms, indexed, now>>

\* The record, or the one begun for a tenant that has none, is closed before
\* any key is touched.
OffboardTenant(w) ==
    LET op == work[w].op
        r == IF rec = NoRecord THEN BeginOnboarding(op) ELSE rec
        closed == BeginOffboarding(r, op)
        discovering(pending) ==
            [work[w] EXCEPT !.pc = "discover", !.todo = pending,
                            !.fresh = TRUE]
    IN  /\ At(w, "offboard")
        /\ \/ /\ ~Closed(rec)
              /\ Commit(w, closed, discovering(closed.pending))
           \/ /\ rec.lifecycle = "offboarding" /\ rec.offboard = op
              /\ Step(w, discovering(rec.pending))
           \/ /\ Closed(rec)
              /\ rec.lifecycle = "offboarded" \/ rec.offboard # op
              /\ Stop(w)
        /\ UNCHANGED <<kms, indexed, now>>

Expired(w) == work[w].start >= rec.op.retireAfter

ReconcileTenant(w) ==
    LET l == work[w] IN
    /\ At(w, "reconcile")
    /\ IF rec = NoRecord THEN Step(w, [l EXCEPT !.pc = "ensure", !.op = OnboardOp])
       ELSE IF Closed(rec) THEN Stop(w)
       ELSE IF rec.pending # {} THEN CleanUp(w)
       ELSE IF rec.failure.pending
            THEN Step(w, Compensating(w, rec.failure.cleanup, "idle"))
       ELSE IF rec.lifecycle = "provisioning" THEN Step(w, Provisioning(w))
       ELSE IF /\ rec.lifecycle = "publishing"
               /\ l.start >= rec.served.committed + PublishingTimeout
            THEN CommitAndCleanUp(w, Rollback(rec, l.start, l.start + Overlap))
       ELSE IF rec.lifecycle \in {"active_overlap", "rollback_overlap"} /\ Expired(w)
            THEN CommitAndCleanUp(w, Retire(rec, l.start))
       ELSE Goto(w, "sweep")
    /\ UNCHANGED <<kms, indexed, now>>

-----------------------------------------------------------------------------
(* provision_current, one algorithm after the other. *)

\* The operation is that of the first read, the record that of the last.
ProvisionGet(w) ==
    LET l == work[w]
        got == IF l.alg = 1
               THEN [l EXCEPT !.op = rec.op.id, !.gen = rec.op.gen,
                              !.fresh = TRUE]
               ELSE [l EXCEPT !.fresh = TRUE]
    IN  /\ At(w, "get") /\ l.alg \in Algs
        /\ IF Idle(rec) THEN Stop(w)
           ELSE Step(w, [got EXCEPT !.pc = IF rec.op.cand[l.alg] = NoKey
                                           THEN "find" ELSE "reget"])
        /\ UNCHANGED <<kms, indexed, now>>

\* fail_operation_with_cleanup and its compensation, when the record has not
\* changed since it was read.
FailCurrent(w, duplicates) ==
    LET failed == FailOperation(rec, duplicates)
    IN  IF work[w].fresh /\ OpRuns(rec, work[w].op)
        THEN Commit(w, failed,
                    IF failed.failure.pending
                    THEN Compensating(w, failed.failure.cleanup, "idle")
                    ELSE Stopped)
        ELSE Stop(w)

FindKey(w) ==
    LET l == work[w]
        found == Tagged(l.op, l.gen, l.alg)
    IN  /\ At(w, "find")
        /\ \/ found = {} /\ Goto(w, "create")
           \/ /\ Cardinality(found) = 1
              /\ \E k \in found : Step(w, [l EXCEPT !.pc = "record",
                                                    !.key = k])
           \/ Cardinality(found) > 1 /\ FailCurrent(w, found)
        /\ UNCHANGED <<kms, indexed, now>>

Unused == {k \in Keys : kms[k].state = "absent"}

\* Keys is also the account's quota of keys: beyond it KMS refuses, which
\* is a transient error.
CreateKey(w) ==
    LET l == work[w]
        fresh == CHOOSE k \in Unused : TRUE
    IN  /\ At(w, "create")
        /\ \/ /\ Unused # {}
              /\ kms' = [kms EXCEPT ![fresh] =
                     [state |-> "enabled", op |-> l.op, gen |-> l.gen,
                      alg |-> l.alg]]
              /\ Step(w, [l EXCEPT !.pc = "record", !.key = fresh])
           \/ Unused = {} /\ Stop(w) /\ UNCHANGED kms
        /\ UNCHANGED <<indexed, now>>

RecordKey(w) ==
    LET l == work[w] IN
    /\ At(w, "record")
    /\ IF ~CanRecordCreatedKey(rec, l.op, l.alg) /\ l.fresh THEN Stop(w)
       ELSE IF l.fresh
            THEN Commit(w, RecordCreatedKey(rec, l.alg, l.key),
                        [l EXCEPT !.pc = "reget", !.fresh = FALSE])
            ELSE Goto(w, "lost")
    /\ UNCHANGED <<kms, indexed, now>>

HandleCasLosingKey(w) ==
    LET l == work[w]
        tracked == TrackPendingDeletion(rec, {l.key})
    IN  /\ At(w, "lost")
        /\ IF l.key \in References(rec) \cup rec.scheduled THEN Stop(w)
           ELSE IF l.key \in rec.pending THEN CleanUp(w)
           ELSE CommitAndCleanUp(w, tracked)
        /\ UNCHANGED <<kms, indexed, now>>

\* The key may be that of a later operation; "after" is where the worker goes
\* once orphans are dealt with: a verified key is not probed again.
ProvisionReget(w) ==
    LET l == work[w]
        key == rec.op.cand[l.alg]
    IN  /\ At(w, "reget")
        /\ IF key = NoKey THEN Stop(w)
           ELSE Step(w, [l EXCEPT !.pc = "orphans", !.key = key,
                             !.fresh = TRUE,
                             !.after = IF l.alg \in rec.op.verified
                                       THEN "get" ELSE "probe"])
        /\ UNCHANGED <<kms, indexed, now>>

ResumedTwice(l) ==
    [l EXCEPT !.pc = l.after, !.todo = {}, !.key = NoKey,
              !.alg = IF l.after = "get" THEN l.alg + 2 ELSE l.alg]
\* Going on to the next algorithm, or to the publication.
Resumed(l) ==
    [l EXCEPT !.pc = l.after, !.todo = {}, !.key = NoKey,
              !.alg = IF l.after = "get" THEN l.alg + 1 ELSE l.alg]

FindOrphans(w) ==
    LET l == work[w] IN
    /\ At(w, "orphans")
    /\ Step(w, [l EXCEPT !.pc = "persist",
                         !.todo = Tagged(l.op, l.gen, l.alg) \ {l.key}])
    /\ UNCHANGED <<kms, indexed, now>>

Sweep(w) ==
    /\ At(w, "sweep")
    /\ Step(w, [work[w] EXCEPT !.pc = "persist", !.todo = indexed,
                               !.after = "idle"])
    /\ UNCHANGED <<kms, indexed, now>>

\* persist_discovered_orphans: the sweep leaves a provisioning record alone.
PersistOrphans(w) ==
    LET l == work[w]
        sweeping == l.after = "idle"
        unknown == l.todo \ Tracks(rec)
        tracked == TrackPendingDeletion(rec, unknown)
    IN  /\ At(w, "persist")
        /\ IF unknown = {} \/ (sweeping /\ rec.lifecycle = "provisioning")
           THEN IF sweeping THEN Stop(w)
                ELSE IF l.after = "probe"
                     THEN Step(w, [l EXCEPT !.pc = "probe", !.todo = {}])
                     ELSE Step(w, Resumed(l))
           ELSE Commit(w, tracked, Deleting(w, tracked.pending, l.after))
        /\ UNCHANGED <<kms, indexed, now>>

ProbeSucceeds(w) ==
    /\ At(w, "probe") /\ kms[work[w].key].state = "enabled"
    /\ Goto(w, "verify")
    /\ UNCHANGED <<kms, indexed, now>>

\* A permanent error, or a readiness window that has run out.
ProbeFails(w) ==
    /\ At(w, "probe")
    /\ FailCurrent(w, {})
    /\ UNCHANGED <<kms, indexed, now>>

\* The replica is not ready for the first time: its window starts.
ProbeReplicaPending(w) ==
    LET l == work[w] IN
    /\ At(w, "probe")
    /\ l.fresh /\ CanRecordReadiness(rec, l.op, l.alg)
    /\ Commit(w, RecordReadiness(rec, l.alg), Stopped)
    /\ UNCHANGED <<kms, indexed, now>>

RecordVerifiedKey(w) ==
    LET l == work[w] IN
    /\ At(w, "verify")
    /\ IF l.fresh /\ CanRecordVerified(rec, l.op, l.alg)
       THEN Commit(w, RecordVerified(rec, l.alg),
                   Resumed([l EXCEPT !.after = "get"]))
       ELSE Stop(w)
    /\ UNCHANGED <<kms, indexed, now>>

PublishGeneration(w) ==
    LET l == work[w] IN
    /\ At(w, "get") /\ l.alg = NumAlgs + 1
    /\ IF CanPublish(rec, l.op)
       THEN Commit(w, PublishCandidate(rec, now), Stopped)
       ELSE Stop(w)
    /\ UNCHANGED <<kms, indexed, now>>

-----------------------------------------------------------------------------
(* Deletion of keys, then the write that says it is done. *)

ScheduleDeletion(w, k) ==
    /\ work[w].pc \in {"delete", "compensate"} /\ k \in work[w].todo
    /\ kms' = [kms EXCEPT ![k].state = "deleting"]
    /\ Step(w, [work[w] EXCEPT !.todo = @ \ {k}])
    /\ UNCHANGED <<indexed, now>>

\* Going on after the deletion; what the worker read before is out of date.
Cleaned(w) ==
    LET l == work[w] IN
    CASE l.after = "idle" -> Stopped
      [] l.after = "probe" -> [l EXCEPT !.pc = "probe", !.fresh = FALSE]
      [] l.after = "finish" -> [l EXCEPT !.pc = "finish", !.fresh = TRUE]
      [] OTHER -> [Resumed(l) EXCEPT !.fresh = FALSE]

DeletionsDone(w) ==
    /\ At(w, "delete") /\ work[w].todo = {}
    /\ IF work[w].fresh
       THEN Commit(w, PendingDeletionsComplete(rec), Cleaned(w))
       ELSE Stop(w)
    /\ UNCHANGED <<kms, indexed, now>>

CompensationDone(w) ==
    /\ At(w, "compensate") /\ work[w].todo = {}
    /\ IF work[w].fresh THEN Commit(w, CleanupComplete(rec), Cleaned(w))
                        ELSE Stop(w)
    /\ UNCHANGED <<kms, indexed, now>>

OffboardDiscover(w) ==
    LET l == work[w]
        unknown == indexed \ (Tracks(rec) \cup l.todo)
        tracked == TrackPendingDeletion(rec, unknown)
        deleting == [l EXCEPT !.pc = "delete", !.todo = @ \cup unknown,
                              !.after = "finish"]
        next == IF deleting.todo = {} THEN [l EXCEPT !.pc = "finish"]
                                      ELSE deleting
    IN  /\ At(w, "discover")
        /\ \/ unknown = {} /\ Step(w, next)
           \/ unknown # {} /\ l.fresh /\ Commit(w, tracked, next)
           \/ unknown # {} /\ ~l.fresh /\ Stop(w)
        /\ UNCHANGED <<kms, indexed, now>>

OffboardFinish(w) ==
    /\ At(w, "finish")
    /\ IF work[w].fresh /\ CanFinishOffboarding(rec, work[w].op)
       THEN Commit(w, FinishOffboarding(rec), Stopped) ELSE Stop(w)
    /\ UNCHANGED <<kms, indexed, now>>

-----------------------------------------------------------------------------
\* The tag index learns of a key.
Index(k) ==
    /\ kms[k].state # "absent" /\ k \notin indexed
    /\ indexed' = indexed \cup {k}
    /\ UNCHANGED <<rec, kms, work, now>>

Limit(w) ==
    work[w].start + (IF work[w].pc \in AllCommands THEN CommitDelay
                                                  ELSE WorkerTimeout)

Tick ==
    /\ now < MaxTime
    /\ \A w \in Workers : At(w, "idle") \/ now < Limit(w)
    /\ now' = now + 1
    /\ UNCHANGED <<rec, kms, indexed, work>>

\* What the signers and the published key set show of the record.  Emergency
\* revocation and offboarding end the signatures made so far on purpose.
Observe ==
    LET published == rec.served.published
        cut == \/ rec'.revoked \notin {NoOp, rec.revoked}
               \/ Closed(rec')
    IN  /\ signed' = [k \in Keys |->
                IF cut /\ k \notin rec'.served.published THEN 0
                ELSE IF k \in ActiveKeys(rec) THEN now ELSE signed[k]]
        /\ since' = [k \in Keys |->
                IF k \notin rec'.served.published THEN 0
                ELSE IF k \in published THEN since[k] ELSE now]

Command(w) ==
    \/ EnsureTenant(w) \/ RotateTenant(w) \/ ActivateTenant(w)
    \/ RollbackTenant(w) \/ RetireTenant(w) \/ EmergencyRevokeTenant(w)
    \/ OffboardTenant(w) \/ ReconcileTenant(w)
Provision(w) ==
    \/ ProvisionGet(w) \/ FindKey(w) \/ CreateKey(w) \/ RecordKey(w)
    \/ HandleCasLosingKey(w) \/ ProvisionReget(w) \/ FindOrphans(w)
    \/ ProbeSucceeds(w) \/ ProbeFails(w) \/ ProbeReplicaPending(w)
    \/ RecordVerifiedKey(w) \/ PublishGeneration(w)
Delete(w) ==
    \/ Sweep(w) \/ PersistOrphans(w)
    \/ \E k \in Keys : ScheduleDeletion(w, k)
    \/ DeletionsDone(w) \/ CompensationDone(w)
    \/ OffboardDiscover(w) \/ OffboardFinish(w)
Work(w) == Command(w) \/ Provision(w) \/ Delete(w)

Next ==
    /\ \/ \E w \in Workers :
             \/ \E c \in Commands : Receive(w, c.cmd, c.op)
             \/ Work(w)
             \/ Abandon(w)
       \/ \E k \in Keys : Index(k)
       \/ Tick
    /\ Observe

\* A tenant that was onboarded at time 1 and that no worker is working on.
Onboarded ==
    LET op == [Operation(OnboardOp, "onboard", 1, NoSnapshot) EXCEPT
                   !.cand = [a \in Algs |-> a], !.verified = Algs]
    IN  PublishCandidate([NoRecord EXCEPT !.op = op], 1)
ReadyInit ==
    /\ rec = Onboarded
    /\ kms = [k \in Keys |-> IF k \in Algs
                             THEN [state |-> "enabled", op |-> OnboardOp, gen |-> 1, alg |-> k]
                             ELSE NoTag]
    /\ indexed = Algs
    /\ work = [w \in Workers |-> Stopped]
    /\ now = 1
    /\ signed = [k \in Keys |-> 0]
    /\ since = [k \in Keys |-> IF k \in Algs THEN 1 ELSE 0]

Spec == Init /\ [][Next]_vars

-----------------------------------------------------------------------------
(* Properties *)

\* No key a signer or a verifier is given is being deleted: keys leave the
\* served snapshot before KMS is asked to delete them
\* (cleanup_pending_deletions, compensate_failure).
ServedKeysAlive == \A k \in rec.served.published : kms[k].state = "enabled"

\* A signature made by an active key can be verified with the published keys
\* for as long as it lives, across activation, rollback and retirement
\* (TOKEN_OVERLAP_SECS), unless it was ended by emergency revocation or
\* offboarding.
SignaturesVerify ==
    \A k \in Keys :
        signed[k] # 0 /\ now < signed[k] + TokenLife
            => k \in rec.served.published

\* A key starts to sign only when verifiers that cache the published keys
\* have it (PUBLISH_AHEAD_SECS), the tenant's first generation and emergency
\* revocation excepted.
KnownBeforeSigning ==
    \A k \in ActiveKeys(rec') \ ActiveKeys(rec) :
           Served(rec) /\ rec'.revoked \in {NoOp, rec.revoked}
               => since[k] # 0 /\ now >= since[k] + JwksMaxAge

\* The two algorithms of a snapshot always sign with the same generation, the
\* one the snapshot names, and the key each signs with was made for it.
WholeGenerationActive ==
    Served(rec) =>
        \A a \in Algs :
            LET k == rec.served.active[a]
            IN  k \in Keys /\ kms[k].gen = rec.served.gen /\ kms[k].alg = a
=============================================================================
