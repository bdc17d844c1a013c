-------------------------- MODULE TenantKeyRecord --------------------------
(***************************************************************************)
(* The durable record of a tenant's signing keys and its transitions       *)
(* (infra-core/src/tenant_keys.rs): a pure state machine whose caller      *)
(* commits each new value with a compare-and-swap on the revision.  A      *)
(* transition X of the code is a guard CanX, its early returns, and a      *)
(* value X, the record it writes.  The revision, the clock of the last     *)
(* write and the public key material are left out: a swap that succeeds is *)
(* a write to the record that was read.                                    *)
(*                                                                         *)
(* Algs are the algorithms a generation has a key for, in the order they   *)
(* are provisioned (the code's two are ES256, then RS256).                 *)
(***************************************************************************)
EXTENDS Naturals, FiniteSets

CONSTANTS NumAlgs, Keys, NoKey, Ops, NoOp

AlgsAssumption == NumAlgs \in Nat \ {0}
NamesAssumption == NoKey \notin Keys /\ NoOp \notin Ops

Algs == 1..NumAlgs

Lifecycles == {"provisioning", "publishing", "active_overlap",
               "rollback_overlap", "ready", "failed", "offboarding",
               "offboarded"}
Outcomes == {"none", "onboarded", "rolled_back", "retired_forward",
             "retired_rollback"}

NoSnapshot == [gen |-> 0, active |-> [a \in Algs |-> NoKey],
               published |-> {}, committed |-> 0]
NoOperation == [id |-> NoOp, kind |-> "none", gen |-> 0,
                cand |-> [a \in Algs |-> NoKey], verified |-> {},
                readiness |-> {}, previous |-> NoSnapshot, retireAfter |-> 0]
NoFailure == [id |-> NoOp, cand |-> {}, cleanup |-> {}, pending |-> FALSE]

KeysOf(fun) == {fun[a] : a \in Algs} \ {NoKey}
Served(r) == r.served # NoSnapshot
ActiveKeys(r) == KeysOf(r.served.active)
OpRuns(r, id) == id # NoOp /\ r.op.id = id
Idle(r) == r.op = NoOperation
Closed(r) == r.lifecycle \in {"offboarding", "offboarded"}

Operation(id, kind, gen, previous) ==
    [NoOperation EXCEPT !.id = id, !.kind = kind, !.gen = gen,
                        !.previous = previous]

BeginOnboarding(id) ==
    [lifecycle |-> "provisioning", served |-> NoSnapshot,
     op |-> Operation(id, "onboard", 1, NoSnapshot), failure |-> NoFailure,
     completed |-> NoOp, outcome |-> "none", revoked |-> NoOp,
     pending |-> {}, scheduled |-> {}, offboard |-> NoOp]

\* Every key the record knows of, except what it has finished deleting.
KnownKeys(r) ==
    r.served.published \cup KeysOf(r.op.cand) \cup r.op.previous.published
        \cup r.failure.cand \cup r.failure.cleanup \cup r.pending

CanBeginOffboarding(r, id) == ~Closed(r)
BeginOffboarding(r, id) ==
    [r EXCEPT !.lifecycle = "offboarding", !.served = NoSnapshot,
              !.op = NoOperation, !.failure = NoFailure, !.offboard = id,
              !.pending = r.pending \cup (KnownKeys(r) \ r.scheduled)]

CanFinishOffboarding(r, id) ==
    r.lifecycle = "offboarding" /\ r.offboard = id /\ r.pending = {}
FinishOffboarding(r) == [r EXCEPT !.lifecycle = "offboarded"]

CanBeginRotation(r) ==
    /\ r.lifecycle = "ready" /\ Idle(r) /\ Served(r)
    /\ r.pending = {} /\ ~r.failure.pending
BeginRotation(r, id) ==
    [r EXCEPT !.lifecycle = "provisioning", !.revoked = NoOp,
              !.op = Operation(id, "rotate", r.served.gen + 1, r.served)]

CanRetryOnboarding(r) ==
    r.lifecycle = "failed" /\ ~Served(r) /\ Idle(r) /\ ~r.failure.pending
RetryOnboarding(r, id) ==
    [r EXCEPT !.lifecycle = "provisioning",
              !.op = Operation(id, "onboard", 1, NoSnapshot)]

CanRecordCreatedKey(r, id, a) == OpRuns(r, id) /\ r.op.cand[a] = NoKey
RecordCreatedKey(r, a, k) == [r EXCEPT !.op.cand[a] = k]

CanRecordReadiness(r, id, a) ==
    OpRuns(r, id) /\ r.op.cand[a] # NoKey /\ a \notin r.op.readiness
RecordReadiness(r, a) == [r EXCEPT !.op.readiness = @ \cup {a}]

CanRecordVerified(r, id, a) ==
    OpRuns(r, id) /\ r.op.cand[a] # NoKey /\ a \notin r.op.verified
RecordVerified(r, a) == [r EXCEPT !.op.verified = @ \cup {a}]

\* complete_generation: the whole generation, and nothing else, published.
Complete(op) == op.verified = Algs
Generation(op, now) ==
    [gen |-> op.gen, active |-> op.cand, published |-> KeysOf(op.cand),
     committed |-> now]
\* overlap_snapshot: both generations published, one of them active.
Overlapping(op, candidateActive, now) ==
    [gen |-> IF candidateActive THEN op.gen ELSE op.previous.gen,
     active |-> IF candidateActive THEN op.cand ELSE op.previous.active,
     published |-> op.previous.published \cup KeysOf(op.cand),
     committed |-> now]

Finished(r, outcome) ==
    [r EXCEPT !.lifecycle = "ready", !.op = NoOperation,
              !.completed = r.op.id, !.outcome = outcome]

CanPublish(r, id) == OpRuns(r, id) /\ Complete(r.op)
PublishWithOldClock(r, now) ==
    IF r.op.kind = "onboard"
    THEN [Finished(r, "onboarded") EXCEPT !.served = Generation(r.op, now),
                                          !.failure = NoFailure]
    ELSE [r EXCEPT !.lifecycle = "publishing", !.failure = NoFailure,
                   !.served = Overlapping(r.op, FALSE,
                                          r.op.previous.committed)]
PublishCandidate(r, now) ==
    IF r.op.kind = "onboard"
    THEN [Finished(r, "onboarded") EXCEPT !.served = Generation(r.op, now),
                                          !.failure = NoFailure]
    ELSE [r EXCEPT !.lifecycle = "publishing", !.failure = NoFailure,
                   !.served = Overlapping(r.op, FALSE, now)]

CanActivate(r, id) ==
    r.lifecycle = "publishing" /\ OpRuns(r, id) /\ r.op.kind = "rotate"
ActivateCandidate(r, now, retireAfter) ==
    [r EXCEPT !.lifecycle = "active_overlap", !.op.retireAfter = retireAfter,
              !.served = Overlapping(r.op, TRUE, now)]

CanRollback(r, id) ==
    /\ OpRuns(r, id) /\ r.op.kind = "rotate"
    /\ r.lifecycle \in {"publishing", "active_overlap"}
Rollback(r, now, retireAfter) ==
    IF r.lifecycle = "publishing"
    THEN [Finished(r, "rolled_back") EXCEPT !.served = r.op.previous,
                                            !.pending = KeysOf(r.op.cand)]
    ELSE [r EXCEPT !.lifecycle = "rollback_overlap",
                   !.op.retireAfter = retireAfter,
                   !.served = Overlapping(r.op, FALSE, now)]

CanRetireAnyTime(r, id, now) ==
    OpRuns(r, id) /\ r.lifecycle \in {"active_overlap", "rollback_overlap"}
CanRetire(r, id, now) ==
    /\ OpRuns(r, id) /\ now >= r.op.retireAfter
    /\ r.lifecycle \in {"active_overlap", "rollback_overlap"}
RetireCandidate(r, now) ==
    [Finished(r, "retired_forward") EXCEPT
         !.served = IF r.lifecycle = "active_overlap"
                    THEN Generation(r.op, now) ELSE r.op.previous,
         !.pending = KeysOf(r.op.cand)]
Retire(r, now) ==
    IF r.lifecycle = "active_overlap"
    THEN [Finished(r, "retired_forward") EXCEPT
              !.served = Generation(r.op, now),
              !.pending = KeysOf(r.op.previous.active)]
    ELSE [Finished(r, "retired_rollback") EXCEPT
              !.served = r.op.previous, !.pending = KeysOf(r.op.cand)]

CanEmergencyRevoke(r, id) ==
    /\ r.lifecycle \in {"publishing", "active_overlap"}
    /\ OpRuns(r, id) /\ r.op.kind = "rotate"
EmergencyRevoke(r, now) ==
    [Finished(r, "none") EXCEPT !.served = Generation(r.op, now),
                                !.pending = r.op.previous.published,
                                !.revoked = r.op.id]

\* A failed rotation restores the previous snapshot, a failed onboarding
\* leaves the tenant without one (fail_operation_with_cleanup).
FailOperation(r, duplicates) ==
    LET cleanup == duplicates \cup KeysOf(r.op.cand)
    IN  [r EXCEPT !.failure = [id |-> r.op.id, cand |-> KeysOf(r.op.cand),
                               cleanup |-> cleanup,
                               pending |-> cleanup # {}],
                  !.served = r.op.previous,
                  !.lifecycle = IF r.op.previous = NoSnapshot THEN "failed"
                                                             ELSE "ready",
                  !.op = NoOperation]

ReferencesWithoutServed(r) ==
    KeysOf(r.op.cand) \cup r.failure.cand \cup r.failure.cleanup
References(r) ==
    r.served.published \cup KeysOf(r.op.cand) \cup r.failure.cand
        \cup r.failure.cleanup
Tracks(r) == References(r) \cup r.pending \cup r.scheduled

TrackAsScheduled(r, ks) == [r EXCEPT !.scheduled = @ \cup ks]
TrackPendingDeletion(r, ks) == [r EXCEPT !.pending = @ \cup ks]
CleanupComplete(r) == [r EXCEPT !.failure.pending = FALSE]
PendingDeletionsComplete(r) ==
    [r EXCEPT !.pending = {}, !.scheduled = @ \cup r.pending]
=============================================================================
