----------------------------- MODULE Governance -----------------------------
(***************************************************************************)
(* Durable erasure and offboarding jobs of one tenant under legal hold:     *)
(* the policy record, the two kinds of job with their leases, the data they *)
(* delete, the external deletion of one tenant secret, and the workers that *)
(* advance the jobs one phase per queue command.                            *)
(*                                                                         *)
(* Revisions are only ever compared for equality, so they are kept as       *)
(* flags: a worker's copy of the job (fresh), of the policy (pcur) and of   *)
(* the external action (afresh) is current or it is not, and a job records  *)
(* whether its policy_revision is the policy's (cur).  A worker's "now" is  *)
(* read once, when its command starts; age is the time that has passed      *)
(* since.  Deadlines are kept as the time left, so that                     *)
(* "deadline > now" reads  left + age > 0.                                  *)
(***************************************************************************)
EXTENDS Integers, FiniteSets

CONSTANTS
    Workers,      \* worker invocations
    Faulty,       \* the ones that may fail or be killed half way
    Jobs,         \* a subset of {"erasure", "offboarding"}
    Rows,         \* rows of authority a job has to delete
    Aliases,      \* aliases that need a suppression digest
    Secret,       \* state of the tenant's secret at the start
    Fifo,         \* TRUE: the queue runs one command of a job at a time
    Holds,        \* TRUE: the legal hold may be switched
    WorkerLimit,  \* longest life of an invocation
    LeaseSecs,    \* DESTRUCTIVE_JOB_LEASE_SECS
    ClaimSecs,    \* EXTERNAL_ACTION_CLAIM_SECS
    Bound,        \* SECRET_DELETION_OPERATION_BOUND_SECS
    None

\* The lease outlives the invocation that took it, and a claim leaves room
\* for one bounded operation.
TimesAssumption ==
    /\ {WorkerLimit, LeaseSecs, ClaimSecs, Bound} \subseteq Nat
    /\ WorkerLimit < LeaseSecs
    /\ Bound < ClaimSecs
JobsAssumption == Jobs \subseteq {"erasure", "offboarding"}
SecretAssumption == Secret \in {"replicated", "present", "absent"}

VARIABLES
    hold,     \* legal_hold of the policy record
    job,      \* the job records
    lease,    \* the job leases
    frozen,   \* the tenant lifecycle is offboarding and its gate frozen
    data,     \* per job: rows left, identity row, suppressed aliases
    act,      \* the external action record of the secret
    secret,   \* the secret itself, at the provider
    queue,    \* jobs with a command in the queue
    wk        \* the workers

vars == <<hold, job, lease, frozen, data, act, secret, queue, wk>>

JobStates == {"none", "queued", "running", "retryable", "blocked", "retention", "completed"}
Claimable == {"queued", "running", "retryable"}
Terminal == {"retention", "completed"}
Phases == {"intent", "fenced", "cleanup", "suppressed", "replica", "retention"}
ActStates == {"none", "prepared", "claimed", "dispatched", "committed", "verified", "tombstoned"}
requires_hold_drain == {"claimed", "dispatched", "committed"}
Idle == [pc |-> "idle", job |-> None, age |-> 0, fresh |-> FALSE, pcur |-> FALSE,
         afresh |-> FALSE, drain |-> FALSE, out |-> "same"]

held == hold # "disabled"
Live(j) == job[j].st \in Claimable
UserLives == "erasure" \in Jobs /\ data["erasure"].ident # "gone"

\* A job's tenant revision and the tenant lifecycle agree: a job of an active
\* tenant has none, a job of an offboarding tenant the lifecycle's.
LifecycleMatches(j) == job[j].ten = frozen

\* Time left on a deadline, seen with the now of worker w.
Seen(left, w) == left + wk[w].age
Elapse(left) == IF left > -WorkerLimit THEN left - 1 ELSE left

ActiveLeaseFor(w) == \E j \in Jobs : lease[j] # None /\ Seen(lease[j].left, w) > 0

\* Write of job j: every other worker's copy of it is out of date.
Stale(f, j) == [v \in Workers |-> IF f[v].job = j THEN [f[v] EXCEPT !.fresh = FALSE] ELSE f[v]]
StaleAct(f) == [v \in Workers |-> [f[v] EXCEPT !.afresh = FALSE]]

-----------------------------------------------------------------------------
(* The policy *)

PutPolicy(h) ==
    /\ hold' = h
    /\ job' = [j \in Jobs |-> [job[j] EXCEPT !.cur = FALSE]]
    /\ wk' = [v \in Workers |-> [wk[v] EXCEPT !.pcur = FALSE]]

EnableHold ==
    /\ Holds
    /\ hold = "disabled"
    /\ PutPolicy("enabling")
    /\ UNCHANGED <<lease, frozen, data, act, secret, queue>>

DisableHold ==
    /\ held
    /\ PutPolicy("disabled")
    /\ UNCHANGED <<lease, frozen, data, act, secret, queue>>

\* A settlement that looks at the leases only, not at the external actions.
SettleWithoutActions ==
    /\ hold = "enabling"
    /\ \A j \in Jobs : lease[j] # None => lease[j].left <= 0
    /\ PutPolicy("enabled")
    /\ UNCHANGED <<lease, frozen, data, act, secret, queue>>

\* The tail of the policy request, and of its retries: with no lease left it
\* wakes the job of an action still to drain, or else enables the hold.
settle_enabling_policy ==
    /\ hold = "enabling"
    /\ \A j \in Jobs : lease[j] # None => lease[j].left <= 0
    /\ IF act.st \in requires_hold_drain
         THEN /\ queue' = queue \union {"offboarding"}
              /\ UNCHANGED <<hold, job, wk>>
         ELSE /\ PutPolicy("enabled")
              /\ UNCHANGED queue
    /\ UNCHANGED <<lease, frozen, data, act, secret>>

\* A policy request is audited against every job past its primary erasure;
\* the longer retention is saved at the policy's revision.  A second request
\* of the same second finds the anchor in place.
extend_retention_for_audit(j) ==
    /\ ~job[j].cur
    /\ job[j].phase \in {"replica", "retention"}
    /\ job[j].st \notin {"none", "completed"}
    /\ job' = [job EXCEPT ![j].cur = TRUE]
    /\ wk' = Stale(wk, j)
    /\ UNCHANGED <<hold, lease, frozen, data, act, secret, queue>>

-----------------------------------------------------------------------------
(* Starting and resuming a job *)

NewJob(ten) == [st |-> IF held THEN "blocked" ELSE "queued", phase |-> "intent",
                cur |-> TRUE, ten |-> ten, child |-> FALSE]
Resumed(j, ten) == [job[j] EXCEPT !.st = "queued", !.cur = TRUE, !.ten = ten]
Wake(j) == queue' = IF job'[j].st \in Claimable THEN queue \union {j} ELSE queue

start_user_erasure ==
    /\ "erasure" \in Jobs
    /\ ~frozen
    /\ \/ /\ job["erasure"].st = "none"
          /\ job' = [job EXCEPT !["erasure"] = NewJob(FALSE)]
          /\ UNCHANGED wk
       \/ /\ job["erasure"].st = "blocked" /\ ~held
          /\ job' = [job EXCEPT !["erasure"] = Resumed("erasure", FALSE)]
          /\ wk' = Stale(wk, "erasure")
       \/ /\ Live("erasure")
          /\ UNCHANGED <<job, wk>>
    /\ Wake("erasure")
    /\ UNCHANGED <<hold, lease, frozen, data, act, secret>>

\* Offboarding freezes the tenant in the transaction that queues its job.  A
\* request for a tenant that is frozen already answers TenantFrozen.
start_tenant_offboarding ==
    /\ "offboarding" \in Jobs
    /\ ~frozen
    /\ \/ /\ job["offboarding"].st = "none"
          /\ job' = [job EXCEPT !["offboarding"] = NewJob(~held)]
       \/ /\ job["offboarding"].st = "blocked" /\ ~held
          /\ job' = [job EXCEPT !["offboarding"] = Resumed("offboarding", TRUE)]
    /\ frozen' = ~held
    /\ wk' = Stale(wk, "offboarding")
    /\ Wake("offboarding")
    /\ UNCHANGED <<hold, lease, data, act, secret>>

\* The platform operator's resume of an offboarding job.
control_resume_job ==
    /\ "offboarding" \in Jobs
    /\ frozen
    /\ Live("offboarding")
    /\ queue' = queue \union {"offboarding"}
    /\ UNCHANGED <<hold, job, lease, frozen, data, act, secret, wk>>

\* A write that only asks whether the user's row is still there.
WriteUserRowUntilGone(r) ==
    /\ "erasure" \in Jobs
    /\ UserLives
    /\ ~frozen
    /\ data' = [data EXCEPT !["erasure"].rows = @ \union {r}]
    /\ UNCHANGED <<hold, job, lease, frozen, act, secret, queue, wk>>

\* A session, grant or credential of a user who is not tombstoned.
WriteUserRow(r) ==
    /\ "erasure" \in Jobs
    /\ data["erasure"].ident = "active"
    /\ ~frozen
    /\ data' = [data EXCEPT !["erasure"].rows = @ \union {r}]
    /\ UNCHANGED <<hold, job, lease, frozen, act, secret, queue, wk>>

-----------------------------------------------------------------------------
(* One command: read the job and the policy, then drain, block or work *)

At(w, pc) == wk[w].pc = pc
Goto(w, pc) == wk' = [wk EXCEPT ![w].pc = pc]
Finish(w, out) == wk' = [wk EXCEPT ![w].pc = "release", ![w].out = out]

\* A command that fails is delivered again, or goes to the dead letters.
Redeliver(j) == queue' \in {queue, queue \ {j}}

Pass(j, pc) == [Idle EXCEPT !.pc = pc, !.job = j, !.fresh = TRUE, !.pcur = TRUE]

MayStart(w, j) ==
    /\ At(w, "idle")
    /\ j \in queue
    /\ Fifo => \A v \in Workers : wk[v].job # j

\* The job is finished, or blocked with no hold to drain: not queued again.
SkipCommand(w, j) ==
    /\ MayStart(w, j)
    /\ \/ job[j].st \in Terminal
       \/ job[j].st = "blocked" /\ ~held /\ job[j].cur
    /\ queue' = queue \ {j}
    /\ UNCHANGED <<hold, job, lease, frozen, data, act, secret, wk>>

BeginHeld(w, j) ==
    /\ MayStart(w, j)
    /\ job[j].st \notin Terminal
    /\ held
    /\ wk' = [wk EXCEPT ![w] = Pass(j, IF hold = "enabling" THEN "drain" ELSE "block")]
    /\ UNCHANGED <<hold, job, lease, frozen, data, act, secret, queue>>

\* The policy is not the one the job was queued under: PolicyChanged.
PolicyChanged(w, j) ==
    /\ MayStart(w, j)
    /\ job[j].st \notin Terminal
    /\ ~held /\ ~job[j].cur
    /\ Redeliver(j)
    /\ UNCHANGED <<hold, job, lease, frozen, data, act, secret, wk>>

\* A lease with a margin of one on top of DESTRUCTIVE_JOB_LEASE_SECS.
BeginWithMargin(w, j) ==
    /\ MayStart(w, j)
    /\ ~held /\ job[j].cur /\ Live(j)
    /\ LifecycleMatches(j)
    /\ lease[j] # None => lease[j].left <= 0
    /\ lease' = [lease EXCEPT ![j] = [by |-> w, left |-> LeaseSecs + 1]]
    /\ wk' = [wk EXCEPT ![w] = Pass(j, "work")]
    /\ UNCHANGED <<hold, job, frozen, data, act, secret, queue>>

\* A claim that waits for the lease to be released and never takes over one
\* that has run out.
BeginUnleased(w, j) ==
    /\ MayStart(w, j)
    /\ ~held /\ job[j].cur /\ Live(j)
    /\ LifecycleMatches(j)
    /\ lease[j] = None
    /\ lease' = [lease EXCEPT ![j] = [by |-> w, left |-> LeaseSecs]]
    /\ wk' = [wk EXCEPT ![w] = Pass(j, "work")]
    /\ UNCHANGED <<hold, job, frozen, data, act, secret, queue>>

\* claim_phase_lease: the transaction checks the policy, the job's revision
\* and state, the tenant lifecycle, and that no lease is left.
BeginWork(w, j) ==
    /\ MayStart(w, j)
    /\ ~held /\ job[j].cur /\ Live(j)
    /\ LifecycleMatches(j)
    /\ lease[j] # None => lease[j].left <= 0
    /\ lease' = [lease EXCEPT ![j] = [by |-> w, left |-> LeaseSecs]]
    /\ wk' = [wk EXCEPT ![w] = Pass(j, "work")]
    /\ UNCHANGED <<hold, job, frozen, data, act, secret, queue>>

\* No lease: the same command is queued again, and may be dropped as a
\* duplicate of itself.
LeaseRefused(w, j) ==
    /\ MayStart(w, j)
    /\ ~held /\ job[j].cur /\ Live(j)
    /\ \/ ~LifecycleMatches(j)
       \/ lease[j] # None /\ lease[j].left > 0
    /\ Redeliver(j)
    /\ UNCHANGED <<hold, job, lease, frozen, data, act, secret, wk>>

\* The command is over; it is queued again while there is more to do, unless
\* the job has failed MAX_FAILURE_ATTEMPTS times in a row.
EndCommand(w) ==
    /\ At(w, "done")
    /\ LET j == wk[w].job IN
       IF job[j].st = "retryable" THEN Redeliver(j)
       ELSE queue' = IF Live(j) \/ (job[j].st = "blocked" /\ hold = "enabling")
                       THEN queue ELSE queue \ {j}
    /\ wk' = [wk EXCEPT ![w] = Idle]
    /\ UNCHANGED <<hold, job, lease, frozen, data, act, secret>>

-----------------------------------------------------------------------------
(* Work under the lease *)

\* What every destructive transaction checks beside its writes.
Fence(w) ==
    LET j == wk[w].job IN
    /\ wk[w].fresh /\ wk[w].pcur /\ ~held
    /\ lease[j] # None /\ lease[j].by = w
    /\ LifecycleMatches(j)

Working(w, kind, phase) ==
    /\ At(w, "work")
    /\ wk[w].job = kind
    /\ job[kind].phase = phase
    /\ wk[w].fresh

\* A transaction whose fence no longer holds fails the phase.
FenceConflict(w) ==
    /\ At(w, "work")
    /\ ~Fence(w)
    /\ Finish(w, "fail")
    /\ UNCHANGED <<hold, job, lease, frozen, data, act, secret, queue>>

Destroy(w, kind, d) ==
    /\ Fence(w)
    /\ data' = [data EXCEPT ![kind] = d]
    /\ UNCHANGED <<hold, job, lease, frozen, act, secret, queue>>

fence_user_identity(w) ==
    /\ Working(w, "erasure", "intent")
    /\ Destroy(w, "erasure", [data["erasure"] EXCEPT !.ident = "fenced"])
    /\ Finish(w, "next")

\* cleanup_user_authority and cleanup_tenant_stage: row by row.
DeleteRow(w, r) ==
    \E kind \in {"erasure", "offboarding"} :
      /\ Working(w, kind, IF kind = "erasure" THEN "fenced" ELSE "cleanup")
      /\ r \in data[kind].rows
      /\ Destroy(w, kind, [data[kind] EXCEPT !.rows = @ \ {r}])
      /\ IF kind = "erasure" THEN UNCHANGED wk ELSE Finish(w, "same")

UserCleaned(w) ==
    /\ Working(w, "erasure", "fenced")
    /\ data["erasure"].rows = {}
    /\ Finish(w, "next")
    /\ UNCHANGED <<hold, job, lease, frozen, data, act, secret, queue>>

put_suppression(w, a) ==
    /\ Working(w, "erasure", "cleanup")
    /\ a \notin data["erasure"].supp
    /\ Destroy(w, "erasure", [data["erasure"] EXCEPT !.supp = @ \union {a}])
    /\ UNCHANGED wk

SuppressionsWritten(w) ==
    /\ Working(w, "erasure", "cleanup")
    /\ data["erasure"].supp = Aliases
    /\ Finish(w, "next")
    /\ UNCHANGED <<hold, job, lease, frozen, data, act, secret, queue>>

delete_user_identity(w) ==
    /\ Working(w, "erasure", "suppressed")
    /\ Destroy(w, "erasure", [data["erasure"] EXCEPT !.ident = "gone"])
    /\ Finish(w, "next")

\* Fresh reads of every replica: nothing lives, everything is suppressed.
VerifyReplicas(w) ==
    /\ \/ /\ Working(w, "erasure", "replica")
          /\ data["erasure"].rows = {} /\ data["erasure"].ident = "gone"
       \/ /\ Working(w, "offboarding", "replica")
          /\ data["offboarding"].rows = {} /\ act.st \in {"committed", "verified"}
    /\ data[wk[w].job].supp = Aliases
    /\ Finish(w, "next")
    /\ UNCHANGED <<hold, job, lease, frozen, data, act, secret, queue>>

-----------------------------------------------------------------------------
(* Offboarding: users first, then the tenant's rows, then its secret *)

OffboardingIntent(w) ==
    /\ Working(w, "offboarding", "intent")
    /\ Finish(w, "next")
    /\ UNCHANGED <<hold, job, lease, frozen, data, act, secret, queue>>

\* start_offboarding_child: a user left in the tenant gets an erasure job, or
\* the one it has is adopted under the tenant's revision.
start_offboarding_child(w) ==
    /\ Working(w, "offboarding", "fenced")
    /\ ~job["offboarding"].child /\ UserLives
    /\ wk[w].pcur
    /\ LET c == job["erasure"] IN
       job' = [job EXCEPT !["erasure"] =
                 IF c.st = "none" THEN NewJob(TRUE)
                 ELSE IF c.st \in Terminal THEN c
                 ELSE IF ~c.ten THEN [c EXCEPT !.ten = TRUE, !.cur = TRUE,
                                               !.st = IF @ = "blocked" THEN "queued" ELSE @]
                 ELSE IF c.st = "blocked" /\ ~held THEN Resumed("erasure", TRUE)
                 ELSE c]
    /\ wk' = [Stale(wk, "erasure") EXCEPT ![w].pc = "release", ![w].out = "child"]
    /\ queue' = queue \union {"erasure"}
    /\ UNCHANGED <<hold, lease, frozen, data, act, secret>>

WaitForChild(w) ==
    /\ Working(w, "offboarding", "fenced")
    /\ job["offboarding"].child
    /\ LET c == job["erasure"].st IN
       /\ Finish(w, CASE c \in Terminal -> "childless"
                      [] c = "blocked" -> "blocked"
                      [] OTHER -> "same")
       /\ queue' = IF c \in Claimable THEN queue \union {"erasure"} ELSE queue
    /\ UNCHANGED <<hold, job, lease, frozen, data, act, secret>>

\* A listing of users that leaves out the tombstoned ones.
NoActiveUserLeft(w) ==
    /\ Working(w, "offboarding", "fenced")
    /\ ~job["offboarding"].child
    /\ "erasure" \in Jobs => data["erasure"].ident # "active"
    /\ Finish(w, "next")
    /\ UNCHANGED <<hold, job, lease, frozen, data, act, secret, queue>>

\* first_tenant_user finds none.
NoUserLeft(w) ==
    /\ Working(w, "offboarding", "fenced")
    /\ ~job["offboarding"].child /\ ~UserLives
    /\ Finish(w, "next")
    /\ UNCHANGED <<hold, job, lease, frozen, data, act, secret, queue>>

AtSecrets(w) ==
    /\ Working(w, "offboarding", "cleanup")
    /\ data["offboarding"].rows = {}

\* Writes of the action's record by its executor check the lease's fence.
prepare_external_action(w) ==
    /\ AtSecrets(w) /\ Fence(w)
    /\ act.st = "none"
    /\ act' = [act EXCEPT !.st = "prepared"]
    /\ UNCHANGED <<hold, job, lease, frozen, data, secret, queue, wk>>

claim_external_action(w) ==
    /\ AtSecrets(w) /\ Fence(w)
    /\ act.st \in {"prepared", "tombstoned"}
    /\ act' = [st |-> "claimed", left |-> ClaimSecs - wk[w].age]
    /\ wk' = [StaleAct(wk) EXCEPT ![w].pc = "inspect"]
    /\ UNCHANGED <<hold, job, lease, frozen, data, secret, queue>>

\* A pass first prepares the records again, under the fence.
ResumeAction(w) ==
    /\ AtSecrets(w) /\ Fence(w)
    /\ act.st \in requires_hold_drain
    /\ Goto(w, "inspect")
    /\ UNCHANGED <<hold, job, lease, frozen, data, act, secret, queue>>

\* The cleanup closed as soon as the provider has accepted the deletion.
SuppressOnCommit(w) ==
    /\ AtSecrets(w)
    /\ act.st \in {"committed", "verified"}
    /\ Destroy(w, "offboarding", [data["offboarding"] EXCEPT !.supp = Aliases])
    /\ Finish(w, "next")

\* write_tenant_suppression closes the cleanup once the action is verified.
write_tenant_suppression(w) ==
    /\ AtSecrets(w)
    /\ act.st = "verified"
    /\ Destroy(w, "offboarding", [data["offboarding"] EXCEPT !.supp = Aliases])
    /\ Finish(w, "next")

-----------------------------------------------------------------------------
(* The external action, by its executor or by whoever drains the hold *)

AfterAction(w) == IF wk[w].drain THEN "settle" ELSE "release"
SecretStands == secret \in {"replicated", "present"}

\* The claim was completed, or changed hands: nothing to do.
ActionOver(w) ==
    /\ At(w, "inspect")
    /\ act.st \notin requires_hold_drain
    /\ Goto(w, AfterAction(w))
    /\ UNCHANGED <<hold, job, lease, frozen, data, act, secret, queue>>

\* The deletion is under way at the provider: record what was observed.
ObserveDeletion(w) ==
    /\ At(w, "inspect")
    /\ act.st \in requires_hold_drain
    /\ ~SecretStands
    /\ wk' = [wk EXCEPT ![w].pc = "reconcile", ![w].afresh = TRUE]
    /\ UNCHANGED <<hold, job, lease, frozen, data, act, secret, queue>>

\* A standing secret taken for proof that the claim was never used.
FindStanding(w) ==
    /\ At(w, "inspect")
    /\ act.st \in {"claimed", "dispatched"}
    /\ SecretStands
    /\ wk' = [wk EXCEPT ![w].pc = "tombstone", ![w].afresh = TRUE]
    /\ UNCHANGED <<hold, job, lease, frozen, data, act, secret, queue>>

\* The claim has expired and the secret stands.
FindExpired(w) ==
    /\ At(w, "inspect")
    /\ act.st \in {"claimed", "dispatched"}
    /\ SecretStands
    /\ Seen(act.left, w) <= 0
    /\ wk' = [wk EXCEPT ![w].pc = "tombstone", ![w].afresh = TRUE]
    /\ UNCHANGED <<hold, job, lease, frozen, data, act, secret, queue>>

\* Too close to the deadline to start a bounded operation.
TooLate(w) == Seen(act.left, w) <= Bound

LeaveClaim(w) ==
    /\ At(w, "inspect")
    /\ act.st \in {"claimed", "dispatched"}
    /\ SecretStands
    /\ Seen(act.left, w) > 0 /\ TooLate(w)
    /\ Goto(w, AfterAction(w))
    /\ UNCHANGED <<hold, job, lease, frozen, data, act, secret, queue>>

\* The claim is good for the operation: the removal of replicas is put on
\* record first, then the claim is read once more before the call.
ApproveDispatch(w) ==
    /\ At(w, "inspect")
    /\ act.st \in {"claimed", "dispatched"}
    /\ SecretStands
    /\ Seen(act.left, w) > 0 /\ ~TooLate(w)
    /\ IF secret = "replicated" /\ act.st = "claimed"
         THEN /\ act' = [act EXCEPT !.st = "dispatched"]
              /\ wk' = [StaleAct(wk) EXCEPT ![w].pc = "dispatch", ![w].afresh = TRUE]
         ELSE /\ wk' = [wk EXCEPT ![w].pc = "dispatch", ![w].afresh = TRUE]
              /\ UNCHANGED act
    /\ UNCHANGED <<hold, job, lease, frozen, data, secret, queue>>

\* The provider's call.  A replicated secret only loses its replicas, and the
\* pass fails until the next one finds it alone.
schedule_secret_deletion(w) ==
    /\ At(w, "dispatch")
    /\ secret' = [replicated |-> "present", present |-> "scheduled",
                  scheduled |-> "scheduled", absent |-> "absent"][secret]
    /\ IF secret = "replicated"
         THEN wk' = [wk EXCEPT ![w].pc = IF wk[w].drain THEN "error" ELSE "release",
                               ![w].out = "fail"]
         ELSE Goto(w, "reconcile")
    /\ UNCHANGED <<hold, job, lease, frozen, data, act, queue>>

\* The record follows the outcome, by claim token and revision.
Outcome == IF secret = "absent" \/ act.st = "committed" THEN "verified" ELSE "committed"

reconcile_external_action(w) ==
    /\ At(w, "reconcile")
    /\ IF wk[w].afresh
         THEN /\ act' = [act EXCEPT !.st = Outcome]
              /\ wk' = [StaleAct(wk) EXCEPT ![w].pc = AfterAction(w)]
         ELSE /\ Goto(w, AfterAction(w))
              /\ UNCHANGED act
    /\ UNCHANGED <<hold, job, lease, frozen, data, secret, queue>>

\* An expired claim that is reported and left as it is.
LeaveExpired(w) ==
    /\ At(w, "tombstone")
    /\ Goto(w, AfterAction(w))
    /\ UNCHANGED <<hold, job, lease, frozen, data, act, secret, queue>>

tombstone_expired_claim(w) ==
    /\ At(w, "tombstone")
    /\ IF wk[w].afresh
         THEN /\ act' = [act EXCEPT !.st = "tombstoned"]
              /\ wk' = [StaleAct(wk) EXCEPT ![w].pc = AfterAction(w)]
         ELSE /\ Goto(w, AfterAction(w))
              /\ UNCHANGED act
    /\ UNCHANGED <<hold, job, lease, frozen, data, secret, queue>>

-----------------------------------------------------------------------------
(* Draining towards an enabled hold, and blocking the job *)

\* settle_enabling_hold waits for the leases, then completes the claims.
WaitForLeases(w) ==
    /\ At(w, "drain")
    /\ ActiveLeaseFor(w)
    /\ Goto(w, "block")
    /\ UNCHANGED <<hold, job, lease, frozen, data, act, secret, queue>>

Drain(w) ==
    /\ At(w, "drain")
    /\ ~ActiveLeaseFor(w)
    /\ wk' = [wk EXCEPT ![w].pc = IF act.st \in requires_hold_drain THEN "inspect" ELSE "settle",
                        ![w].drain = TRUE]
    /\ UNCHANGED <<hold, job, lease, frozen, data, act, secret, queue>>

\* The hold enabled after one round of draining, without the second look.
SettleAfterOneRound(w) ==
    /\ At(w, "settle")
    /\ wk[w].pcur
    /\ hold' = "enabled"
    /\ job' = [j \in Jobs |-> [job[j] EXCEPT !.cur = FALSE]]
    /\ wk' = [v \in Workers |-> IF v = w THEN [wk[w] EXCEPT !.pc = "block"]
                                         ELSE [wk[v] EXCEPT !.pcur = FALSE]]
    /\ UNCHANGED <<lease, frozen, data, act, secret, queue>>

\* A second look at the claims, then the policy by revision.
settle_enabling_hold(w) ==
    /\ At(w, "settle")
    /\ IF act.st \in requires_hold_drain
         THEN /\ Goto(w, "block")
              /\ UNCHANGED <<hold, job>>
         ELSE /\ wk[w].pcur
              /\ hold' = "enabled"
              /\ job' = [j \in Jobs |-> [job[j] EXCEPT !.cur = FALSE]]
              /\ wk' = [v \in Workers |-> IF v = w THEN [wk[w] EXCEPT !.pc = "block"]
                                                   ELSE [wk[v] EXCEPT !.pcur = FALSE]]
    /\ UNCHANGED <<lease, frozen, data, act, secret, queue>>

\* The policy moved: the hold it now shows blocks the job, or it is gone and
\* the job's revision is behind.
SettleConflict(w) ==
    /\ At(w, "settle")
    /\ act.st \notin requires_hold_drain
    /\ ~wk[w].pcur
    /\ wk' = [wk EXCEPT ![w].pc = IF held THEN "block" ELSE "error", ![w].pcur = TRUE]
    /\ UNCHANGED <<hold, job, lease, frozen, data, act, secret, queue>>

\* update_job: by the job's revision and the policy's.
Checkpoint(w, rec) ==
    LET j == wk[w].job IN
    CASE ~wk[w].pcur -> /\ Goto(w, "error")
                        /\ UNCHANGED job
      [] wk[w].pcur /\ ~wk[w].fresh -> /\ Goto(w, "done")
                                       /\ UNCHANGED job
      [] OTHER -> /\ job' = [job EXCEPT ![j] = [rec EXCEPT !.cur = TRUE]]
                  /\ wk' = [Stale(wk, j) EXCEPT ![w].pc = "done"]

block_for_hold(w) ==
    /\ At(w, "block")
    /\ LET r == job[wk[w].job] IN
       IF wk[w].fresh /\ wk[w].pcur /\ r.st = "blocked" /\ r.cur
         THEN Goto(w, "done") /\ UNCHANGED job
         ELSE Checkpoint(w, [r EXCEPT !.st = "blocked"])
    /\ UNCHANGED <<hold, lease, frozen, data, act, secret, queue>>

-----------------------------------------------------------------------------
(* The end of a phase *)

\* The lease is deleted by its token; someone else's is left alone and the
\* pass ends in an error.
release_phase_lease(w) ==
    /\ At(w, "release")
    /\ LET j == wk[w].job IN
       IF lease[j] # None /\ lease[j].by = w
         THEN /\ lease' = [lease EXCEPT ![j] = None]
              /\ Goto(w, "checkpoint")
         ELSE /\ Goto(w, "error")
              /\ UNCHANGED lease
    /\ UNCHANGED <<hold, job, frozen, data, act, secret, queue>>

NextPhase(j) ==
    CASE job[j].phase = "intent" -> "fenced"
      [] job[j].phase = "fenced" -> "cleanup"
      [] job[j].phase = "cleanup" -> IF j = "erasure" THEN "suppressed" ELSE "replica"
      [] job[j].phase = "suppressed" -> "replica"
      [] OTHER -> "retention"

checkpoint(w) ==
    /\ At(w, "checkpoint")
    /\ LET j == wk[w].job
           r == job[j]
       IN Checkpoint(w,
            CASE wk[w].out = "fail" -> [r EXCEPT !.st = "retryable"]
              [] wk[w].out = "blocked" -> [r EXCEPT !.st = "blocked"]
              [] wk[w].out = "child" -> [r EXCEPT !.st = "running", !.child = TRUE]
              [] wk[w].out = "childless" -> [r EXCEPT !.st = "running", !.child = FALSE]
              [] wk[w].out = "next" -> [r EXCEPT !.phase = NextPhase(j),
                   !.st = IF NextPhase(j) = "retention" THEN "retention" ELSE "running"]
              [] OTHER -> [r EXCEPT !.st = "running"])
    /\ UNCHANGED <<hold, lease, frozen, data, act, secret, queue>>

\* An error of the command: the queue delivers it again, or gives up.
FailCommand(w) ==
    /\ At(w, "error")
    /\ Redeliver(wk[w].job)
    /\ wk' = [wk EXCEPT ![w] = Idle]
    /\ UNCHANGED <<hold, job, lease, frozen, data, act, secret>>

\* A store or provider error fails the phase.
Fail(w) ==
    /\ w \in Faulty
    /\ wk[w].pc \in {"work", "inspect", "dispatch", "reconcile", "tombstone"}
    /\ wk' = [wk EXCEPT ![w].pc = IF wk[w].drain THEN "error" ELSE "release", ![w].out = "fail"]
    /\ UNCHANGED <<hold, job, lease, frozen, data, act, secret, queue>>

\* The invocation is killed; its lease stays behind until it runs out.
Killed(w) ==
    /\ w \in Faulty
    /\ wk[w].pc # "idle"
    /\ lease' = [j \in Jobs |-> IF lease[j] # None /\ lease[j].by = w
                                  THEN [lease[j] EXCEPT !.by = None] ELSE lease[j]]
    /\ Redeliver(wk[w].job)
    /\ wk' = [wk EXCEPT ![w] = Idle]
    /\ UNCHANGED <<hold, job, frozen, data, act, secret>>

\* finalize_retention_job: with no hold and everything still gone.
finalize_retention_job(j) ==
    /\ job[j].st = "retention"
    /\ ~held
    /\ data[j].rows = {} /\ data[j].supp = Aliases
    /\ j = "offboarding" => act.st = "verified"
    /\ job' = [job EXCEPT ![j].st = "completed", ![j].cur = TRUE]
    /\ wk' = Stale(wk, j)
    /\ UNCHANGED <<hold, lease, frozen, data, act, secret, queue>>

\* Time.  No invocation outlives its limit.
Tick ==
    /\ \A w \in Workers : At(w, "idle") \/ wk[w].age < WorkerLimit
    /\ wk' = [w \in Workers |-> IF At(w, "idle") THEN wk[w] ELSE [wk[w] EXCEPT !.age = @ + 1]]
    /\ lease' = [j \in Jobs |-> IF lease[j] = None THEN None
                                ELSE [lease[j] EXCEPT !.left = Elapse(@)]]
    /\ act' = [act EXCEPT !.left = Elapse(@)]
    /\ UNCHANGED <<hold, job, frozen, data, secret, queue>>

-----------------------------------------------------------------------------
Init ==
    /\ hold = "disabled"
    /\ job = [j \in Jobs |-> [st |-> "none", phase |-> "intent", cur |-> FALSE,
                              ten |-> FALSE, child |-> FALSE]]
    /\ lease = [j \in Jobs |-> None]
    /\ frozen = FALSE
    /\ data = [j \in Jobs |-> [rows |-> Rows, ident |-> "active", supp |-> {}]]
    /\ act = [st |-> "none", left |-> -WorkerLimit]
    /\ secret = Secret
    /\ queue = {}
    /\ wk = [w \in Workers |-> Idle]

Start(w) == \E j \in Jobs :
    SkipCommand(w, j) \/ BeginHeld(w, j) \/ PolicyChanged(w, j) \/ BeginWork(w, j)
    \/ LeaseRefused(w, j)

\* What a running invocation does next.
Proceed(w) ==
    \/ FenceConflict(w) \/ fence_user_identity(w) \/ UserCleaned(w)
    \/ \E r \in Rows : DeleteRow(w, r)
    \/ \E a \in Aliases : put_suppression(w, a)
    \/ SuppressionsWritten(w) \/ delete_user_identity(w) \/ VerifyReplicas(w)
    \/ OffboardingIntent(w) \/ start_offboarding_child(w) \/ WaitForChild(w) \/ NoUserLeft(w)
    \/ prepare_external_action(w) \/ claim_external_action(w) \/ ResumeAction(w)
    \/ write_tenant_suppression(w)
    \/ ActionOver(w) \/ ObserveDeletion(w) \/ FindExpired(w) \/ LeaveClaim(w)
    \/ ApproveDispatch(w) \/ schedule_secret_deletion(w)
    \/ reconcile_external_action(w) \/ tombstone_expired_claim(w)
    \/ WaitForLeases(w) \/ Drain(w) \/ settle_enabling_hold(w) \/ SettleConflict(w)
    \/ block_for_hold(w) \/ release_phase_lease(w) \/ checkpoint(w)
    \/ FailCommand(w) \/ EndCommand(w)

Next ==
    \/ EnableHold \/ DisableHold \/ settle_enabling_policy
    \/ start_user_erasure \/ start_tenant_offboarding \/ control_resume_job
    \/ \E r \in Rows : WriteUserRow(r)
    \/ \E j \in Jobs : extend_retention_for_audit(j) \/ finalize_retention_job(j)
    \/ \E w \in Workers : Start(w) \/ Proceed(w) \/ Fail(w) \/ Killed(w)
    \/ Tick

Spec == Init /\ [][Next]_vars

-----------------------------------------------------------------------------
\* Every variable keeps its type.
TypeOK ==
    /\ hold \in {"disabled", "enabling", "enabled"}
    /\ job \in [Jobs -> [st : JobStates, phase : Phases, cur : BOOLEAN,
                          ten : BOOLEAN, child : BOOLEAN]]
    /\ lease \in [Jobs -> {None} \union
          [by : Workers \union {None}, left : -WorkerLimit .. LeaseSecs]]
    /\ frozen \in BOOLEAN
    /\ data \in [Jobs -> [rows : SUBSET Rows, ident : {"active", "fenced", "gone"},
                           supp : SUBSET Aliases]]
    /\ act \in [st : ActStates, left : -WorkerLimit .. ClaimSecs]
    /\ secret \in {"replicated", "present", "scheduled", "absent"}
    /\ queue \subseteq Jobs
    /\ wk \in [Workers -> [pc : {"idle", "work", "inspect", "dispatch", "reconcile",
                   "tombstone", "drain", "settle", "block", "release", "checkpoint",
                   "done", "error"},
          job : Jobs \union {None}, age : 0 .. WorkerLimit, fresh : BOOLEAN,
          pcur : BOOLEAN, afresh : BOOLEAN, drain : BOOLEAN,
          out : {"same", "next", "fail", "blocked", "child", "childless"}]]

From(p) == CASE p = "fenced" -> {"fenced", "cleanup", "suppressed", "replica", "retention"}
             [] p = "cleanup" -> {"cleanup", "suppressed", "replica", "retention"}
             [] p = "suppressed" -> {"suppressed", "replica", "retention"}
             [] OTHER -> {"replica", "retention"}

\* A phase on record is a phase whose deletions are done and stay done, with
\* several workers on a job, killed ones included: a job past its fence has a
\* tombstoned user; past its cleanup nothing of the user is left, however long
\* logins raced it; the identity goes only once every alias is suppressed; an
\* offboarding counts as erased only with no user, no row and the secret's
\* deletion verified.
PhaseIsEarned ==
    /\ "erasure" \in Jobs =>
         LET d == data["erasure"]  p == job["erasure"].phase IN
         /\ p \in From("fenced") => d.ident # "active"
         /\ p \in From("cleanup") => d.rows = {}
         /\ p \in From("suppressed") => d.supp = Aliases
         /\ p \in From("replica") => d.ident = "gone"
         /\ d.ident = "gone" => d.rows = {} /\ d.supp = Aliases
    /\ "offboarding" \in Jobs =>
         LET d == data["offboarding"]  p == job["offboarding"].phase IN
         /\ p \in From("fenced") => frozen
         /\ p \in From("cleanup") => ~UserLives
         /\ p \in From("replica") =>
              d.rows = {} /\ d.supp = Aliases /\ act.st = "verified" /\ ~SecretStands

\* Once the hold is reported enabled, no external action is in flight: every
\* claim made before it was completed or given up.
HoldMeansDrained == hold = "enabled" => act.st \notin requires_hold_drain

\* While the hold is enabled nothing is destroyed: no row, no identity, and no
\* call of a delayed worker reaches the secret.
HoldIsQuiet ==
    hold = "enabled" =>
        /\ secret' = secret
        /\ \A j \in Jobs : data[j].rows \subseteq data'[j].rows /\ data'[j].ident = data[j].ident

=============================================================================
