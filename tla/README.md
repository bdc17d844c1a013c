# A-Auth: TLA+ models, model checks and proofs

A-Auth is a multi-tenant OAuth 2.1 / OpenID Connect authorization server in
Rust. It runs as AWS Lambda functions over DynamoDB, so every endpoint, queue
consumer and scheduled pass is a handler without memory of its own: two of them
on the same record are two processes that interleave at every `await`, any of
them may die between two store calls, and the only thing that orders them is the
condition of a DynamoDB write. This directory models the parts of the server
whose correctness rests on those conditions, checks them with TLC and proves the
most important properties with TLAPS. Paths are relative to the repository root,
which appears as `src/` in `PROJECT.json`; `http/` stands for
`crates/http/src/`.

## 1. Inventory

| Part | Source | State | Operations | What makes it correct |
|---|---|---|---|---|
| Agent payment | `crates/payment`, `http/payment/`, `http/adapters/aws/payment.rs` | intent records with a revision, one order lock per (tenant, payee, order), attempt evidence; the channel's transactions | prepare, get, cancel, execute, reconcile, callback, recovery pass | an order is charged at most once, and only what was approved and accepted; a timeout is never a failure; every attempt ends in a result or in front of an operator |
| Refresh token rotation | `http/refresh_flow.rs`, `crates/token/src/refresh.rs`, `http/adapters/aws/credential_authority.rs` | family (version, revoked, signing lease), grace cache of sealed responses | rotate, replay in the grace window, reuse detection, revocation | a version has one successor; a replaced token revokes the family unless it is the same request again; a revocation is final |
| Two-phase lease | `crates/infra-core/src/lease.rs` | pure state machine | acquire, finalize, release | exclusive while unexpired; finalized by its owner only |
| Code exchange | `http/token.rs`, `http/adapters/aws/credential_authority.rs` | code with lease, family, Grant, session | exchange, replay detection, cleanup | a code yields one family; a replayed code revokes what it bought |
| Device flow, CIBA | `http/device_flow.rs`, `http/ciba_flow.rs`, `http/adapters/aws/ciba_device.rs` | request with status, decision and poll time | poll, approve, deny, consume, give back, push | approved once, consumed once, on an approval that is still current |
| User authority | `http/user_gate.rs`, `http/account_credentials.rs`, `http/login.rs`, `http/admin.rs`, `http/adapters/aws/users.rs` | user row with epoch and held flag, password, passkeys, codes, sessions | logins, changes, resets, disable, enable | a session rests on a credential the user still has; the last factor is not deleted |
| Security events | `http/security_event_archive.rs`, `http/adapters/aws/security_events.rs` | hot row with history, queues, archive object | record, ingest, archive, sweep, redrive | nothing recorded is lost or altered on the way |
| Policy and Grants | `http/recompute.rs`, `http/authz_gate.rs`, `http/adapters/aws/authorization.rs` | policy versions and artifacts, Grants with their evaluation | publish, recompute, create, revoke, use | effective authority is that of the stamped version; narrowing reaches tokens |
| Client reclaim | `http/reclaim.rs`, `http/adapters/aws/authority_refs.rs` | client row, tombstone, reference table | touch, migrate, tombstone, delete | nothing still referenced is deleted |
| Shared Signals | `http/ssf*.rs`, `http/adapters/aws/ssf.rs` | streams, leased deliveries, lagging due index | enqueue, lease, sign, push, record, redrive, offboard | one SET per delivery, attempts that end |
| Administrator credentials | `http/admin_credentials.rs` | secret versions and their labels, caches | publish, validate, commit, migrate | never locked out; what is retired stays retired |
| Tenant keys | `crates/infra-core/src/tenant_keys.rs`, `http/tenant_key_provisioner.rs` | key record with phases, keys in KMS | stage, publish, activate, roll back, retire, delete | what is signed can be verified for as long as it lives |
| Data governance | `http/governance*.rs`, `http/data_governance.rs`, `http/adapters/aws/governance.rs` | policy, jobs with leases, external actions | hold, erase, offboard, resume | a hold that is reported stops deletion; a phase is earned |
| Mutation gate | `http/tenant.rs`, `http/adapters/aws/tenant.rs` | counter, permits with deadlines | acquire, renew, release, reap, freeze | no write lands after the freeze |
| Region failover | `http/region.rs`, `e2e/region_failover.sh` | control rows and their replicas | quiesce, activate, purge, roll back, admit | one Region admits; nothing passes from one activation to the next |
| The rest | federation, SCIM, workload identity, delegation, registration, discovery, rate limits, console, SDKs, infrastructure | see `PROJECT.json` | | mostly validation, encoding, lookups and configuration |

**Interactions.** A token request (rotation, exchange or poll) reads the Grant,
then the user's authority, takes the signing lease or consumes the request,
signs, commits, and reads the authority again. Account and administration
endpoints change the authority first and clean up families and sessions
afterwards, best effort. The payment server accepts an intent by a conditional
write and then calls the channel; callbacks and the recovery pass write the same
record. Every mutating request holds a permit of its tenant's gate, which an
offboarding freezes before governance erases the tenant. All of them are admitted
by the control rows of their Region. Only the tables are shared; there are no
locks in memory.

**Hard behaviour.** Interleaving at every await; conditional writes whose answer
is lost after they committed; leases that expire under a slow owner; crashes
between an external effect and its record; indexes and replicas that lag;
cleanups that are reported as done or deferred; a channel that forgets
idempotency keys; clock readings taken before the store call they are compared
in. `PROJECT.json` lists each of these as a hazard at its line, with the
properties that cover it.

## 2. Modules

| Module | Stands for | Used by |
|---|---|---|
| `PaymentExecution`, `Payment` | the payment record's pure transitions; the server around it | `MCPayment`, `MCRecovery`, `PaymentProofs` |
| `SigningLease` | the abstract lease of `lease.rs` | refined by `RefreshFamily` and `CodeExchange` |
| `RefreshFamily` | one refresh family and everything that presents or revokes it | `MCRefreshFamily`, `MCRefreshRetry`, `MCRecovery`, `RefreshFamilyProofs` |
| `CodeExchange` | one authorization code and its exchanges | `MCIssuance`, `MCRecovery`, `CodeExchangeProofs` |
| `PollGrant` | one device or CIBA request | `MCIssuance`, `MCSettling`, `PollGrantProofs` |
| `UserAuthority` | one user's credentials and sessions | `MCAccounts`, `MCRecovery`, `AccountProofs` |
| `SecurityEvents` | one event's way into the archive | `MCAccounts`, `MCSettling`, `AccountProofs` |
| `PolicyRecompute` | policy versions and a few Grants | `MCBackground`, `MCRecovery`, `MCPolicyRevocation`, `BackgroundProofs` |
| `ClientReclaim` | one client with its codes and families | `MCBackground`, `MCSettling`, `BackgroundProofs` |
| `SsfDelivery` | one stream's deliveries | `MCBackground`, `MCSettling`, `BackgroundProofs` |
| `AdminCredentials` | one administrator's secret | `MCBackground`, `MCSettling`, `BackgroundProofs` |
| `TenantKeyRecord`, `TenantKeys` | the key record's pure transitions; the provisioner | `MCTenant`, `MCKeyAdoption`, `MCSettling`, `TenantProofs` |
| `Governance` | one tenant's hold and jobs | `MCTenant`, `MCSettling`, `TenantProofs` |
| `MutationGate` | one tenant's gate | `MCTenant`, `MCRecovery`, `TenantProofs` |
| `RegionFailover` | the control rows and the operator's script | `MCRegion`, `MCSettling`, `RegionFailoverProofs` |

A handler is a process, and each of its actions ends at an await: what lies
between two store calls is one step, a read and the conditional write that
follows it are two. Failing calls, lost answers and crashes are actions of their
own, bounded by `MaxFaults`, `MaxCrashes` or the like. Revisions that the code
only compares for equality are kept as flags (`fresh`, `cur`) or counted modulo a
bound; deadlines are kept as the time left. Names of definitions are the code's
names where TLA+ allows it, and `PROJECT.json` maps every definition to its lines.

**The `instance` variable.** A run checks several components, or one component in
several small instances. `MC` modules therefore have a variable `instance`, chosen
in the initial state and never changed; the next-state relation takes the steps of
that instance, and the variables of the others keep the value `NotUsed` or their
initial value. An MC module that names a component's own property in its
configuration extends that component, and the property then speaks of each of its
behaviours; MC-level properties say `instance = "x" => ...`. `MCAccounts` extends both
of its components, so its properties are those the theorems of section 5 state.

### What the modules abstract

- **Payment.** A report carries its transaction, its state and one bit for
  "amount, currency and payee are the frozen ones". `UpdateAnswerLost` is a
  conditional put that committed, whose answer was lost and which the SDK
  repeats, so the caller believes it lost the race. The channel keeps a key for
  `Retention` after it has processed it and would charge again afterwards.
  `Honest` are the intents on which the channel keeps its contract; on the others
  it may contradict itself. The code starts the attempt's window from a clock
  reading that precedes the call, so its safety needs that a handler is not frozen
  in between for as long as the channel keeps keys: `CallLatency < Retention`. The
  functions' time limits are seconds or minutes (`infra/lib/agent-auth-stack.ts`),
  the retention a day (`http/payment/adapter.rs:144`). Without the assumption a second
  charge is reachable, and it is the only timing assumption of the model.
- **RefreshFamily.** There is one clock, but a handler compares with the reading
  it took before the store call. `Owners` is a pool of random identifiers, so its
  size bounds the attempts that sign. `minted`, `answers` and `acked` are history:
  which rotations committed, which tokens were sent, which revocations were
  reported. Deletion of kept responses by TTL, DPoP replay records and last-used
  timestamps are left out: none changes what a later step may do.
- **CodeExchange.** Expiry of the code and of the lease are flags, each read in
  the step whose condition compares it. A process that has answered may send the
  code again; its family and Grant are named by the process.
- **SigningLease.** The holder is a value because the stores' fencing tokens make it
  one. The stores do not call `lease.rs`; that they follow it is what the two
  refinements say.
- **PollGrant.** The record is read from an eventually consistent replica;
  `last_poll_at` is counted modulo `MaxPolls`. The client of the liveness
  instance waits for the interval, as `slow_down` asks it to.
- **UserAuthority.** One user. A session keeps the epoch it was issued in and
  whether the store's generation is still its own (`cur`); a held row's lease is
  aged or not. Rows written before epochs existed start at epoch 0. Deletion of
  users, invitations, attempt limits and the lock of recovery codes are left out.
- **SecurityEvents.** One event. Retry limits are smaller than the code's in the runs;
  an ETag is the value of the object; leases outlive an invocation (30 s Lambda limit).
  `prod.twice` is history: whether a send that failed may have been enqueued, or the
  record was read from the log again, so that two copies of it are under way.
  `HistoryAssumption` says that a record whose every write and send failed still
  fits into the ingress limit of 64 entries; it has 17.
- **PolicyRecompute.** A policy is the set of scopes it permits. The index of
  Grants lags; a pass reads all its Grants before it writes any; revisions are
  bounded.
- **ClientReclaim.** Draining removes writers of the release before the
  references. Idleness is days, a pass minutes: a client does not become idle
  again during a pass.
- **SsfDelivery.** A pass reads the clock once, so a lease it holds never looks
  expired to itself. `Timely` says that a pass ends before its leases:
  `DELIVERY_LEASE_SECS` is the function's time limit (300 s). A SET number that
  nothing refers to is used again.
- **AdminCredentials.** One owner. `Reserve` is at least the time a label write
  takes; the clock saturates at its bound while caches go on aging.
- **TenantKeys.** `WindowsAssumption` states what the windows presuppose: verifiers
  refresh the key set within `PUBLISH_AHEAD_SECS`; an invocation (300 s) ends
  before what it rotates can be activated (600 s); the skew added to the overlap
  (30 s) absorbs the delay of a commit, which comes before the invocation ends.
  `fresh` decides a compare-and-swap on the
  revision that a KMS call separates from its read.
- **Governance.** Copies of the job, the policy and the external action are fresh or
  stale. The assumptions are the code's constants: an invocation lives 300 s, a
  job lease 360 s, and a claim (30 s) leaves room for one bounded operation (5 s).
  The secret's recovery window lies beyond the horizon. Export, evidence records,
  continuation tokens and residency are left out; of the external actions one,
  the deletion of the tenant's secret, is modelled.
- **MutationGate.** `2 * CallBound + Renew + Stall + Skew < Lease`: the lease of
  120 s, renewed every 30 s, covers an acquisition, the time to its renewal and a
  call issued in its last moment. Each request runs once.
- **RegionFailover.** Every control row replicates on its own, in the order of its
  writes. `TimesAssumption` says that an invocation, and a proof it may have
  accepted, is over within the quiescence window of 330 s. The operator reruns the
  script after a fault; a transaction without answer may land later. How long an
  activation has lasted and when proofs were issued are only followed where
  `Follow` asks for it.

## 3. Runs

`Safety` runs explore every interleaving within the bounds; `Live` runs check a
liveness property under fairness. Times are those of two workers.

| Run | Instances and bounds | Checks | Time |
|---|---|---|---|
| `payment` | race: two intents of one order, two handlers, a fault, clock to 2; retried: one intent, clock to 3, so that the channel forgets its key (`Retention` 2) and the attempt's window (1) has passed; contradicting: a channel that contradicts itself and one callback | `OneChargePerOrder`, `AcceptedOwnsOrder`, `ChargeWasAccepted`, `SettlesTruthfully`, `ContradictionIsFlagged`, `RecordOnlyGrows` | 2 min |
| `refresh` | race: two handlers, two requests, two lease owners, a clock that ends leases and kept responses; faulty: one request identifier, one failing call or crash | `OneSuccessor`, `LiveLeaseIsExclusive`, `RevocationSticks`, `LateRequestRefused`, `FreshBeforeChange`, `ImplementsLease`, `TypeOK` | 2 min |
| `issuance` | code: four requests, one of a bad client, one with a bad proof, one fault; code with three faults; device with two polls; push; device with every kind of fault | `SingleIssue`, `ReplayRevokes`, `NoStrandedAuthority`, `ImplementsLease`, `DecisionStands` | 3 min |
| `accounts` | logins, resets, factors, disable, enable of one user, who starts with every credential the instance is about; archive, dead letter, ingress, stream batch of one event | `RestsOnCredential`, `FactorRemains`, `EventIsKept`, `ObjectNeverRegresses` | 2.5 min |
| `background` | policy with creation, revocation and tokens; fenced revocation; reclaim with two passes and a migration; delivery with two passes whose leases may lapse; deliveries whose passes end in time; rotation with two runtimes and two migrations | `AuthorityFollowsPolicy`, `ReclaimIsSafe`, `DeliveryIsSound`, `LeaseIsKept`, `LimitsSuffice`, `NothingIsRevived` | 3 min |
| `tenant` | keys of a ready tenant under every command and two workers; an onboarding with two algorithms; erasure, offboarding and both under a hold; the gate with two requests and two starters | `SignaturesVerify`, `KnownBeforeSigning`, `PhaseIsEarned`, `HoldIsQuiet`, `GateCountsPermits`, `FrozenIsFinal` | 3 min |
| `region` | handover with a fault and a late call; two interfering runs of the script; identifiers; a client assertion replayed in both Regions | `WritersAreCurrent`, `NothingCarriesOver`, `ProofOnce` | 90 s |
| `recovery` (live) | payment, refresh, code, policy, held row, gate | `NothingWaitsForever` | 3 min |
| `settling` (live) | administrator rotation, orphaned keys, delivery, polled request, reclaim, event, Region transition, hold, erasure | `EverythingSettles` | 3 min |
| `refresh_lost_answer` | one client that obeys Retry-After, one lost answer | violated: `HonestClientKeepsFamily` | 1 s |
| `policy_revocation` | one revocation, one recomputation | violated: `RevocationStands` | 1 s |
| `key_adoption` | one onboarding delivered more than once: two workers, two algorithms, three keys | violated: `ActiveKeysAlive` | 20 s |

**Why the bounds suffice.** A double charge needs two intents of an order or two
handlers of one intent, and time for the deadline, the forgotten key and a retry
after both. A forked family needs two handlers on one version, a lease that ends
under its owner and two owners. A code replay needs one exchange in the middle and
one behind it; the third and fourth request give every cleanup its own process.
Two passes, runtimes or workers are the smallest number that can overtake one
another; a late index needs one record and one catch-up. A Region's identifiers
come back after two transitions, which `MaxRev` 5 allows with a rollback in
between. Where more would matter, the theorems of section 5 hold for every number.
Deadlock is not checked: a server without requests, at the bounds of its clock and
faults, may rest; that it does not rest too early is what the liveness runs say.

**Several instances in one liveness run.** The behaviours of two instances are
disjoint and `instance` never changes, so weak (strong) fairness of a disjunction
of one action from each instance is weak (strong) fairness of each of them in its
own behaviours. `Fair1`, `Fair2`, ... are these disjunctions; their subscript
`used` consists of the variables of the instance at hand.

**What is fair, and why.**

- A handler that has started goes on, as a running function does; its end at a
  crash or time limit is an action of its own and bounded.
- Schedules come again: the recovery pass, the recomputation, the delivery worker,
  the daily reclaim, the sweep, the reconciler of keys (`infra/lib/`). Where a pass may
  look at a moment when there is nothing to do, the fairness is strong: passes come
  again and again, and one of them finds what is enabled again and again.
- Queues and the stream deliver, indexes and replicas catch up, time passes, the
  payment channel settles what it processed.
- A client retries until it has its token, an operator repeats the script or the
  request until it has come true. Where a property needs that (`refresh`, `code`,
  `region`, `hold`), it says what happens if they do.
- Not fair are new requests, decisions of users and faults.
- The recovery pass of payments is an assumption on the deployment:
  `docs/AGENT_PAYMENT.md:250` says that so far only the acceptance suite invokes it.

In `recovery` the clock of the refresh instance is bounded, so a fault is allowed
only while the lease it leaves behind can still run out; otherwise the bound, not
the code, would lock the family.

## 4. What the violated runs say

- **`refresh_lost_answer`.** After a finalize that committed but whose answer was
  lost, the client is told to retry when the lease would end (up to 30 s,
  `http/refresh_flow.rs:41`). By then the kept response is gone (5 s,
  `http/state.rs:7180`), the retry counts as reuse and revokes the family;
  `docs/DESIGN.md:984` says that the retry succeeds.
- **`policy_revocation`.** `revoke` writes the revision after the one it read on the
  sole condition that the Grant exists. If a recomputation committed that revision
  in between, the next pass finds the revision it expects in the revoked record and
  writes the Grant back as active; the comment at
  `http/adapters/aws/authorization.rs:871` says that it cannot.
- **`key_adoption`.** A worker whose compare-and-swap fails takes its key for
  superfluous (`handle_cas_losing_key`), but the write it lost to need not have recorded
  a key for that algorithm: it may only have tracked a duplicate of the other one for
  deletion. A redelivered command then finds the key by its tags, and
  neither `find_created_keys` nor `record_created_key`
  (`http/tenant_key_provisioner.rs:1001`) looks at `pending_deletion_arns`: the key is
  probed, published and used, and after that the first worker, or any later
  reconciliation, schedules it for deletion. `docs/DEPLOYMENT.md:147` says that
  concurrent requests cannot get an active key that is being deleted.

Disagreements met while modelling that have no run of their own:

- A reset completes while another request of the client that has passed its gates
  replays a kept response (`http/refresh_flow.rs:1138`): a token of a rotation after
  the reset can reach it if the cleanup was deferred. The comment at 1500 excludes
  it.
- POST /revoke answers 200 although the store call failed (`http/revoke.rs:228`).
- The payment pass lists the oldest attempts up to its limit; those that stay
  unsettled fill it. The model of `recovery` has a limit that suffices.
- `release_consume` (`http/adapters/aws/ciba_device.rs:681`) sent twice by the SDK can
  reopen a request another poll has consumed meanwhile; the instances that check
  `OneToken` therefore have no repeated release, the one that checks
  `ApprovalCurrent` has it.
- Two recomputations that overlap and publish different texts write one version number
  twice, so that Grants are stamped with an artifact that was replaced;
  `http/recompute.rs:192` says that there is a single writer. The instances
  have one, and the theorems assume it (`OneWorker`).
- For an offboarded tenant the reconciliation of keys ends before it looks for late
  ones (`http/tenant_key_provisioner.rs:626`).
- Governance: a slow invocation may delete after its expired claim was given up and
  the hold reported (`http/governance_worker.rs:1150`). The clock is read once, when
  the command starts, and may be up to 300 s old at the call, for which it left 5 s. So
  in the instances an invocation ends within that bound, and `HoldQuiet` names the
  calls that keep it (`CallsInTime`); `ErasureIsEarned` needs neither. A job that met no
  command during a hold, a frozen offboarding that was blocked, and an erasure whose identity is
  gone when its tenant freezes cannot be resumed.
- An event copy that was enqueued although its send failed can make the next copy
  look divergent, and an object made from the queue can shadow the row
  (`http/security_event_archive.rs`).
- Two redrives of one event that overlap can leave an archived row whose object has
  another history: `mark_redrive_failed` (`http/bin/security_event_archive.rs`) clears the
  lease without comparing it, and `redrive_dead_letter` does not look at the status of
  what it loaded. It takes a redrive whose commit lost its answer, a late copy, a
  second time of giving up and a second redrive, 24 steps in all, and is beyond the
  faults of the run. `EventStaysKept` therefore assumes one redrive at a
  time (`OneRedrive`); everything else about the record is proved without.
- `rollback_to_primary` purges the standby without holding a revision
  (`e2e/region_failover.sh:1942`); a second run can activate the standby meanwhile, and the
  purge then deletes replay markers of the serving activation. So can an
  activation that was sent before the rollback and lands after its purge began.
  `ProofOnce` is therefore checked and proved for a single run whose transactions
  do not land late, and proved for any runs under the condition that
  no marker is purged while the standby serves (`PurgesInOrder`).

Where such a disagreement would break a property, the instance that checks the
property leaves out the one fault it needs, and this list names it.

## 5. Proofs

TLAPS proves the following for every number of processes and records and every
value of the bounds and times that the named assumptions of the modules allow.
Apart from those (and that placeholders such as `None` are not members of the sets
they are placed beside, that the two Regions differ, that the requests of the
gate are finitely many, and that a self-service change and an administrator's reset
never share an operation id: each draws 27 random bytes) and the hypotheses the table
states for polled requests, a client's assertion, the recomputation, the hold, a
redriven event and keys that are given up, nothing is assumed. The
theorems on assertions also need `MaxRev >= 4`, room for the four revisions
of a handover, so that the bound does not stop a run in its middle.

| Module | Theorem | States |
|---|---|---|
| `PaymentProofs` | `TypeCorrect` | `[]TypeOK` |
| | `OrderIsNeverBypassed` | `[]AcceptedOwnsOrder` |
| | `OnlyAcceptedIsCharged` | `[]ChargeWasAccepted` |
| | `AtMostOneCharge` | `[]OneChargePerOrder` |
| | `RecordsOnlyGrow` | `RecordOnlyGrows` (action property) |
| | `ContradictionsAreFlagged` | `[]ContradictionIsFlagged` |
| | `ResultsAreTheChannels` | `[]SettlesTruthfully` |
| `RefreshFamilyProofs` | `TypeCorrect` | `[]TypeOK` |
| | `RotationNeverForks` | `[]OneSuccessor` |
| | `ReportedRevocationHolds` | `[]RevocationSticks` |
| | `NoTokenAfterReport` | `[]LateRequestRefused` |
| | `PostIssueCheckSuffices` | `[]FreshBeforeChange` |
| | `LeaseExcludes` | `[]LiveLeaseIsExclusive` |
| | `LeaseIsImplemented` | `RefreshFamily` refines `SigningLease` |
| `CodeExchangeProofs` | `OneIssue` | `[]SingleIssue` |
| | `ReplayIsFatal` | `[]ReplayRevokes` |
| | `NothingStrands` | `[]NoStrandedAuthority` |
| | `LeaseIsImplemented` | `CodeExchange` refines `SigningLease` |
| `PollGrantProofs` | `ApprovalWasCurrent` | `[]ApprovalCurrent` |
| | `OnlyApprovedIssues` | `[]DecisionStands` |
| | `RequestIssuesOnce` | `[]OneToken`, if no release is sent twice |
| | `FailureLeavesNoGrant` | `[]NoStrandedGrant`, if the Grant's write and its revocation do not fail and no process dies |
| | `RequestsAreSound` | the four of them, as `MCIssuance`'s `DecisionStands` |
| `AccountProofs` | `AcceptedRestsOnCredential` | `[]RestsOnCredential` |
| | `DeletionLeavesAFactor` | `FactorRemains` (action property) |
| | `RecordStaysKept` | `[]RecordIsKept`: all of `EventIsKept` but `ArchivedIsExact` |
| | `EventStaysKept` | `[]EventIsKept`, if one redrive runs at a time |
| | `ObjectsOnlyAdvance` | `ObjectNeverRegresses` (action property) |
| `TenantProofs` | `CountIsExact` | `[]GateCountsPermits` |
| | `FreezeIsFinal` | `FrozenIsFinal` (action property) |
| | `ErasureIsEarned` | `[](PhaseIsEarned /\ HoldMeansDrained)` |
| | `HoldQuiet` | `HoldIsQuiet` (action property), if every call follows its reading within the bound of a call |
| | `SignaturesStayVerifiable` | `[]SignaturesVerify` of `TenantKeys` |
| | `KeysAreAnnounced` | `KnownBeforeSigning` (action property) of `TenantKeys` |
| | `KeysStayAlive` | `[](ServedKeysAlive /\ WholeGenerationActive)` of `TenantKeys`, if no worker records a key that another has given up (`RecordsSpared`) and no operation id is drawn twice (`OneRun`) |
| `RegionFailoverProofs` | `OneRegionAdmits` | `[]WritersAreCurrent` |
| | `NothingIsCarried` | `[]NothingCarriesOver` |
| | `MarkersSuffice` | `[]ProofOnce`, if `[]PurgesInOrder` |
| | `AssertionIsUsedOnce` | `[]ProofOnce`, for one run of the script without late transactions |
| `BackgroundProofs` | `DeliverySound` | `[]DeliveryIsSound` |
| | `NobodyElseEndsALease` | `LeaseIsKept` (action property) |
| | `CoverageHolds` | `[]CoverageIsComplete` |
| | `NothingIsReclaimedInUse` | `[]NothingDangles` |
| | `TombstonesStay` | `TombstoneStays` (action property) |
| | `AuthorityIsStamped` | `[](StampTruthful /\ NoEmptyAuthority)`, if one recomputation runs at a time |
| | `TokensFollowPolicy` | `[]IssueWithinPolicy`, likewise |
| | `FencedRevocationStands` | `RevokedStays` (action property), likewise and if every revocation is fenced |
| | `CachesFollowTrust` | `[]CachesAgree` |
| | `TrustAdvances` | `AnchorAdvances` (action property) |
| | `RetirementIsFinal` | `DeadStaysDead` (action property) |
| | `PolicyIsFollowed` | `[]AuthorityFollowsPolicy`, under the hypotheses of its parts |
| | `ReclaimSafe` | `[]ReclaimIsSafe` |
| | `LimitsHold` | `[]LimitsSuffice` |
| | `RevivalExcluded` | `NothingIsRevived` (action property), under the hypotheses of its parts |

`BackgroundProofs` extends the component of the deliveries and has the other three
as instances, and `TenantProofs` that of the gate with `Governance` and `TenantKeys`. The
runs check several components at once, so `MCBackground`, `MCTenant` and `MCIssuance`
define properties that name their instances. Where the table gives such a name
(`AuthorityFollowsPolicy`, `ReclaimIsSafe`, `LimitsSuffice`, `NothingIsRevived`,
`PhaseIsEarned`, `DecisionStands`), the theorem states the component's own formula of that
content, for every value of its constants and not only for the instance's.

None of the properties is inductive, for the same reason each time: whether a step
is safe depends on what its process knows, and that may be old. Each invariant
therefore says how old it may be. Proofs go action by action; step lemmas
(`LocalStep`, `WriteStep`, `RecordInv`, ...) say once what a step that writes only
its own process, or one record, leaves true for all the others.

**Payment.** `IInv` says of every handler that it works on an existing intent
(`Bound`), that its snapshot is an earlier version of the record and equal to it if
the revision is (`Snapshot`), that a handler about to submit belongs to an accepted
attempt (`Entitled`), and that it is close enough to the clock for the channel
still to know any earlier key (`Timely`). A live intent owns its order
(`LiveOwnsOrder`), and a charged key is an accepted attempt inside its window
(`Accepted`). `CallLatency < Retention` is what makes `Timely` enough.

**Settlement.** A compare-and-set that succeeds derives the record that is stored,
not an older one (`CasExact`), so every step leaves a record alone, creates it, or
replaces it by what one function of `execution.rs` derives of it (`RecordSteps`).
Beside the records the invariant follows the reports on their way to them, in
handlers and in callbacks: the channel of an honest intent has one transaction for
a key, so what it reported once stays true however late it arrives.

**Refresh.** `IInv` says for each program counter what the handler has passed
(`HandlerOK`): its clock reading is not in the future, its owner has minted nothing
yet, an unexpired lease it believes to hold is the family's, a handler past the
gates did not start after a report. Owners in use are distinct, rotations are those
of the versions below the current one, and kept and sent responses come from
rotations of the same request. The step that matters is between revoking and
deleting the kept responses: only that handler can report, and no rotation commits
after it because finalize requires a live family.

**Leases.** `ImplementsLease` is an `INSTANCE` of `SigningLease` with the state of
the code, or of one version of the family, computed from the record. The delicate
step is a takeover: the store compares the expiry with the taker's older clock
reading, and an expiry that lies before that reading lies before now.

**Code exchange.** At most one process won the finalize (`Winner`), and everything
issued belongs to it. For replays, a process that was told of a replay either still
has the revocation before it or its winner is barren (`Told`, `Barren`): a winner
reads the replay marker after creating its Grant, so one of the two sees the other.
For what is stranded, each cleanup that is under way still owes the rows it has not
revoked.

**Polled requests.** A copy of the record may be old, but once it says `approved` it
is right about the approval and the password version it was given on (`Copy`),
because a decision is never taken back. What a poll found changed is still so when
it acts on it (`ProcOK`). A consumed record has one holder, and a token is the end
of it (`Once`): a second release would make two, which is why `RequestIssuesOnce`
names it. Every active Grant is that of a token or has a process that will still look
at it (`Kept`).

**Accounts.** A row that is held for an operation is in an epoch that no session has
read yet, and what a session of the present epoch counts on, it has (`Current`). A
gate that frees the row lets sessions into the epoch and takes it from the
operation, whose commit is then refused (`Owns`). So whenever a credential goes, every
session so far is of an earlier epoch and no longer accepted. For deletions, a
passkey change that has recounted has another factor left for as long as it owns the
row (`ChangeRight`), since what could remove that one takes the row or its epoch first.

**Mutation gate.** The counter is the number of permits because every transaction
changes both. That nothing lands after the freeze is a matter of time: `Covered`
says, at each point of a request, how much of the lease is left, so a permit is
never within the clock skew of its end while a call it covers is under way.

**Region failover.** The standby reads its row late, but in the order of its
revisions, and no activation on its way is newer than the coordinator's
(`Lagging`). What a run of the script observed stays true until the next
activation (`Observed`), and an activation, even one that lands late, was requested
after the quiescence window of that observation (`Waited`, `LateWaited`). Then every
invocation the old activation admitted is over. A client's assertion that was
accepted is refused from then on (`Used`): its replay marker is there, or it was
signed before the activation that serves, or it has expired, or nobody
serves. That the purge behind a window may forget the marker is a matter of time
again (`Elapsed`): whoever accepted it was admitted before the window, which outlasts
an invocation by more than the skew of the client and the error of the clock.

**Delivery.** What the index shows is late but never wrong about the revision and
the SET (`Shown`), because a SET is never replaced and the revision never changes;
and a settled delivery is nobody's. For one pass at a time (`Timely => OnePusher`): a
pass at work holds its lease, or the offboarding has suppressed the delivery for
good (`Holding`).

**Client reclaim.** What a pass has read of codes and families counts only while the
client has the revision it listed, and every new code or family changes that
revision (`Checked`). The migration has, between its two scans, still to visit
whatever lacks its reference (`Scanned`): a writer of the old release may add some
during the first, so coverage is published after the second.

**Policy.** A published artifact is never replaced (`Published`): the one recomputation
writes only the version after the current one, and above that there is nothing
(`Unpublished`). So the text a pass or a creation in flight carries is still that of
the version it will stamp (`Reads` in `PassWorking` and `Created`), and the Grants a
pass has in hand are active ones that exist (`Copied`). A cached version is not newer
than the current one (`Cached`), so what it permits was in force since. For
`FencedRevocationStands`, a copy in hand that has the stored revision means that the
Grant is still active (`Ordered`); the conditional write replaces only that one.

**Administrator credentials.** A load acts on labels it read before it had the lock.
`Loading` says what they are still good for: they name documents that succeed one
another, revisions rising and the replaced credential retired, and a commit that
cancels a retirement is under way only while its date is more
than the reserve away. A runtime accepts the trusted version, or accepts another one
for at least as long as the label has been where it is (`Agreed`), which ends with the cache.

**Governance.** Every phase of a job promises something of the data (`Goal`), and a
worker may only report a phase done that it has done from a copy that is still the
record's (`Reported`): the checkpoint is conditional on the revision, so a worker with an
old copy checkpoints nothing. What a phase has promised stays so (`Onward`): rows are only
written while the identity is active, and a fence, a suppression, an erased
identity and an accepted deletion are never taken back. Of the secret, a worker that acts
on the action's record knows its state (`Acting`), and one that is about to call has
a claim that has not run out, as long as its call is in time. That is what
separates it from the worker that closes an expired claim for the hold.

**Signing keys.** A step of a worker does one of a few things to the record (`Moves`:
begin, prepare, publish, activate, roll back, retire, revoke, close), whatever else it was
about, so the windows are proved once for every move and each action is shown to be
one of them. A key may leave the published ones when its last signature has lapsed
(`Outlived`): during an overlap, by `retireAfter`, because the commit that took the key out
of use was at most `CommitDelay` after the reading the overlap is counted from (`Fit`). A
key signs once verifiers can have it (`Announcement`). What would break both is a worker
that goes on provisioning a generation another one has activated meanwhile (`Timely`): it
began before the generation was published, and its invocation is over
`PUBLISH_AHEAD_SECS` later. The comparison of revisions alone does not exclude it, because a
worker reads the record again after every call.

For the keys themselves, nothing in use or on its way in is on its way out (`SafeInv`):
not tracked for deletion, not in the hands of a worker that deletes, not deleted. A
rollback or a retirement gives up one generation's keys, and they are not those of the
other because generations follow one another (`InTurn`) and consist of keys made for
them (`Whole`). The one step that brings a key back from the side of those given up is
the adoption by tags of `key_adoption`. `RecordsSpared` excludes exactly that step, and
with it everything else holds: failures, late compensations, sweeps and revocations
in any order. `OneRun` says that an id is not drawn twice.

**Security events.** Every step is described by what it does to the row, the object, an
invocation and its task (`Effects`), and the parts of the invariant are shown to be kept from that.
What invocations and the object know of the row was the row once, so of any two one
continues the other and both are behind it (`Chain`); that is why no comparison finds a
divergence, although invocations read at different times. An object is replaced by
one that knows more (`Replacing`), because the decision was made about the object whose
ETag the write names. A commit finds the object it wrote or one that knows more
(`Committing`), and its condition compares the row's whole history, so no reading in
between was missed (`SameStatus`). One invocation serves the stream and its notification
(`OneDriver`); with `OneRedrive` nobody else moves what a redrive has loaded (`Loading`),
and the archived row is the object. For the copies: a record of which one copy is under way knows,
wherever it is, at least what was stored of it (`OneCopy`, with `Behind` for writes that
may still land), and it is never cut to the limit (`Fits`). Steps that touch no
copy are dealt with at once (`Calm`).

**Only model-checked.** The liveness properties, as fairness and ENABLED are outside
the prover's reach. `ServedKeysAlive` and `WholeGenerationActive` of `TenantKeys` hold
in `tenant` without `RecordsSpared`, but only because its ready tenant has one algorithm
and its onboarding one worker; `key_adoption`, with two of both, shows that the
hypothesis of `KeysStayAlive` is needed. Payment's `TypeOK` is proved and not part of a run.

## 6. Not modelled

The components with status `not_modelled` in `PROJECT.json`, each with its reason,
and what the notes of the others name. Within the modelled ones: cryptography (a
signature or seal either verifies or the request ends), the content of tokens, RAR
details and documents, DynamoDB throttling beyond "the call fails", and clock skew
between functions except where a module names it (`Skew`, `ClockError`, `CommitDelay`).

## 7. Running

    tlc -workers 2 -config Payment.cfg MCPayment
    tlapm BackgroundProofs.tla

Each run's module and configuration are in `PROJECT.json`.
