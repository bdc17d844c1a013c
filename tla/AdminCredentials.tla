--------------------------- MODULE AdminCredentials ---------------------------
(***************************************************************************)
(* The credential set of one administrator                                 *)
(* (crates/http/src/admin_credentials.rs): an operator publishes versions  *)
(* of a secret, every runtime checks the current version against the last  *)
(* trusted one, moves the label of trust with two more label writes        *)
(* around it, and accepts the credentials of what it loaded until its      *)
(* cache is too old.  The set's first version is written by a migration.   *)
(*                                                                         *)
(* A version is its index; 0 stands for a label that is attached to none.  *)
(* The expiry of a credential is left out.                                 *)
(***************************************************************************)
EXTENDS Naturals, Sequences

CONSTANTS
    Creds,        \* credentials
    None,         \* no credential
    Docs,         \* documents the operator may publish
    Legacy,       \* the document the migration wraps the old bearer in
    Runtimes,     \* processes that verify credentials
    Steady,       \* those whose calls are answered in time
    Migrators,    \* runs of the migration
    CacheTTL,     \* cache_ttl
    Reserve,      \* ADMIN_CREDENTIAL_CHECKPOINT_SAFETY_SECS and the reserve for label writes
    MaxTime,      \* bound: the clock
    MaxVersions   \* bound: versions of the secret

Never == MaxTime + 1
Documents == [rev : Nat, cur : Creds, next : Creds \cup {None}, retireAt : 0..Never,
              retired : SUBSET Creds]

\* normalize_set
WellFormed(d) ==
    /\ d.rev > 0 /\ d.cur # d.next
    /\ d.cur \notin d.retired /\ d.next \notin d.retired
    /\ (d.next = None) <=> (d.retireAt = Never)

CredentialsAssumption ==
    /\ None \notin Creds /\ Docs \cup {Legacy} \subseteq Documents
    /\ WellFormed(Legacy) /\ Legacy.rev = 1 /\ Legacy.next = None
    /\ CacheTTL \in Nat \ {0} /\ Reserve \in Nat \ {0} /\ MaxTime \in Nat /\ MaxVersions \in Nat \ {0, 1}

VARIABLES
    versions,  \* what was written, in order; the first is a placeholder, the second Legacy
    stages,    \* the labels AWSCURRENT, AWSPREVIOUS, AGENTAUTH_VALIDATED, AGENTAUTH_ROLLBACK_PENDING
    now,       \* clock
    task,      \* loads of the registry
    cache,     \* what a runtime accepts, and for how long it has
    mig,       \* runs of the migration
    settled    \* history: time since the label of trust moved, up to CacheTTL

vars == <<versions, stages, now, task, cache, mig, settled>>

Ids == 0..MaxVersions
Stages == [cur : Ids, prev : Ids, val : Ids, pend : Ids]
Placeholder == [rev |-> 0]
IsDocument(v) == v \notin {0, 1}
Idle == [pc |-> "idle", snap |-> [cur |-> 0, prev |-> 0, val |-> 0, pend |-> 0], at |-> 0]
NoCache == [ver |-> 0, age |-> CacheTTL]

TypeOK ==
    /\ versions \in Seq(Documents \cup {Placeholder}) /\ Len(versions) <= MaxVersions
    /\ stages \in Stages /\ stages.cur \in 1..Len(versions) /\ stages.prev # stages.cur
    /\ now \in 0..MaxTime /\ settled \in 0..CacheTTL
    /\ task \in [Runtimes -> [pc : {"idle", "described", "lock", "locked", "commit", "committed",
                                    "clear", "final"}, snap : Stages, at : 0..MaxTime]]
    /\ cache \in [Runtimes -> [ver : Ids, age : 0..CacheTTL]]
    /\ mig \in [Migrators -> [pc : {"idle", "write", "validate"}, cur : Ids]]

\* Both secrets are deployed with a placeholder before the migration runs.
Init ==
    /\ versions = <<Placeholder, Legacy>>
    /\ stages = [cur |-> 1, prev |-> 0, val |-> 0, pend |-> 0]
    /\ now = 0 /\ settled = CacheTTL
    /\ task = [w \in Runtimes |-> Idle]
    /\ cache = [w \in Runtimes |-> NoCache]
    /\ mig = [m \in Migrators |-> [pc |-> "idle", cur |-> 0]]

-----------------------------------------------------------------------------
\* What may follow what

\* validate_transition
Transition(p, c, t) ==
    /\ c.rev > p.rev /\ p.retired \subseteq c.retired /\ c.next # p.cur
    /\ (t >= p.retireAt \/ c.cur # p.cur) => p.cur \in c.retired
    /\ p.next # None =>
          IF p.next \in {c.cur, c.next} THEN c.next = p.next => c.retireAt <= p.retireAt
                                        ELSE p.next \in c.retired

\* A previous version that is compared besides the trusted one.
Bystander(s) == IsDocument(s.prev) /\ s.prev \notin {s.cur, s.val}

\* load_registry: the checks of one owner's versions.
Acceptable(s, t) ==
    /\ s.val # 0 /\ IsDocument(s.cur) /\ WellFormed(versions[s.cur]) /\ s.pend \in {0, s.cur}
    /\ s.val # s.cur => Transition(versions[s.val], versions[s.cur], t)
    /\ Bystander(s) =>
          IF s.val = s.cur THEN versions[s.prev].rev < versions[s.cur].rev
                           ELSE Transition(versions[s.prev], versions[s.cur], t)

\* transition_deadline: what is compared and keeps its current credential.
Deadlines(s) ==
    {versions[v].retireAt : v \in {u \in {s.val, s.prev} :
        /\ IsDocument(u) /\ u # s.cur
        /\ versions[u].cur = versions[s.cur].cur /\ versions[u].retireAt # Never}}

\* Nothing is set aside for the label writes.
CheckpointDeadlineReachedNoReserve(s) == \E d \in Deadlines(s) : now >= d

\* checkpoint_deadline_reached
CheckpointDeadlineReached(s) == \E d \in Deadlines(s) : now + Reserve >= d

-----------------------------------------------------------------------------
\* The operator

\* Any document is written as the new current version.
PublishOverwritesPrevious(d) ==
    /\ Len(versions) < MaxVersions /\ stages.val # 0
    /\ versions' = Append(versions, d)
    /\ stages' = [stages EXCEPT !.cur = Len(versions) + 1, !.prev = Len(versions) + 1]
    /\ UNCHANGED <<now, task, cache, mig, settled>>

\* put_current_document of the rotation script: the current version is compared and replaced.
Publish(d) ==
    /\ Len(versions) < MaxVersions /\ stages.val # 0
    /\ versions' = Append(versions, d)
    /\ stages' = [stages EXCEPT !.cur = Len(versions) + 1, !.prev = stages.cur]
    /\ UNCHANGED <<now, task, cache, mig, settled>>

\* A marker left on another version keeps everything closed until the operator removes it.
OperatorClear ==
    /\ stages.pend \notin {0, stages.cur}
    /\ stages' = [stages EXCEPT !.pend = 0]
    /\ UNCHANGED <<versions, now, task, cache, mig, settled>>

-----------------------------------------------------------------------------
\* The migration

\* prepare_admin_credential_target: the placeholder is replaced, an unlabelled Legacy labelled.
MigrateRead(m) ==
    /\ mig[m].pc = "idle" /\ stages.pend = 0 /\ stages.val = 0
    /\ \/ stages.cur = 1 /\ stages.prev = 0
          /\ mig' = [mig EXCEPT ![m] = [pc |-> "write", cur |-> stages.cur]]
       \/ stages.cur = 2 /\ stages.prev = 1
          /\ mig' = [mig EXCEPT ![m] = [pc |-> "validate", cur |-> stages.cur]]
    /\ UNCHANGED <<versions, stages, now, task, cache, settled>>

\* The current label moves from the version that was read; if it does not, it has to be there.
MigrateCurrent(m) ==
    /\ mig[m].pc = "write"
    /\ IF stages.cur = mig[m].cur
         THEN stages' = [stages EXCEPT !.cur = 2, !.prev = stages.cur]
         ELSE stages' = stages
    /\ mig' = [mig EXCEPT ![m] = IF stages'.cur = 2 THEN [pc |-> "validate", cur |-> 2]
                                 ELSE [pc |-> "idle", cur |-> 0]]
    /\ UNCHANGED <<versions, now, task, cache, settled>>

\* The label of trust is taken from wherever it is.
MigrateValidateMoves(m) ==
    /\ mig[m].pc = "validate"
    /\ stages' = [stages EXCEPT !.val = 2]
    /\ settled' = IF stages.val = 2 THEN settled ELSE 0
    /\ mig' = [mig EXCEPT ![m] = [pc |-> "idle", cur |-> 0]]
    /\ UNCHANGED <<versions, now, task, cache>>

\* An attached label moves only from the version the request names, and it names none.
MigrateValidate(m) ==
    /\ mig[m].pc = "validate"
    /\ stages' = IF stages.val = 0 THEN [stages EXCEPT !.val = 2] ELSE stages
    /\ settled' = IF stages.val = 0 THEN 0 ELSE settled
    /\ mig' = [mig EXCEPT ![m] = [pc |-> "idle", cur |-> 0]]
    /\ UNCHANGED <<versions, now, task, cache>>

MigrateCrash(m) ==
    /\ mig[m].pc # "idle"
    /\ mig' = [mig EXCEPT ![m] = [pc |-> "idle", cur |-> 0]]
    /\ UNCHANGED <<versions, stages, now, task, cache, settled>>

-----------------------------------------------------------------------------
\* A runtime loads the registry

Goto(w, ok, pc) == task' = [task EXCEPT ![w] = IF ok THEN [@ EXCEPT !.pc = pc] ELSE Idle]

Locked(s) == [s EXCEPT !.pend = s.cur]
Committed(s) == [Locked(s) EXCEPT !.val = s.cur]
Finalized(s) == [Committed(s) EXCEPT !.pend = 0]

\* fetch: the labels are read, and what they name.
Describe(w) ==
    /\ task[w].pc = "idle" /\ cache[w].age = CacheTTL
    /\ Acceptable(stages, now)
    /\ task' = [task EXCEPT ![w] = [pc |-> "described", snap |-> stages, at |-> now]]
    /\ UNCHANGED <<versions, stages, now, cache, mig, settled>>

\* ensure_stage_snapshots_stable; a version that is trusted needs at most its marker removed.
Recheck(w) ==
    /\ task[w].pc = "described"
    /\ LET s == task[w].snap
       IN Goto(w, stages = s, IF s.val # s.cur THEN "lock" ELSE IF s.pend # 0 THEN "clear" ELSE "final")
    /\ UNCHANGED <<versions, stages, now, cache, mig, settled>>

\* A marker found on the version is somebody else's.
EnsurePendingOwn(w) ==
    /\ task[w].pc = "lock"
    /\ stages' = IF stages.pend = 0 THEN [stages EXCEPT !.pend = task[w].snap.cur] ELSE stages
    /\ Goto(w, stages.pend = 0, "locked")
    /\ UNCHANGED <<versions, now, cache, mig, settled>>

\* ensure_pending: an attached marker is not moved, and may be the one wanted.
EnsurePending(w) ==
    /\ task[w].pc = "lock"
    /\ stages' = IF stages.pend = 0 THEN [stages EXCEPT !.pend = task[w].snap.cur] ELSE stages
    /\ Goto(w, task[w].snap.cur \in {stages'.pend, task[w].snap.pend}, "locked")
    /\ UNCHANGED <<versions, now, cache, mig, settled>>

\* The labels are as expected under the marker, and there is time left.
CheckLocked(w) ==
    /\ task[w].pc = "locked"
    /\ task' = [task EXCEPT ![w] =
          IF stages = Locked(@.snap) /\ ~CheckpointDeadlineReached(@.snap)
            THEN [@ EXCEPT !.pc = "commit", !.at = now] ELSE Idle]
    /\ UNCHANGED <<versions, stages, now, cache, mig, settled>>

\* commit_validated: the label moves from the version that was read, or is there already.
Commit(w) ==
    /\ task[w].pc = "commit"
    /\ LET s == task[w].snap
       IN /\ stages' = IF stages.val = s.val THEN [stages EXCEPT !.val = s.cur] ELSE stages
          /\ settled' = IF stages.val = s.val THEN 0 ELSE settled
          /\ Goto(w, stages'.val = s.cur, "committed")
    /\ UNCHANGED <<versions, now, cache, mig>>

CheckCommitted(w) ==
    /\ task[w].pc = "committed"
    /\ Goto(w, stages = Committed(task[w].snap), "clear")
    /\ UNCHANGED <<versions, stages, now, cache, mig, settled>>

\* clear_pending: the marker is removed, or is on no version.
ClearPending(w) ==
    /\ task[w].pc = "clear"
    /\ stages' = IF stages.pend = task[w].snap.cur THEN [stages EXCEPT !.pend = 0] ELSE stages
    /\ Goto(w, stages'.pend = 0, "final")
    /\ UNCHANGED <<versions, now, cache, mig, settled>>

\* The labels are not read again.
FinishUnchecked(w) ==
    /\ task[w].pc = "final"
    /\ cache' = [cache EXCEPT ![w] = [ver |-> task[w].snap.cur, age |-> 0]]
    /\ task' = [task EXCEPT ![w] = Idle]
    /\ UNCHANGED <<versions, stages, now, mig, settled>>

\* verify: the labels are final, and no revision is older than what this runtime accepted.
Finish(w) ==
    /\ task[w].pc = "final"
    /\ LET s == task[w].snap
       IN cache' = IF /\ stages = Finalized(s)
                      /\ cache[w].ver # 0 => versions[s.cur].rev >= versions[cache[w].ver].rev
                     THEN [cache EXCEPT ![w] = [ver |-> s.cur, age |-> 0]] ELSE cache
    /\ task' = [task EXCEPT ![w] = Idle]
    /\ UNCHANGED <<versions, stages, now, mig, settled>>

\* A call fails or times out, or the process ends and forgets what it accepted.
Abort(w) ==
    /\ task[w].pc # "idle" /\ w \notin Steady
    /\ task' = [task EXCEPT ![w] = Idle]
    /\ cache' \in {cache, [cache EXCEPT ![w] = NoCache]}
    /\ UNCHANGED <<versions, stages, now, mig, settled>>

\* A label write takes less time than is set aside for it; the clock stops at its bound, the
\* caches still age.
Tick ==
    /\ \A w \in Runtimes : task[w].pc = "commit" => now < task[w].at + Reserve
    /\ now' = IF now < MaxTime THEN now + 1 ELSE now
    /\ cache' = [w \in Runtimes |-> [cache[w] EXCEPT !.age = IF @ < CacheTTL THEN @ + 1 ELSE @]]
    /\ settled' = IF settled < CacheTTL THEN settled + 1 ELSE settled
    /\ UNCHANGED <<versions, stages, task, mig>>

-----------------------------------------------------------------------------
Load(w) ==
    \/ Describe(w) \/ Recheck(w) \/ EnsurePending(w) \/ CheckLocked(w)
    \/ Commit(w) \/ CheckCommitted(w) \/ ClearPending(w) \/ Finish(w)

Migrate(m) == MigrateRead(m) \/ MigrateCurrent(m) \/ MigrateValidate(m)

Next ==
    \/ \E d \in Docs : Publish(d)
    \/ OperatorClear \/ Tick
    \/ \E m \in Migrators : Migrate(m) \/ MigrateCrash(m)
    \/ \E w \in Runtimes : Load(w) \/ Abort(w)

Spec == Init /\ [][Next]_vars

-----------------------------------------------------------------------------
Trusted == versions[stages.val]

\* Retired, or its replacement's date has come.
Dead(c) ==
    /\ IsDocument(stages.val)
    /\ c \in Trusted.retired \/ (c = Trusted.cur /\ now >= Trusted.retireAt)

\* A credential that is retired by the trusted version, by name or by its date, stays so:
\* no cancelled rotation that is committed late brings it back (validate_transition,
\* checkpoint_deadline_reached).
DeadStaysDead == \A c \in Creds : Dead(c) => Dead(c)'

\* The label of trust only moves to higher revisions, although stale runtimes and repeated
\* migrations write it (commit_validated).
AnchorAdvances ==
    (stages.val # stages'.val /\ stages.val # 0)
        => versions[stages.val].rev < versions'[stages'.val].rev

\* A cache's lifetime after the label of trust has moved, no runtime accepts anything else
\* than the trusted version (ensure_stage_snapshots_stable).
CachesAgree ==
    settled = CacheTTL => \A w \in Runtimes : cache[w].age < CacheTTL => cache[w].ver = stages.val

\* A current version that may follow the trusted one becomes trusted, unless it is replaced
\* or its time runs out, whatever loads before it left unfinished (mark_validated).
Pending == stages.val # stages.cur /\ Acceptable(stages, now) /\ Deadlines(stages) = {}
=============================================================================
