----------------------------- MODULE MCTenant -------------------------------
(***************************************************************************)
(* The life of a tenant: its signing keys, the gate that its offboarding   *)
(* closes, and the governance jobs that erase it, in small instances. Each *)
(* behaviour is one of a single instance, named by the variable instance;  *)
(* the gate stays as it is created and the variables of the other          *)
(* components stay NotUsed where they do not belong to the instance.       *)
(***************************************************************************)
EXTENDS MutationGate, TLC

CONSTANTS o1, o2, w1, w2, w3, r1, r2, a1, a2, NotUsed

VARIABLES instance, rec, kms, indexed, work, now, signed, since, hold, job, lease,
          frozen, data, act, secret, queue, wk

\* Commands of the tenant's onboarding operation, and every command.
LifetimeCommands == {[cmd |-> c, op |-> o1] : c \in {"ensure", "reconcile", "offboard"}}
EveryCommand ==
    LifetimeCommands \union
    {[cmd |-> c, op |-> o2] : c \in {"rotate", "activate", "rollback", "retire", "emergency_revoke"}}

Ready == INSTANCE TenantKeys WITH
    NumAlgs <- 1, Keys <- 1..2, NoKey <- 0, Ops <- {o1, o2}, NoOp <- None,
    OnboardOp <- o1, Workers <- {w1, w2}, Commands <- EveryCommand,
    PublishAhead <- 2, PublishingTimeout <- 3, Overlap <- 2, WorkerTimeout <- 1,
    CommitDelay <- 1, TokenLife <- 1, JwksMaxAge <- 2, MaxTime <- 6
Onboarding == INSTANCE TenantKeys WITH
    NumAlgs <- 2, Keys <- 1..4, NoKey <- 0, Ops <- {o1, o2}, NoOp <- None,
    OnboardOp <- o1, Workers <- {w3}, Commands <- LifetimeCommands,
    PublishAhead <- 1, PublishingTimeout <- 1, Overlap <- 1, WorkerTimeout <- 0,
    CommitDelay <- 0, TokenLife <- 1, JwksMaxAge <- 1, MaxTime <- 1
Erasure == INSTANCE Governance WITH
    Workers <- {w1, w2}, Faulty <- {w1, w2}, Jobs <- {"erasure"}, Rows <- {r1, r2},
    Aliases <- {a1, a2}, Secret <- "present", Fifo <- FALSE, Holds <- TRUE,
    WorkerLimit <- 1, LeaseSecs <- 2, ClaimSecs <- 2, Bound <- 1
Offboarding == INSTANCE Governance WITH
    Workers <- {w1, w2}, Faulty <- {w1, w2}, Jobs <- {"offboarding"}, Rows <- {r1},
    Aliases <- {a1}, Secret <- "replicated", Fifo <- FALSE, Holds <- TRUE,
    WorkerLimit <- 1, LeaseSecs <- 2, ClaimSecs <- 2, Bound <- 1
Held == INSTANCE Governance WITH
    Workers <- {w3}, Faulty <- {}, Jobs <- {"erasure", "offboarding"},
    Rows <- {r1}, Aliases <- {a1}, Secret <- "present", Fifo <- TRUE,
    Holds <- TRUE, WorkerLimit <- 1, LeaseSecs <- 2, ClaimSecs <- 2, Bound <- 1

ASSUME
    /\ Ready!AlgsAssumption /\ Ready!NamesAssumption /\ Ready!TimesAssumption
    /\ Ready!WindowsAssumption /\ Ready!CommandsAssumption
    /\ Onboarding!AlgsAssumption /\ Onboarding!NamesAssumption
    /\ Onboarding!TimesAssumption /\ Onboarding!WindowsAssumption
    /\ Onboarding!CommandsAssumption /\ Erasure!TimesAssumption
    /\ Erasure!JobsAssumption /\ Erasure!SecretAssumption
    /\ Offboarding!TimesAssumption /\ Offboarding!JobsAssumption
    /\ Offboarding!SecretAssumption /\ Held!TimesAssumption
    /\ Held!JobsAssumption /\ Held!SecretAssumption
    /\ TimesAssumption /\ NamesAssumption

keyVars == <<rec, kms, indexed, work, now, signed, since>>
governanceVars == <<hold, job, lease, frozen, data, act, secret, queue, wk>>
OnlyKeys ==
    /\ Init
    /\ hold = NotUsed /\ job = NotUsed /\ lease = NotUsed /\ frozen = NotUsed /\ data = NotUsed
    /\ act = NotUsed /\ secret = NotUsed /\ queue = NotUsed /\ wk = NotUsed
OnlyGovernance ==
    /\ Init
    /\ rec = NotUsed /\ kms = NotUsed /\ indexed = NotUsed /\ work = NotUsed /\ now = NotUsed
    /\ signed = NotUsed /\ since = NotUsed
OnlyGate ==
    /\ rec = NotUsed /\ kms = NotUsed /\ indexed = NotUsed /\ work = NotUsed /\ now = NotUsed
    /\ signed = NotUsed /\ since = NotUsed /\ hold = NotUsed /\ job = NotUsed /\ lease = NotUsed
    /\ frozen = NotUsed /\ data = NotUsed /\ act = NotUsed /\ secret = NotUsed /\ queue = NotUsed
    /\ wk = NotUsed

AllInit ==
    \/ instance = "ready" /\ Ready!ReadyInit /\ OnlyKeys
    \/ instance = "onboarding" /\ Onboarding!Init /\ OnlyKeys
    \/ instance = "erasure" /\ Erasure!Init /\ OnlyGovernance
    \/ instance = "offboarding" /\ Offboarding!Init /\ OnlyGovernance
    \/ instance = "holds" /\ Held!Init /\ OnlyGovernance
    \/ instance = "gate" /\ Init /\ OnlyGate

AllNext ==
    /\ UNCHANGED instance
    /\ \/ instance = "ready" /\ Ready!Next /\ UNCHANGED <<governanceVars, vars>>
       \/ instance = "onboarding" /\ Onboarding!Next /\ UNCHANGED <<governanceVars, vars>>
       \/ instance = "erasure" /\ Erasure!Next /\ UNCHANGED <<keyVars, vars>>
       \/ instance = "offboarding" /\ Offboarding!Next /\ UNCHANGED <<keyVars, vars>>
       \/ instance = "holds" /\ Held!Next /\ UNCHANGED <<keyVars, vars>>
       \/ instance = "gate" /\ Next /\ UNCHANGED <<keyVars, governanceVars>>

allVars == <<instance, keyVars, governanceVars, vars>>

AllSpec == AllInit /\ [][AllNext]_allVars

Symmetry == Permutations({w1, w2})

-----------------------------------------------------------------------------
\* A signature made by an active key can be verified with the published keys for as
\* long as it lives, across activation, rollback and retirement
\* (TOKEN_OVERLAP_SECS), unless it was ended by emergency revocation or
\* offboarding; no key a signer or a verifier is given is being deleted
\* (cleanup_pending_deletions, compensate_failure); and the two algorithms of a
\* snapshot always sign with the same generation.
SignaturesVerify ==
    /\ instance = "ready" => Ready!SignaturesVerify
    /\ instance = "ready" => Ready!ServedKeysAlive
    /\ instance = "onboarding" => Onboarding!ServedKeysAlive
    /\ instance = "ready" => Ready!WholeGenerationActive
    /\ instance = "onboarding" => Onboarding!WholeGenerationActive

\* A key starts to sign only when verifiers that cache the published keys have it
\* (PUBLISH_AHEAD_SECS), the first generation and emergency revocation excepted.
KnownBeforeSigning == [][instance = "ready" => Ready!KnownBeforeSigning]_allVars

\* A phase on record is a phase whose deletions are done and stay done, with
\* several workers on a job, killed ones included: a job past its fence has a
\* tombstoned user; past its cleanup nothing of the user is left, however long
\* logins raced it; the identity goes only once every alias is suppressed; an
\* offboarding counts as erased only with no user, no row and the deletion of the
\* secret verified; and a hold is reported enabled only once no external action is
\* in flight (settle_enabling_hold, settle_enabling_policy).
PhaseIsEarned ==
    /\ instance = "erasure" => Erasure!PhaseIsEarned
    /\ instance = "offboarding" => Offboarding!PhaseIsEarned
    /\ instance = "holds" => Held!PhaseIsEarned
    /\ instance = "erasure" => Erasure!HoldMeansDrained
    /\ instance = "offboarding" => Offboarding!HoldMeansDrained
    /\ instance = "holds" => Held!HoldMeansDrained

\* While the hold is enabled nothing is destroyed: no row, no identity, and no call
\* of a delayed worker reaches the secret.
HoldIsQuiet ==
    [][/\ instance = "erasure" => Erasure!HoldIsQuiet
       /\ instance = "offboarding" => Offboarding!HoldIsQuiet
       /\ instance = "holds" => Held!HoldIsQuiet]_allVars
=============================================================================
