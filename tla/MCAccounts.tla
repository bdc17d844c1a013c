---------------------------- MODULE MCAccounts ------------------------------
(***************************************************************************)
(* The credentials of a user, and the archive of security events, in small *)
(* instances. Each behaviour is one of a single instance, named by the     *)
(* variable instance.  This module extends both components, so their       *)
(* invariants speak of every instance; the variables of the component that *)
(* an instance leaves out stay as they are at first.  The constants of     *)
(* SecurityEvents in the configuration are those of the instance archive.  *)
(* Interchangeable elements are permuted only where an instance uses all   *)
(* of them.                                                                *)
(***************************************************************************)
EXTENDS UserAuthority, SecurityEvents, TLC

CONSTANTS s1, s2, s3, k1, k2, k3, t1, t2, t3, a1, a2, a3, l1, l2, l3

VARIABLES instance

DeadLetter == INSTANCE SecurityEvents WITH
    Slots <- 1..2, HotAttempts <- 1, EnqueueAttempts <- 1, IngressAttempts <- 2,
    HistoryLimit <- 64, ArchiveAttempts <- 1, CasAttempts <- 2, StreamTries <- 1,
    NoteReceives <- 2, Start <- "stored", AmbiguousEnqueue <- FALSE,
    MaxFaults <- 2, MaxCrashes <- 0, MaxAttempts <- 12
Ingress == INSTANCE SecurityEvents WITH
    Slots <- 1..1, HotAttempts <- 2, EnqueueAttempts <- 1, IngressAttempts <- 2,
    HistoryLimit <- 8, ArchiveAttempts <- 1, CasAttempts <- 1, StreamTries <- 1,
    NoteReceives <- 2, Start <- "hot", AmbiguousEnqueue <- FALSE, MaxFaults <- 3,
    MaxCrashes <- 1, MaxAttempts <- 12
Batch == INSTANCE SecurityEvents WITH
    Slots <- 1..1, HotAttempts <- 1, EnqueueAttempts <- 2, IngressAttempts <- 2,
    HistoryLimit <- 64, ArchiveAttempts <- 1, CasAttempts <- 1, StreamTries <- 1,
    NoteReceives <- 2, Start <- "batch", AmbiguousEnqueue <- TRUE, MaxFaults <- 3,
    MaxCrashes <- 1, MaxAttempts <- 12

ASSUME
    /\ UserAssumption
    /\ BoundsAssumption /\ HistoryAssumption
    /\ DeadLetter!BoundsAssumption /\ DeadLetter!HistoryAssumption
    /\ Ingress!BoundsAssumption /\ Ingress!HistoryAssumption
    /\ Batch!BoundsAssumption /\ Batch!HistoryAssumption

OnlyUser == InitEvent
OnlyEvents == Init /\ password.ver = 0 /\ user.status = "active" /\ keys = [k \in Keys |-> "none"]
              /\ codes = 0 /\ \A s \in Sessions : ses[s].pc = "idle"

\* The user at first, when only the sessions S and the passkeys K take part.
Starts(S, K) ==
    /\ Init
    /\ \A s \in Sessions \ S : ses[s].pc = "idle"
    /\ \A k \in Keys \ K : keys[k] = "none"
WithPassword == password.ver = 1
WithoutCodes == codes = 0
\* The passkeys K still exist: used, deleted and last ones come about in the behaviours.
WithPasskeys(K) == \A k \in K : keys[k] = "live"
WithCodes == codes = MaxCodes

\* The steps of the sessions S, changes T, resets A and disables and enables L.
StepsOf(S, T, A, L) ==
    \/ Gate \/ Age
    \/ \E s \in S : LoginStep(s)
    \/ \E t \in T : ChangeStep(t)
    \/ \E a \in A : AdminStep(a)
    \/ \E l \in L : LifecycleStep(l)
Untouched(K) == \A k \in K : keys'[k] = keys[k]

AllInit ==
    \/ instance = "login" /\ Starts({s1, s2}, {k3}) /\ WithPassword /\ WithPasskeys({k3})
       /\ WithCodes /\ OnlyUser
    \/ instance = "reset" /\ Starts({s1, s2}, {}) /\ WithPassword /\ WithoutCodes /\ OnlyUser
    \/ instance = "factors" /\ Starts({s1, s2}, {k1, k2}) /\ WithPasskeys({k1, k2}) /\ OnlyUser
    \/ instance = "disable" /\ Starts({s3}, {}) /\ WithPassword /\ WithoutCodes /\ OnlyUser
    \/ instance = "enable" /\ Starts({s3}, {}) /\ WithPassword /\ WithoutCodes /\ OnlyUser
    \/ instance = "archive" /\ InitEvent /\ OnlyEvents
    \/ instance = "dead_letter" /\ DeadLetter!InitEvent /\ OnlyEvents
    \/ instance = "ingress" /\ Ingress!InitEvent /\ OnlyEvents
    \/ instance = "batch" /\ Batch!InitEvent /\ OnlyEvents

UserNext ==
    \/ instance = "login" /\ StepsOf({s1, s2}, {t3}, {a3}, {}) /\ Untouched({k1, k2})
    \/ instance = "reset" /\ StepsOf({s1, s2}, {}, {a1, a2}, {}) /\ Untouched(Keys)
    \/ instance = "factors" /\ StepsOf({s1, s2}, {t1, t2}, {}, {}) /\ Untouched({k3})
    \/ instance = "disable" /\ StepsOf({s3}, {}, {a3}, {l1, l2}) /\ Untouched(Keys)
    \/ instance = "enable" /\ StepsOf({s3}, {}, {}, {l1, l2, l3}) /\ Untouched(Keys)

AllNext ==
    /\ UNCHANGED instance
    /\ \/ UserNext /\ UNCHANGED eventVars
       \/ instance = "archive" /\ NextEvent /\ UNCHANGED vars
       \/ instance = "dead_letter" /\ DeadLetter!NextEvent /\ UNCHANGED vars
       \/ instance = "ingress" /\ Ingress!NextEvent /\ UNCHANGED vars
       \/ instance = "batch" /\ Batch!NextEvent /\ UNCHANGED vars

allVars == <<instance, vars, eventVars>>
AllSpec == AllInit /\ [][AllNext]_allVars

Symmetry ==
    UNION {Permutations(S) : S \in {{s1, s2}, {k1, k2}}}
=============================================================================
