---------------------------- MODULE ClientReclaim ----------------------------
(***************************************************************************)
(* Reclaiming an idle client (crates/http/src: reclaim.rs,                 *)
(* adapters/aws/clients.rs, adapters/aws/authority_refs.rs;                *)
(* crates/infra-core/src/client_reclaim.rs): overlapping passes turn an    *)
(* idle client without codes and refresh families into a tombstone and     *)
(* later delete it.  They look for codes and families in a table of        *)
(* references, which writers keep and a migration fills for what was       *)
(* written before; until the migration has published its coverage a pass   *)
(* decides nothing.                                                        *)
(*                                                                         *)
(* A pass takes minutes and idleness days: a client does not become idle   *)
(* again during a pass.                                                    *)
(***************************************************************************)
EXTENDS Naturals, FiniteSets

CONSTANTS
    Codes,         \* authorization codes of the client
    Families,      \* refresh families of the client
    Passes,        \* reclaim passes
    Admins,        \* updates of the client's metadata
    MaxMigrations  \* bound: migrations begun

Sources == Codes \cup Families

ReclaimAssumption == Codes \cap Families = {} /\ MaxMigrations \in Nat

VARIABLES
    client,    \* the client's row
    source,    \* codes and families
    refs,      \* the references table
    covered,   \* the coverage marker
    legacy,    \* writers that keep no references are still running
    mig,       \* the migration's phase, what it has to visit, and how many were begun
    pass,      \* reclaim passes
    admin      \* updates under way: what they have read

vars == <<client, source, refs, covered, legacy, mig, pass, admin>>

MaxRevision == Cardinality(Sources)
Rows == {"full", "deleted"}
Phases == {"none", "drain", "cleanup", "backfill_codes", "backfill_refreshes", "verify_codes",
           "verify_refreshes", "publish", "complete"}
Snapshots == [tomb : {"no", "fresh", "over"}, rev : 0..MaxRevision]

TypeOK ==
    /\ client \in [row : Rows, tomb : {"no", "fresh", "over"}, idle : BOOLEAN, rev : 0..MaxRevision]
    /\ source \in [Sources -> {"none", "live", "over"}]
    /\ refs \subseteq Sources /\ covered \in BOOLEAN /\ legacy \in BOOLEAN
    /\ mig \in [phase : Phases, todo : SUBSET Sources, begun : 0..MaxMigrations]
    /\ pass \in [Passes -> [pc : {"idle", "refresh", "code", "act"}, seen : Snapshots]]
    /\ admin \in [Admins -> [on : BOOLEAN, seen : Snapshots, idle : BOOLEAN]]

NoSnapshot == [tomb |-> "no", rev |-> 0]

\* The deployment that introduces the references finds a client in use.
Init ==
    /\ client = [row |-> "full", tomb |-> "no", idle |-> FALSE, rev |-> 0]
    /\ source = [s \in Sources |-> "none"] /\ refs = {}
    /\ covered = FALSE /\ legacy = TRUE
    /\ mig = [phase |-> "none", todo |-> {}, begun |-> 0]
    /\ pass = [p \in Passes |-> [pc |-> "idle", seen |-> NoSnapshot]]
    /\ admin = [a \in Admins |-> [on |-> FALSE, seen |-> NoSnapshot, idle |-> FALSE]]

Snapshot == [tomb |-> client.tomb, rev |-> client.rev]
Live(S) == {s \in S : source[s] = "live"}

-----------------------------------------------------------------------------
\* Codes and families

\* active_client_touch: part of every transaction that creates a source.
Usable == client.row = "full" /\ client.tomb = "no"

\* put_authorized and put_family: source, reference and touch in one transaction.
Create(s) ==
    /\ source[s] = "none" /\ Usable
    /\ source' = [source EXCEPT ![s] = "live"]
    /\ refs' = refs \cup {s}
    /\ client' = [client EXCEPT !.idle = FALSE, !.rev = @ + 1]
    /\ UNCHANGED <<covered, legacy, mig, pass, admin>>

\* The reference stays behind.
EndKeepsReference(s) ==
    /\ source[s] = "live"
    /\ source' = [source EXCEPT ![s] = "over"]
    /\ UNCHANGED <<client, refs, covered, legacy, mig, pass, admin>>

\* A code is consumed or deleted, a family revoked or deleted, with its reference.
End(s) ==
    /\ source[s] = "live"
    /\ source' = [source EXCEPT ![s] = "over"]
    /\ refs' = refs \ {s}
    /\ UNCHANGED <<client, covered, legacy, mig, pass, admin>>

\* An expired code leaves its reference, whose key carries the expiry.
ExpireCode(s) ==
    /\ s \in Codes /\ source[s] = "live"
    /\ source' = [source EXCEPT ![s] = "over"]
    /\ UNCHANGED <<client, refs, covered, legacy, mig, pass, admin>>

\* Writers of the release before: no references, no touch.
LegacyWrite(s) ==
    /\ legacy /\ Usable
    /\ \/ source[s] = "none" /\ source' = [source EXCEPT ![s] = "live"]
       \/ source[s] = "live" /\ source' = [source EXCEPT ![s] = "over"]
    /\ UNCHANGED <<client, refs, covered, legacy, mig, pass, admin>>

\* The update creates the row it does not find.
TouchUpserts ==
    /\ client.idle
    /\ client' = IF client.row = "full" THEN [client EXCEPT !.idle = FALSE]
                 ELSE [client EXCEPT !.row = "partial", !.idle = FALSE]
    /\ UNCHANGED <<source, refs, covered, legacy, mig, pass, admin>>

\* touch_last_used
Touch ==
    /\ client.row = "full" /\ client.idle
    /\ client' = [client EXCEPT !.idle = FALSE]
    /\ UNCHANGED <<source, refs, covered, legacy, mig, pass, admin>>

BecomeIdle ==
    /\ client.row = "full" /\ ~client.idle
    /\ \A p \in Passes : pass[p].pc = "idle"
    /\ \A a \in Admins : ~admin[a].on
    /\ client' = [client EXCEPT !.idle = TRUE]
    /\ UNCHANGED <<source, refs, covered, legacy, mig, pass, admin>>

-----------------------------------------------------------------------------
\* Metadata updates: the whole row is written back

AdminRead(a) ==
    /\ ~admin[a].on /\ client.row = "full"
    /\ admin' = [admin EXCEPT ![a] = [on |-> TRUE, seen |-> Snapshot, idle |-> client.idle]]
    /\ UNCHANGED <<client, source, refs, covered, legacy, mig, pass>>

\* Only the credentials' versions are compared.
PutMatchesVersionsOnly(a) == client.row = "full"

\* put_if_credential_versions
PutMatches(a) ==
    /\ client.row = "full" /\ client.tomb = "no" /\ client.rev = admin[a].seen.rev
    /\ client.idle = admin[a].idle

AdminPut(a) ==
    /\ admin[a].on
    /\ client' = IF PutMatches(a)
                   THEN [client EXCEPT !.tomb = admin[a].seen.tomb, !.rev = admin[a].seen.rev,
                                       !.idle = admin[a].idle]
                   ELSE client
    /\ admin' = [admin EXCEPT ![a].on = FALSE]
    /\ UNCHANGED <<source, refs, covered, legacy, mig, pass>>

-----------------------------------------------------------------------------
\* The migration of references

Begin ==
    /\ mig.begun < MaxMigrations
    /\ mig' = [phase |-> "drain", todo |-> {}, begun |-> mig.begun + 1]
    /\ covered' = FALSE
    /\ UNCHANGED <<client, source, refs, legacy, pass, admin>>

\* The requests of the release before have ended when drain_until has passed.
Drained ==
    /\ mig.phase = "drain"
    /\ legacy' = FALSE
    /\ mig' = [mig EXCEPT !.phase = "cleanup", !.todo = refs]
    /\ UNCHANGED <<client, source, refs, covered, pass, admin>>

\* reconcile_reference
CleanupReference(s) ==
    /\ mig.phase = "cleanup" /\ s \in mig.todo
    /\ refs' = IF source[s] = "live" THEN refs ELSE refs \ {s}
    /\ mig' = [mig EXCEPT !.todo = @ \ {s}]
    /\ UNCHANGED <<client, source, covered, legacy, pass, admin>>

\* backfill_code and backfill_refresh; the verification visits everything once more.
Visit(s) ==
    /\ mig.phase \in {"backfill_codes", "backfill_refreshes", "verify_codes", "verify_refreshes"}
    /\ s \in mig.todo
    /\ refs' = IF source[s] = "live" THEN refs \cup {s} ELSE refs
    /\ mig' = [mig EXCEPT !.todo = @ \ {s}]
    /\ UNCHANGED <<client, source, covered, legacy, pass, admin>>

\* The refresh families are taken for migrated with the codes.
NextPhaseSkips(phase) ==
    CASE phase = "cleanup" -> "backfill_codes"
      [] phase = "backfill_codes" -> "verify_codes"
      [] OTHER -> "publish"

NextPhase(phase) ==
    CASE phase = "cleanup" -> "backfill_codes"
      [] phase = "backfill_codes" -> "backfill_refreshes"
      [] phase = "backfill_refreshes" -> "verify_codes"
      [] phase = "verify_codes" -> "verify_refreshes"
      [] OTHER -> "publish"

PageOf(phase) ==
    CASE phase \in {"backfill_codes", "verify_codes"} -> {s \in Codes : source[s] # "none"}
      [] phase \in {"backfill_refreshes", "verify_refreshes"} -> {s \in Families : source[s] # "none"}
      [] OTHER -> {}

\* The last page of a phase; what is written from now on carries its reference.
PhaseDone ==
    /\ mig.phase \notin {"none", "drain", "publish", "complete"} /\ mig.todo = {}
    /\ mig' = [mig EXCEPT !.phase = NextPhase(mig.phase), !.todo = PageOf(NextPhase(mig.phase))]
    /\ UNCHANGED <<client, source, refs, covered, legacy, pass, admin>>

PublishCoverage ==
    /\ mig.phase = "publish"
    /\ covered' = TRUE
    /\ mig' = [mig EXCEPT !.phase = "complete"]
    /\ UNCHANGED <<client, source, refs, legacy, pass, admin>>

-----------------------------------------------------------------------------
\* A reclaim pass over the client

Stop(p) == pass' = [pass EXCEPT ![p] = [pc |-> "idle", seen |-> NoSnapshot]]

\* list_reclaim_candidates; a tombstone is a candidate once its grace period is over.
List(p) ==
    /\ pass[p].pc = "idle" /\ client.row = "full" /\ client.idle /\ client.tomb # "fresh"
    /\ pass' = [pass EXCEPT ![p] = [pc |-> "refresh", seen |-> Snapshot]]
    /\ UNCHANGED <<client, source, refs, covered, legacy, mig, admin>>

\* has_active_family_by_client: an error without coverage.
ReadRefresh(p) ==
    /\ pass[p].pc = "refresh"
    /\ IF covered /\ refs \cap Families = {} THEN pass' = [pass EXCEPT ![p].pc = "code"] ELSE Stop(p)
    /\ UNCHANGED <<client, source, refs, covered, legacy, mig, admin>>

\* has_unexpired_by_client: references of expired codes are below the query's bound.
ReadCode(p) ==
    /\ pass[p].pc = "code"
    /\ IF covered /\ Live(refs \cap Codes) = {} THEN pass' = [pass EXCEPT ![p].pc = "act"] ELSE Stop(p)
    /\ UNCHANGED <<client, source, refs, covered, legacy, mig, admin>>

\* The revision is not compared.
UnchangedSinceListedByDay(p) == client.row = "full" /\ client.tomb = "no"

\* convert_to_tombstone
UnchangedSinceListed(p) ==
    /\ client.row = "full" /\ client.tomb = "no" /\ client.idle
    /\ client.rev = pass[p].seen.rev

Convert(p) ==
    /\ pass[p].pc = "act" /\ pass[p].seen.tomb = "no"
    /\ client' = IF UnchangedSinceListed(p) THEN [client EXCEPT !.tomb = "fresh"] ELSE client
    /\ Stop(p)
    /\ UNCHANGED <<source, refs, covered, legacy, mig, admin>>

\* hard_delete_with_audit
HardDelete(p) ==
    /\ pass[p].pc = "act" /\ pass[p].seen.tomb = "over"
    /\ client' = [client EXCEPT !.row = "deleted"]
    /\ Stop(p)
    /\ UNCHANGED <<source, refs, covered, legacy, mig, admin>>

Crash(p) ==
    /\ pass[p].pc # "idle"
    /\ Stop(p)
    /\ UNCHANGED <<client, source, refs, covered, legacy, mig, admin>>

\* The tombstone has outlived every access token.
GraceOver ==
    /\ client.tomb = "fresh"
    /\ client' = [client EXCEPT !.tomb = "over"]
    /\ UNCHANGED <<source, refs, covered, legacy, mig, pass, admin>>

-----------------------------------------------------------------------------
PassStep(p) == ReadRefresh(p) \/ ReadCode(p) \/ Convert(p) \/ HardDelete(p)

Migrate ==
    \/ Drained \/ PhaseDone \/ PublishCoverage
    \/ \E s \in Sources : CleanupReference(s) \/ Visit(s)

Next ==
    \/ \E s \in Sources : Create(s) \/ End(s) \/ ExpireCode(s) \/ LegacyWrite(s)
    \/ Touch \/ BecomeIdle \/ GraceOver
    \/ \E a \in Admins : AdminRead(a) \/ AdminPut(a)
    \/ Begin \/ Migrate
    \/ \E p \in Passes : List(p) \/ PassStep(p) \/ Crash(p)

Spec == Init /\ [][Next]_vars

-----------------------------------------------------------------------------
\* Once coverage is published, the references show every live code and family, although
\* writers of two releases and the migration's scans overlapped (authority_refs.rs).
CoverageIsComplete == covered => Live(Sources) \subseteq refs

\* No live code or family belongs to a tombstone or to a deleted client, although passes
\* read codes and families at different times (reclaim_one).
NothingDangles == (client.tomb # "no" \/ client.row = "deleted") => Live(Sources) = {}

\* A tombstone is never taken back: a metadata update that read the client before does not
\* revive it (put_if_credential_versions).
TombstoneStays == client.tomb # "no" => client'.tomb # "no"

\* A client that stays idle and unreferenced is deleted.
Reclaimable == client.row = "full" /\ client.idle /\ covered /\ Live(Sources) = {}
=============================================================================
