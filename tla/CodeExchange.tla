---------------------------- MODULE CodeExchange ----------------------------
(***************************************************************************)
(* The exchange of one authorization code at POST /token                   *)
(* (crates/http/src/token.rs) by concurrent requests: the signing lease,   *)
(* the authority gates, finalization, the creation of the refresh family   *)
(* and the Grant, replay detection and the cleanup of every error path.    *)
(*                                                                         *)
(* A request is a process; between two of its actions lies an await of the *)
(* code.  A process that has answered may send the code again: its new     *)
(* attempt draws a new lease owner, and since the old attempt is over the  *)
(* process itself can stand for both.  The family id an attempt draws is   *)
(* also the id of its Grant and is named by the process too.               *)
(*                                                                         *)
(* A crash, a call whose answer is lost and an error answer that writes    *)
(* nothing end an attempt the same way (Abort).  Answers that write        *)
(* nothing at all (Locked, NotFound) are no step.  Only expiry of the code *)
(* and of the lease matter of time, so they are flags; each is read in the *)
(* step of the store call whose condition compares it.                     *)
(***************************************************************************)
EXTENDS Naturals, Sequences

CONSTANTS
    Requests,   \* processes that present the code
    BadClient,  \* those that fail client authentication
    BadProof,   \* those whose redirect_uri, PKCE verifier or resource is wrong
    NoOne,
    HasSession, \* the code belongs to an authorization session
    Flavors,    \* what the code grants: see flavor
    MaxFaults   \* bound: crashes and failed calls

ExchangeAssumption ==
    /\ NoOne \notin Requests /\ BadClient \subseteq Requests /\ BadProof \subseteq Requests
    /\ HasSession \in BOOLEAN /\ Flavors \subseteq {"plain", "workload", "rar"}
    /\ MaxFaults \in Nat

VARIABLES
    code,     \* the code record
    session,  \* state of its authorization session
    fam,      \* refresh families by the attempt that drew their id
    grant,    \* Grants, likewise
    changed,  \* parts of the user's authority that no longer match the code
    flavor,   \* "workload": consent to an actor; "rar": only the Grant holds the RAR
    proc,     \* requests
    faults,   \* faults so far
    issued,   \* history: token responses sent
    replayed  \* history: a replay was answered after it had revoked everything

vars == <<code, session, fam, grant, changed, flavor, proc, faults, issued, replayed>>
authority == <<fam, grant>>
context == <<changed, flavor, faults>>
history == <<issued, replayed>>

PCs == {"idle", "checks", "epoch", "password", "sign", "consume", "release", "session",
        "family", "postepoch", "postpassword", "grant", "reuse", "finalepoch",
        "finalpassword", "replay", "cleanup"}

Status == {"none", "active", "revoked"}

\* todo: what a cleanup still revokes; reuse: a replay asked for the cleanup.
Idle == [pc |-> "idle", seen |-> NoOne, todo |-> <<>>, reuse |-> FALSE, failed |-> FALSE]

Todos == {<<>>, <<"family">>, <<"grant">>, <<"family", "grant">>, <<"grant", "family">>}

Attempts == [pc : PCs, seen : Requests \cup {NoOne}, todo : Todos, reuse : BOOLEAN,
             failed : BOOLEAN]

TypeOK ==
    /\ code \in [consumed : BOOLEAN, owner : Requests \cup {NoOne}, lapsed : BOOLEAN,
                 issuedTo : Requests \cup {NoOne}, replay : BOOLEAN, expired : BOOLEAN]
    /\ code.lapsed => code.owner # NoOne
    /\ code.owner # NoOne => ~code.consumed /\ code.issuedTo = NoOne
    /\ session \in {"awaiting", "complete", "exchange_failed"}
    /\ fam \in [Requests -> Status] /\ grant \in [Requests -> Status]
    /\ changed \subseteq {"epoch", "password"} /\ flavor \in Flavors
    /\ proc \in [Requests -> Attempts]
    /\ faults \in Nat /\ issued \in Nat /\ replayed \in BOOLEAN

\* A code that /authorize has just stored (put_authorized).
Init ==
    /\ code = [consumed |-> FALSE, owner |-> NoOne, lapsed |-> FALSE, issuedTo |-> NoOne,
               replay |-> FALSE, expired |-> FALSE]
    /\ session = "awaiting" /\ changed = {} /\ flavor \in Flavors
    /\ fam = [r \in Requests |-> "none"] /\ grant = [r \in Requests |-> "none"]
    /\ proc = [r \in Requests |-> Idle]
    /\ faults = 0 /\ issued = 0 /\ replayed = FALSE

Goto(r, pc) == proc' = [proc EXCEPT ![r].pc = pc]
Return(r)   == proc' = [proc EXCEPT ![r] = Idle]

\* revoke what the attempt, or the one it replays, created; then answer.
Cleanup(r, todo) == proc' = [proc EXCEPT ![r].pc = "cleanup", ![r].todo = todo]

-----------------------------------------------------------------------------
\* The code store

\* The lease is taken even though its time is not over.
LeaseFreeAlways == TRUE

\* The time to live is not compared.
LeaseFreeOnRelease == code.owner = NoOne

LeaseFree == code.owner = NoOne \/ code.lapsed

\* acquire_lease: Acquired.
Acquire(r) ==
    /\ proc[r].pc = "idle" /\ ~code.consumed /\ ~code.expired /\ LeaseFree
    /\ code' = [code EXCEPT !.owner = r, !.lapsed = FALSE]
    /\ Goto(r, "checks")
    /\ UNCHANGED <<session, authority, context, history>>

\* acquire_lease: AlreadyConsumed, with the id of what the code was exchanged for.
AlreadyConsumed(r) ==
    /\ proc[r].pc = "idle" /\ code.consumed /\ ~code.expired
    /\ proc' = [proc EXCEPT ![r].pc = "replay", ![r].seen = code.issuedTo]
    /\ UNCHANGED <<code, session, authority, context, history>>

\* The condition of finalize, release_lease and the exchange failure.
OwnLease(r) == ~code.consumed /\ code.owner = r /\ ~code.expired

\* release_lease by reject! and the throttling gates; its result is ignored.
Release(r) ==
    /\ proc[r].pc = "release"
    /\ code' = IF OwnLease(r) THEN [code EXCEPT !.owner = NoOne, !.lapsed = FALSE] ELSE code
    /\ Return(r)
    /\ UNCHANGED <<session, authority, context, history>>

\* The conditions of the transaction that consumes the code of a failed exchange.
FailureCommits(r) == OwnLease(r) /\ (HasSession => session = "awaiting")

\* The session is written on its own, whatever became of the code.
ConsumeFailureInTwo(r) ==
    /\ proc[r].pc = "consume"
    /\ code' = IF OwnLease(r) THEN [code EXCEPT !.consumed = TRUE, !.owner = NoOne, !.lapsed = FALSE]
                              ELSE code
    /\ session' = IF session = "awaiting" THEN "exchange_failed" ELSE session
    /\ Return(r)
    /\ UNCHANGED <<authority, context, history>>

\* reject_consumed!: finalize_exchange_failure, one transaction.
ConsumeFailure(r) ==
    /\ proc[r].pc = "consume"
    /\ IF FailureCommits(r)
         THEN /\ code' = [code EXCEPT !.consumed = TRUE, !.owner = NoOne, !.lapsed = FALSE]
              /\ session' = IF HasSession THEN "exchange_failed" ELSE session
         ELSE UNCHANGED <<code, session>>
    /\ Return(r)
    /\ UNCHANGED <<authority, context, history>>

-----------------------------------------------------------------------------
\* The first exchange

\* Client authentication, then the redirect_uri, PKCE and resource checks.
Authenticate(r) ==
    /\ proc[r].pc = "checks"
    /\ Goto(r, CASE r \in BadClient -> "release"
                 [] r \in BadProof \ BadClient -> "consume"
                 [] OTHER -> "epoch")
    /\ UNCHANGED <<code, session, authority, context, history>>

\* require_active_user_epoch and require_password_authority_version before signing.
Gate(r, here, part, next) ==
    /\ proc[r].pc = here
    /\ Goto(r, IF part \in changed THEN "consume" ELSE next)
    /\ UNCHANGED <<code, session, authority, context, history>>

\* finalize forgets to remove the lease.
FinalizeKeepsLease(r) ==
    /\ proc[r].pc = "sign" /\ OwnLease(r)
    /\ code' = [code EXCEPT !.consumed = TRUE, !.issuedTo = r]
    /\ proc' = [proc EXCEPT ![r].pc = "session", ![r].seen = r]
    /\ UNCHANGED <<session, authority, context, history>>

\* The access token is signed; finalize binds the code to the new family id.
Finalize(r) ==
    /\ proc[r].pc = "sign" /\ OwnLease(r)
    /\ code' = [code EXCEPT !.consumed = TRUE, !.owner = NoOne, !.lapsed = FALSE,
                            !.issuedTo = r]
    /\ proc' = [proc EXCEPT ![r].pc = "session", ![r].seen = r]
    /\ UNCHANGED <<session, authority, context, history>>

\* A code that another request exchanged meanwhile is taken for exchanged by this one.
FinalizeRefusedGoesOn(r) ==
    /\ proc[r].pc = "sign" /\ ~OwnLease(r)
    /\ IF code.issuedTo = NoOne THEN Return(r)
       ELSE proc' = [proc EXCEPT ![r].pc = "session", ![r].seen = r]
    /\ UNCHANGED <<code, session, authority, context, history>>

\* finalize fails: no token, and the lease is left to its time to live.
FinalizeRefused(r) ==
    /\ proc[r].pc = "sign" /\ ~OwnLease(r)
    /\ Return(r)
    /\ UNCHANGED <<code, session, authority, context, history>>

\* authz_session::transition to complete, a side record whose failure is ignored.
CompleteSession(r) ==
    /\ proc[r].pc = "session"
    /\ session' = IF session = "awaiting" THEN "complete" ELSE session
    /\ Goto(r, "family")
    /\ UNCHANGED <<code, authority, context, history>>

\* refresh.create.
CreateFamily(r) ==
    /\ proc[r].pc = "family"
    /\ fam' = [fam EXCEPT ![r] = "active"]
    /\ Goto(r, "postepoch")
    /\ UNCHANGED <<code, session, grant, context, history>>

\* The gates after creation; a change drops the family that was just made.
PostGate(r, here, part, next) ==
    /\ proc[r].pc = here
    /\ IF part \in changed THEN Cleanup(r, <<"family">>) ELSE Goto(r, next)
    /\ UNCHANGED <<code, session, authority, context, history>>

\* Where the handler goes once it knows which of the two records exist.
AfterCreation(r, granted) ==
    LET made == fam[r] # "none"
    IN CASE flavor = "workload" /\ ~(granted /\ made) -> Cleanup(r, <<"family", "grant">>)
         [] flavor = "rar" /\ ~granted                -> Cleanup(r, <<"family">>)
         [] flavor = "plain" /\ ~granted /\ ~made     -> Return(r)
         [] OTHER                                     -> Goto(r, "reuse")

\* put_grant_for_client.
CreateGrant(r) ==
    /\ proc[r].pc = "grant"
    /\ grant' = [grant EXCEPT ![r] = "active"]
    /\ AfterCreation(r, TRUE)
    /\ UNCHANGED <<code, session, fam, context, history>>

\* put_grant_for_client: the client was removed; the family goes as well.
GrantConflict(r) ==
    /\ proc[r].pc = "grant"
    /\ Cleanup(r, <<"family">>)
    /\ UNCHANGED <<code, session, authority, context, history>>

\* The handler does not look whether the code came again.
CheckReplayNever(r) ==
    /\ proc[r].pc = "reuse"
    /\ Goto(r, "finalepoch")
    /\ UNCHANGED <<code, session, authority, context, history>>

\* replay_detected, a strong read after the last of the two records was written.
CheckReplay(r) ==
    /\ proc[r].pc = "reuse"
    /\ IF code.replay THEN Cleanup(r, <<"grant", "family">>) ELSE Goto(r, "finalepoch")
    /\ UNCHANGED <<code, session, authority, context, history>>

\* A refused response leaves the Grant behind.
FinalEpochKeepsGrant(r) ==
    /\ proc[r].pc = "finalepoch"
    /\ IF "epoch" \in changed THEN Cleanup(r, <<"family">>) ELSE Goto(r, "finalpassword")
    /\ UNCHANGED <<code, session, authority, context, history>>

\* The last reads of the user's authority.
FinalEpoch(r) ==
    /\ proc[r].pc = "finalepoch"
    /\ IF "epoch" \in changed THEN Cleanup(r, <<"family", "grant">>) ELSE Goto(r, "finalpassword")
    /\ UNCHANGED <<code, session, authority, context, history>>

FinalPassword(r) ==
    /\ proc[r].pc = "finalpassword"
    /\ IF "password" \in changed
         THEN Cleanup(r, <<"family", "grant">>) /\ UNCHANGED issued
         ELSE Return(r) /\ issued' = issued + 1
    /\ UNCHANGED <<code, session, authority, context, replayed>>

-----------------------------------------------------------------------------
\* A replay, and the revocations of every path

\* A replay that proves neither client nor binding is only refused.
ReplayRejected(r) ==
    /\ proc[r].pc = "replay" /\ r \in BadClient \cup BadProof
    /\ Return(r)
    /\ UNCHANGED <<code, session, authority, context, history>>

\* record_replay: the marker goes first, the revocation follows.
RecordReplay(r) ==
    /\ proc[r].pc = "replay" /\ r \notin BadClient \cup BadProof
    /\ IF code.expired
         THEN Return(r) /\ UNCHANGED code
         ELSE /\ code' = [code EXCEPT !.replay = TRUE]
              /\ proc' = [proc EXCEPT ![r].pc = "cleanup", ![r].reuse = TRUE,
                    ![r].todo = IF proc[r].seen = NoOne THEN <<>> ELSE <<"grant", "family">>]
    /\ UNCHANGED <<session, authority, context, history>>

\* revoke of a record that may not be there, which is no error.
Revoked(records, id) ==
    IF records[id] = "active" THEN [records EXCEPT ![id] = "revoked"] ELSE records

\* The next revocation of the cleanup.
Revoke(r) ==
    /\ proc[r].pc = "cleanup" /\ proc[r].todo # <<>>
    /\ fam' = IF Head(proc[r].todo) = "family" THEN Revoked(fam, proc[r].seen) ELSE fam
    /\ grant' = IF Head(proc[r].todo) = "grant" THEN Revoked(grant, proc[r].seen) ELSE grant
    /\ proc' = [proc EXCEPT ![r].todo = Tail(@)]
    /\ UNCHANGED <<code, session, context, history>>

\* Only a replay whose revocations all succeeded answers that the code was used.
Cleaned(r) ==
    /\ proc[r].pc = "cleanup" /\ proc[r].todo = <<>>
    /\ replayed' = (replayed \/ (proc[r].reuse /\ ~proc[r].failed))
    /\ Return(r)
    /\ UNCHANGED <<code, session, authority, context, issued>>

-----------------------------------------------------------------------------
\* Faults and the rest of the system

Fault == faults < MaxFaults /\ faults' = faults + 1

\* The handler dies, or a store error ends it.
Abort(r) ==
    /\ proc[r].pc # "idle" /\ Fault /\ Return(r)
    /\ UNCHANGED <<code, session, authority, changed, flavor, history>>

\* An unavailable store, a rate limit or a signing failure before finalize.
Transient(r) ==
    /\ proc[r].pc \in {"checks", "epoch", "password", "sign"} /\ Fault
    /\ Goto(r, "release")
    /\ UNCHANGED <<code, session, authority, changed, flavor, history>>

\* refresh.create or put_grant_for_client fails; the handler goes on.
CreationFails(r) ==
    /\ Fault
    /\ \/ proc[r].pc = "family" /\ Goto(r, "postepoch")
       \/ proc[r].pc = "grant" /\ AfterCreation(r, FALSE)
    /\ UNCHANGED <<code, session, authority, changed, flavor, history>>

\* A read after creation fails, which counts as a change or a replay.
CheckFails(r) ==
    /\ Fault
    /\ \/ proc[r].pc \in {"postepoch", "postpassword"} /\ Cleanup(r, <<"family">>)
       \/ proc[r].pc = "reuse" /\ Cleanup(r, <<"grant", "family">>)
       \/ proc[r].pc \in {"finalepoch", "finalpassword"} /\ Cleanup(r, <<"family", "grant">>)
    /\ UNCHANGED <<code, session, authority, changed, flavor, history>>

\* A revocation fails; the remaining ones are still tried.
RevokeFails(r) ==
    /\ proc[r].pc = "cleanup" /\ proc[r].todo # <<>> /\ Fault
    /\ proc' = [proc EXCEPT ![r].todo = Tail(@), ![r].failed = TRUE]
    /\ UNCHANGED <<code, session, authority, changed, flavor, history>>

Lapse ==
    /\ code.owner # NoOne /\ ~code.lapsed
    /\ code' = [code EXCEPT !.lapsed = TRUE]
    /\ UNCHANGED <<session, authority, context, proc, history>>

Expire ==
    /\ ~code.expired
    /\ code' = [code EXCEPT !.expired = TRUE]
    /\ UNCHANGED <<session, authority, context, proc, history>>

\* A credential change first raises the epoch and then stages the password.
ChangeAuthority ==
    /\ \/ changed = {} /\ changed' = {"epoch"}
       \/ changed = {"epoch"} /\ changed' = {"epoch", "password"}
    /\ UNCHANGED <<code, session, authority, flavor, proc, faults, history>>

Continue(r) ==
    \/ Authenticate(r)
    \/ Gate(r, "epoch", "epoch", "password") \/ Gate(r, "password", "password", "sign")
    \/ Finalize(r) \/ FinalizeRefused(r) \/ Release(r) \/ ConsumeFailure(r)
    \/ CompleteSession(r) \/ CreateFamily(r)
    \/ PostGate(r, "postepoch", "epoch", "postpassword")
    \/ PostGate(r, "postpassword", "password", "grant")
    \/ CreateGrant(r) \/ CheckReplay(r) \/ FinalEpoch(r) \/ FinalPassword(r)
    \/ ReplayRejected(r) \/ RecordReplay(r) \/ Revoke(r) \/ Cleaned(r)

Interfere(r) ==
    \/ GrantConflict(r)
    \/ Abort(r) \/ Transient(r) \/ CreationFails(r) \/ CheckFails(r) \/ RevokeFails(r)

Next ==
    \/ \E r \in Requests : Acquire(r) \/ AlreadyConsumed(r) \/ Continue(r) \/ Interfere(r)
    \/ Lapse \/ Expire \/ ChangeAuthority

Spec == Init /\ [][Next]_vars

-----------------------------------------------------------------------------
\* Properties

\* However leases lapse and attempts overtake each other, one code yields one
\* token response and one family at most.
SingleIssue ==
    /\ issued <= 1
    /\ \A q, r \in Requests : fam[q] # "none" /\ fam[r] # "none" => q = r

\* Once a replay has been answered as such, nothing the code was exchanged for is
\* usable, whether its tokens left before, during or after the replay.
ReplayRevokes ==
    replayed /\ issued > 0 => \A r \in Requests : fam[r] # "active" /\ grant[r] # "active"

\* The session tells what became of the code: complete only when it was bound to a
\* family, exchange_failed only when it was consumed and never yields anything.
SessionTruthful ==
    /\ session = "complete" => code.issuedTo # NoOne
    /\ session = "exchange_failed" =>
         code.consumed /\ code.issuedTo = NoOne /\ issued = 0 /\ \A r \in Requests : fam[r] = "none"

\* An exchange that hands out nothing leaves no live family or Grant behind, unless
\* a call failed or a handler died, and the session tells what became of the code.
NoStrandedAuthority ==
    /\ (\A r \in Requests : proc[r].pc = "idle") /\ faults = 0 /\ issued = 0
         => \A r \in Requests : fam[r] # "active" /\ grant[r] # "active"
    /\ SessionTruthful

\* The state of the code as a signing lease.
LeaseOfCode ==
    CASE code.consumed /\ code.issuedTo # NoOne -> "Finalized"
      [] code.consumed /\ code.issuedTo = NoOne -> "ExchangeFailed"
      [] ~code.consumed /\ code.owner # NoOne   -> "Signing"
      [] OTHER                                  -> "Idle"

\* The lease is held while the code names an owner, and is over with the code's
\* consumption.
Lease == INSTANCE SigningLease WITH
    Holders <- Requests, NoHolder <- NoOne, Credential <- "Code",
    lease <- LeaseOfCode, holder <- code.owner, lapsed <- code.lapsed

\* The code store implements the two-phase signing lease of lease.rs.
ImplementsLease == Lease!Spec
=============================================================================
