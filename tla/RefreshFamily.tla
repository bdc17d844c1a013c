--------------------------- MODULE RefreshFamily ---------------------------
(***************************************************************************)
(* Rotation of one refresh token family (crates/http/src/refresh_flow.rs)  *)
(* by concurrent token requests, with everything that can revoke it:       *)
(* reuse detection, POST /revoke, DELETE /grants/{id} and changes of the   *)
(* user's credentials or status.  Families share no state, so one family   *)
(* is modelled.                                                            *)
(*                                                                         *)
(* A handler is a process; between two of its actions lies an await of the *)
(* code.  It holds pc, the operation op, the presented version ver, the    *)
(* request req (fingerprint, client and DPoP key: what the grace cache     *)
(* compares), the family as it read it (seen, dead), its lease owner and   *)
(* lease expiry (owner, until), the clock reading at it took for the next  *)
(* store call, bad (the password check after issuing failed) and failed (a *)
(* cleanup call failed).                                                   *)
(*                                                                         *)
(* The lease owner is a fresh random string, here an owner nobody uses.    *)
(* Every attempt signs at most once, so the owner also names the signed    *)
(* token.  An error response that writes nothing and a crash end a handler *)
(* the same way (Abort).                                                   *)
(***************************************************************************)
EXTENDS Integers

CONSTANTS
    Procs,       \* concurrent handlers
    Requests,    \* fingerprint and identity of a token request
    Owners,      \* lease owners; bound: one for every rotation and attempt
    NoOwner,     \* no lease
    LeaseTtl,    \* REFRESH_LEASE_TTL_SECS
    GraceWindow, \* grace_window_secs
    Version,     \* the version whose signing lease ImplementsLease follows
    MaxTime,     \* bound: the clock
    MaxFaults    \* bound: crashes and failed calls

ASSUME RefreshAssumption ==
    /\ Requests # {} /\ NoOwner \notin Owners
    /\ LeaseTtl \in Nat \ {0} /\ GraceWindow \in Nat \ {0}
    /\ {Version, MaxTime, MaxFaults} \subseteq Nat

VARIABLES
    fam,     \* the family record with its signing lease
    grace,   \* the grace cache: responses kept for the version they replaced
    grant,   \* status of the family's Grant
    changed, \* which parts of the user's authority the family no longer matches
    proc,    \* handlers
    now,     \* the clock
    faults,  \* faults so far
    minted,  \* history: rotations that committed
    answers, \* history: token responses sent
    acked    \* history: operations in Final reported as done

vars == <<fam, grace, grant, changed, proc, now, faults, minted, answers, acked>>
history == <<minted, answers, acked>>
authority == <<grant, changed>>

PCs == {"idle", "grant", "epoch", "password", "validate", "probe", "reprobe",
        "lease", "sign", "release", "finalize", "post", "postepoch",
        "stage", "revoke", "delete"}

Ops == {"none", "refresh", "endpoint", "grant", "authority"}

\* Operations whose success means that no later request may get a token.
Final == {"refresh", "grant", "authority"}

\* Where a rotation lies relative to the change of the user's authority.
Phases == {"before", "during", "after"}

Idle == [pc |-> "idle", op |-> "none", ver |-> 0, req |-> CHOOSE r \in Requests : TRUE,
         seen |-> 0, dead |-> FALSE, owner |-> NoOwner, until |-> 0, at |-> 0,
         bad |-> FALSE, failed |-> FALSE, late |-> FALSE]

HandlerState ==
    [pc : PCs, op : Ops, ver : Nat, req : Requests, seen : Nat, dead : BOOLEAN,
     owner : Owners \cup {NoOwner}, until : Nat, at : Nat, bad : BOOLEAN, failed : BOOLEAN,
     late : BOOLEAN]

TypeOK ==
    /\ fam \in [version : Nat, revoked : BOOLEAN, owner : Owners \cup {NoOwner}, until : Nat]
    /\ grace \subseteq [ver : Nat, req : Requests, token : Owners, expires : Nat]
    /\ grant \in {"live", "revoked"}
    /\ changed \subseteq {"epoch", "password"}
    /\ proc \in [Procs -> HandlerState]
    /\ now \in Nat /\ faults \in Nat
    /\ minted \subseteq [ver : Nat, req : Requests, token : Owners, phase : Phases]
    /\ answers \subseteq
         [ver : Nat, req : Requests, token : Owners, fresh : BOOLEAN, late : BOOLEAN]
    /\ acked \subseteq Final

\* A family that code exchange has just created.
Init ==
    /\ fam = [version |-> 0, revoked |-> FALSE, owner |-> NoOwner, until |-> 0]
    /\ grace = {} /\ grant = "live" /\ changed = {}
    /\ proc = [p \in Procs |-> Idle]
    /\ now = 0 /\ faults = 0
    /\ minted = {} /\ answers = {} /\ acked = {}

Goto(p, pc) == proc' = [proc EXCEPT ![p].pc = pc]
Return(p)   == proc' = [proc EXCEPT ![p] = Idle]

-----------------------------------------------------------------------------
\* POST /token, grant_type=refresh_token

\* A token request as it arrives.
Presented(v, r) == [Idle EXCEPT !.pc = "grant", !.op = "refresh", !.ver = v, !.req = r]

\* load_authenticated: the family's client presents a version it was given.
Load(p, v, r) ==
    /\ proc[p].pc = "idle" /\ v <= fam.version
    /\ proc' = [proc EXCEPT ![p] =
          [Presented(v, r) EXCEPT !.seen = fam.version, !.dead = fam.revoked,
                                  !.late = acked \cap Final # {}]]
    /\ UNCHANGED <<fam, grace, authority, now, faults, history>>

\* load_authenticated: another client presents a replaced version.
LoadNotOwner(p, v) ==
    /\ proc[p].pc = "idle" /\ v < fam.version
    /\ proc' = [proc EXCEPT ![p] = [Idle EXCEPT !.pc = "revoke", !.op = "refresh"]]
    /\ UNCHANGED <<fam, grace, authority, now, faults, history>>

\* run_account_gates: the Grant is usable.
GrantGate(p) ==
    /\ proc[p].pc = "grant"
    /\ IF grant = "live" THEN Goto(p, "epoch") ELSE Return(p)
    /\ UNCHANGED <<fam, grace, authority, now, faults, history>>

\* A permanent error of the Grant store counts as a family without a Grant.
GrantUnknown(p) ==
    /\ proc[p].pc = "grant" /\ faults < MaxFaults
    /\ Goto(p, "epoch")
    /\ faults' = faults + 1
    /\ UNCHANGED <<fam, grace, authority, now, history>>

\* Mutant: the user's status and epoch are not looked up.
EpochGateSkipped(p) ==
    /\ proc[p].pc = "epoch"
    /\ Goto(p, "password")
    /\ UNCHANGED <<fam, grace, authority, now, faults, history>>

\* run_account_gates: the user is active, in the family's credential epoch.
EpochGate(p) ==
    /\ proc[p].pc = "epoch"
    /\ IF "epoch" \notin changed THEN Goto(p, "password") ELSE Return(p)
    /\ UNCHANGED <<fam, grace, authority, now, faults, history>>

\* run_account_gates: the password is the family's.
PasswordGate(p) ==
    /\ proc[p].pc = "password"
    /\ IF "password" \notin changed THEN Goto(p, "validate") ELSE Return(p)
    /\ UNCHANGED <<fam, grace, authority, now, faults, history>>

\* prepare_issuance: a DPoP proof that is missing or of another key.
MismatchedProof(p) ==
    /\ proc[p].pc = "validate"
    /\ IF proc[p].ver < proc[p].seen THEN Goto(p, "revoke") ELSE Return(p)
    /\ UNCHANGED <<fam, grace, authority, now, faults, history>>

\* RefreshFamily::consume on the family as it was read.
ConsumeRevoked(p) ==
    /\ proc[p].pc = "validate" /\ proc[p].dead
    /\ Goto(p, "revoke")
    /\ UNCHANGED <<fam, grace, authority, now, faults, history>>

ConsumeReuse(p) ==
    /\ proc[p].pc = "validate" /\ ~proc[p].dead /\ proc[p].ver # proc[p].seen
    /\ Goto(p, "probe")
    /\ UNCHANGED <<fam, grace, authority, now, faults, history>>

\* new_jti: nobody else has drawn this owner.
Fresh(n) ==
    /\ fam.owner # n
    /\ \A q \in Procs : proc[q].owner # n
    /\ \A m \in minted : m.token # n

ConsumeCurrent(p) ==
    /\ proc[p].pc = "validate" /\ ~proc[p].dead /\ proc[p].ver = proc[p].seen
    /\ \E n \in Owners :
         /\ Fresh(n)
         /\ proc' = [proc EXCEPT ![p].pc = "lease", ![p].owner = n, ![p].at = now]
    /\ UNCHANGED <<fam, grace, authority, now, faults, history>>

\* Mutant: the fingerprint and the identity are not compared.
GraceHitAnyRequest(e, v, r) == e.ver = v /\ now < e.expires

\* read_current_grace and decide: the kept response answers this request.
GraceHit(e, v, r) == e.ver = v /\ e.req = r /\ now < e.expires

\* probe_grace returns the kept response.
ProbeHit(p) ==
    /\ proc[p].pc \in {"probe", "reprobe"}
    /\ \E e \in grace :
         /\ GraceHit(e, proc[p].ver, proc[p].req)
         /\ answers' = answers \cup
              {[ver |-> proc[p].ver, req |-> proc[p].req, token |-> e.token,
                fresh |-> FALSE, late |-> proc[p].late]}
    /\ Return(p)
    /\ UNCHANGED <<fam, grace, authority, now, faults, minted, acked>>

\* A miss is reuse, except behind a lease that found the version replaced:
\* the handler had read the family before that rotation and asks for a retry.
AfterMiss(p) == IF proc[p].pc = "probe" THEN Goto(p, "revoke") ELSE Return(p)

ProbeMiss(p) ==
    /\ proc[p].pc \in {"probe", "reprobe"}
    /\ ~\E e \in grace : GraceHit(e, proc[p].ver, proc[p].req)
    /\ AfterMiss(p)
    /\ UNCHANGED <<fam, grace, authority, now, faults, history>>

\* A permanent error of the cache counts as a miss.
ProbeFails(p) ==
    /\ proc[p].pc \in {"probe", "reprobe"} /\ faults < MaxFaults
    /\ AfterMiss(p)
    /\ faults' = faults + 1
    /\ UNCHANGED <<fam, grace, authority, now, history>>

-----------------------------------------------------------------------------
\* The signing lease

\* Mutant: a lease is taken over one instant too early.
LeaseFreeEarly(at) == fam.owner = NoOwner \/ fam.until <= at + 1

\* Mutant: a lease ends only when its owner gives it back.
LeaseFreeUnexpired(at) == fam.owner = NoOwner

LeaseFree(at) == fam.owner = NoOwner \/ fam.until <= at

\* acquire_lease: Acquired
AcquireLease(p) ==
    /\ proc[p].pc = "lease"
    /\ ~fam.revoked /\ fam.version = proc[p].ver /\ LeaseFree(proc[p].at)
    /\ fam' = [fam EXCEPT !.owner = proc[p].owner, !.until = proc[p].at + LeaseTtl]
    /\ proc' = [proc EXCEPT ![p].pc = "sign", ![p].until = proc[p].at + LeaseTtl]
    /\ UNCHANGED <<grace, authority, now, faults, history>>

\* acquire_lease: Revoked, VersionMismatch or Locked, in this order
LeaseRefused(p) ==
    /\ proc[p].pc = "lease"
    /\ CASE fam.revoked -> Goto(p, "revoke")
         [] ~fam.revoked /\ fam.version # proc[p].ver -> Goto(p, "reprobe")
         [] ~fam.revoked /\ fam.version = proc[p].ver -> ~LeaseFree(proc[p].at) /\ Return(p)
    /\ UNCHANGED <<fam, grace, authority, now, faults, history>>

\* The quota gates and the signer succeed; the clock is read for finalize.
Sign(p) ==
    /\ proc[p].pc = "sign"
    /\ proc' = [proc EXCEPT ![p].pc = "finalize", ![p].at = now]
    /\ UNCHANGED <<fam, grace, authority, now, faults, history>>

SignFails(p) ==
    /\ proc[p].pc = "sign" /\ faults < MaxFaults
    /\ Goto(p, "release")
    /\ faults' = faults + 1
    /\ UNCHANGED <<fam, grace, authority, now, history>>

\* release_lease touches only the caller's own lease.
ReleaseLease(p) ==
    /\ proc[p].pc = "release"
    /\ fam' = IF fam.version = proc[p].ver /\ fam.owner = proc[p].owner
              THEN [fam EXCEPT !.owner = NoOwner, !.until = 0] ELSE fam
    /\ Return(p)
    /\ UNCHANGED <<grace, authority, now, faults, history>>

\* Mutant: a revoked family can still be finalized.
FinalizableWhenRevoked(p) ==
    /\ fam.version = proc[p].ver
    /\ fam.owner = proc[p].owner /\ fam.until > proc[p].at

\* Mutant: the lease of the version is not compared.
FinalizableUnowned(p) ==
    /\ ~fam.revoked /\ fam.version = proc[p].ver
    /\ \A e \in grace : e.ver # proc[p].ver

\* The condition of the finalize transaction.
Finalizable(p) ==
    /\ ~fam.revoked /\ fam.version = proc[p].ver
    /\ fam.owner = proc[p].owner /\ fam.until > proc[p].at
    /\ \A e \in grace : e.ver # proc[p].ver

\* Mutant: the window is subtracted.
GraceEntryInPast(p) ==
    [ver |-> proc[p].ver, req |-> proc[p].req, token |-> proc[p].owner,
     expires |-> proc[p].at - GraceWindow]

GraceEntry(p) ==
    [ver |-> proc[p].ver, req |-> proc[p].req, token |-> proc[p].owner,
     expires |-> proc[p].at + GraceWindow]

Phase == CASE "epoch" \notin changed -> "before"
           [] "epoch" \in changed /\ "authority" \notin acked -> "during"
           [] OTHER -> "after"

\* One transaction: the version moves, the lease goes, the response is kept.
Rotate(p) ==
    /\ fam' = [fam EXCEPT !.version = @ + 1, !.owner = NoOwner, !.until = 0]
    /\ grace' = grace \cup {GraceEntry(p)}
    /\ minted' = minted \cup
         {[ver |-> proc[p].ver, req |-> proc[p].req, token |-> proc[p].owner,
           phase |-> Phase]}

FinalizeRotation(p) ==
    /\ proc[p].pc = "finalize" /\ Finalizable(p)
    /\ Rotate(p)
    /\ Goto(p, "post")
    /\ UNCHANGED <<authority, now, faults, answers, acked>>

FinalizeRefused(p) ==
    /\ proc[p].pc = "finalize" /\ ~Finalizable(p)
    /\ Return(p)
    /\ UNCHANGED <<fam, grace, authority, now, faults, history>>

\* The transaction commits and its answer is lost: the client is told to come
\* back when the lease expires.
FinalizeAnswerLost(p) ==
    /\ proc[p].pc = "finalize" /\ Finalizable(p) /\ faults < MaxFaults
    /\ Rotate(p)
    /\ Return(p)
    /\ faults' = faults + 1
    /\ UNCHANGED <<authority, now, answers, acked>>

\* The password is read again after the rotation ...
PostPassword(p) ==
    /\ proc[p].pc = "post"
    /\ proc' = [proc EXCEPT ![p].pc = "postepoch", ![p].bad = "password" \in changed]
    /\ UNCHANGED <<fam, grace, authority, now, faults, history>>

Answer(p) ==
    /\ answers' = answers \cup
         {[ver |-> proc[p].ver, req |-> proc[p].req, token |-> proc[p].owner,
           fresh |-> TRUE, late |-> proc[p].late]}
    /\ Return(p)

\* Mutant: only the password is read again.
PostPasswordOnly(p) ==
    /\ proc[p].pc = "postepoch"
    /\ IF proc[p].bad
       THEN Goto(p, "revoke") /\ UNCHANGED answers
       ELSE Answer(p)
    /\ UNCHANGED <<fam, grace, authority, now, faults, minted, acked>>

\* ... and then the epoch; the response is sent only if both still match.
PostEpoch(p) ==
    /\ proc[p].pc = "postepoch"
    /\ IF proc[p].bad \/ "epoch" \in changed
       THEN Goto(p, "revoke") /\ UNCHANGED answers
       ELSE Answer(p)
    /\ UNCHANGED <<fam, grace, authority, now, faults, minted, acked>>

\* A check that cannot be made counts as failed.
PostLookupFails(p) ==
    /\ proc[p].pc \in {"post", "postepoch"} /\ faults < MaxFaults
    /\ proc' = [proc EXCEPT ![p] = [@ EXCEPT !.pc = "postepoch", !.bad = TRUE]]
    /\ faults' = faults + 1
    /\ UNCHANGED <<fam, grace, authority, now, history>>

-----------------------------------------------------------------------------
\* Revocation: first the family, then its kept responses.

\* POST /revoke by the family's client.
RevokeEndpoint(p) ==
    /\ proc[p].pc = "idle"
    /\ proc' = [proc EXCEPT ![p] = [Idle EXCEPT !.pc = "revoke", !.op = "endpoint"]]
    /\ UNCHANGED <<fam, grace, authority, now, faults, history>>

\* DELETE /grants/{id}: the Grant is revoked before the family.
RevokeGrant(p) ==
    /\ proc[p].pc = "idle"
    /\ grant' = "revoked"
    /\ proc' = [proc EXCEPT ![p] = [Idle EXCEPT !.pc = "revoke", !.op = "grant"]]
    /\ UNCHANGED <<fam, grace, changed, now, faults, history>>

\* Disabling the user, a credential change or an administrator's password
\* reset: the epoch moves first.
BeginCredentialChange(p) ==
    /\ proc[p].pc = "idle"
    /\ changed' = changed \cup {"epoch"}
    /\ \E pc \in {"stage", "revoke"} :
         proc' = [proc EXCEPT ![p] = [Idle EXCEPT !.pc = pc, !.op = "authority"]]
    /\ UNCHANGED <<fam, grace, grant, now, faults, history>>

\* stage_admin_reset
StagePassword(p) ==
    /\ proc[p].pc = "stage"
    /\ changed' = changed \cup {"password"}
    /\ Goto(p, "revoke")
    /\ UNCHANGED <<fam, grace, grant, now, faults, history>>

RevokeFamily(p) ==
    /\ proc[p].pc = "revoke"
    /\ fam' = [fam EXCEPT !.revoked = TRUE]
    /\ Goto(p, "delete")
    /\ UNCHANGED <<grace, authority, now, faults, history>>

\* The call fails.  By user, the call may also miss the family, which the
\* index does not show yet; the kept responses are then left alone and the
\* credential change may still be reported as done.
RevokeFamilyFails(p) ==
    /\ proc[p].pc = "revoke" /\ faults < MaxFaults
    /\ faults' = faults + 1
    /\ IF proc[p].op = "authority"
       THEN Return(p) /\ acked' \in {acked, acked \cup {"authority"}}
       ELSE /\ proc' = [proc EXCEPT ![p] = [@ EXCEPT !.pc = "delete", !.failed = TRUE]]
            /\ UNCHANGED acked
    /\ UNCHANGED <<fam, grace, authority, now, minted, answers>>

\* What the caller is told once both calls were made.  POST /revoke says the same
\* whatever became of them, so nothing is learnt from it.
Reported(p) ==
    acked' = IF proc[p].failed THEN acked ELSE acked \cup ({proc[p].op} \cap Final)

DeleteGrace(p) ==
    /\ proc[p].pc = "delete"
    /\ grace' = {}
    /\ Reported(p)
    /\ Return(p)
    /\ UNCHANGED <<fam, authority, now, faults, minted, answers>>

\* A failed deletion is reported, except by POST /revoke and the best-effort
\* cleanup of a credential change.
DeleteGraceFails(p) ==
    /\ proc[p].pc = "delete" /\ faults < MaxFaults
    /\ faults' = faults + 1
    /\ acked' \in {acked} \cup
         (IF proc[p].op = "authority" THEN {acked \cup {"authority"}} ELSE {})
    /\ Return(p)
    /\ UNCHANGED <<fam, grace, authority, now, minted, answers>>

-----------------------------------------------------------------------------
\* A crash, or an error response that writes nothing.
Abort(p) ==
    /\ proc[p].pc # "idle" /\ faults < MaxFaults
    /\ Return(p)
    /\ faults' = faults + 1
    /\ UNCHANGED <<fam, grace, authority, now, history>>

Tick ==
    /\ now < MaxTime
    /\ now' = now + 1
    /\ UNCHANGED <<fam, grace, authority, proc, faults, history>>

-----------------------------------------------------------------------------
Continue(p) ==
    \/ GrantGate(p) \/ EpochGate(p) \/ PasswordGate(p)
    \/ ConsumeRevoked(p) \/ ConsumeReuse(p) \/ ConsumeCurrent(p)
    \/ ProbeHit(p) \/ ProbeMiss(p)
    \/ AcquireLease(p) \/ LeaseRefused(p) \/ Sign(p) \/ ReleaseLease(p)
    \/ FinalizeRotation(p) \/ FinalizeRefused(p) \/ PostPassword(p) \/ PostEpoch(p)
    \/ StagePassword(p) \/ RevokeFamily(p) \/ DeleteGrace(p)

Fault(p) ==
    \/ GrantUnknown(p) \/ ProbeFails(p) \/ SignFails(p) \/ FinalizeAnswerLost(p)
    \/ PostLookupFails(p) \/ RevokeFamilyFails(p) \/ DeleteGraceFails(p) \/ Abort(p)

Request(p) ==
    \/ \E v \in 0..fam.version : LoadNotOwner(p, v) \/ \E r \in Requests : Load(p, v, r)
    \/ MismatchedProof(p)
    \/ RevokeEndpoint(p) \/ RevokeGrant(p) \/ BeginCredentialChange(p)

Next == (\E p \in Procs : Continue(p) \/ Fault(p) \/ Request(p)) \/ Tick

Spec == Init /\ [][Next]_vars

-----------------------------------------------------------------------------
\* Correctness

\* Whatever races, a presented version is exchanged for at most one token,
\* and only the request that got it gets it again (finalize_rotation_with_grace,
\* probe_grace): a retry never forks the family.
OneSuccessor ==
    /\ \A a, b \in minted : a.ver = b.ver => a = b
    /\ \A a \in answers : \E m \in minted :
           m.ver = a.ver /\ m.token = a.token /\ m.req = a.req

\* A reported revocation is complete and stays so: no rotation that was under
\* way brings the family or a kept response back.
RevocationSticks ==
    acked \cap {"refresh", "grant"} # {} => fam.revoked /\ grace = {}

\* A request that starts after a revocation or a credential change was
\* reported gets no token, even if the cleanup of a credential change failed.
LateRequestRefused == \A a \in answers : ~a.late

\* The handler that signs returns its token only if the user's authority had
\* not changed when the rotation committed (the check after issuing).
FreshBeforeChange ==
    \A a \in answers, m \in minted :
        a.fresh /\ a.token = m.token => m.phase = "before"

\* At most one handler holds an unexpired lease, although each one compares
\* the expiry with a clock reading taken before the store call.
LiveLeaseIsExclusive ==
    \A p, q \in Procs :
        /\ p # q
        /\ proc[p].pc \in {"sign", "finalize"} /\ proc[q].pc \in {"sign", "finalize"}
        => proc[p].until <= now \/ proc[q].until <= now

\* The signing lease of version v, as the family record holds it.
LeaseOfVersion(v) ==
    CASE fam.version > v -> "Finalized"
      [] fam.version = v /\ fam.owner # NoOwner -> "Signing"
      [] OTHER -> "Idle"

HolderOfVersion(v) == IF fam.version = v THEN fam.owner ELSE NoOwner

LapsedOfVersion(v) == fam.version = v /\ fam.owner # NoOwner /\ fam.until <= now

Lease == INSTANCE SigningLease WITH
    Holders <- Owners, NoHolder <- NoOwner, Credential <- "Refresh",
    lease <- LeaseOfVersion(Version), holder <- HolderOfVersion(Version),
    lapsed <- LapsedOfVersion(Version)

\* The store implements the two-phase lease of lease.rs for each version, although
\* it compares the expiry of a lease with clock readings taken before the call.
ImplementsLease == Lease!Spec
=============================================================================
