------------------------------ MODULE PollGrant ------------------------------
(***************************************************************************)
(* One device authorization or CIBA request, from its creation to its      *)
(* token (crates/http/src: device_flow.rs, ciba_flow.rs, poll_claim.rs;    *)
(* the stores of adapters/aws/ciba_device.rs).                             *)
(*                                                                         *)
(* The client polls, possibly several times at once; the user decides,     *)
(* possibly in two windows; in push mode the approval itself issues the    *)
(* token.  A request that issues first consumes the record, and gives it   *)
(* back when it fails.  Records are read from a replica that may lag.      *)
(*                                                                         *)
(* Of time only two facts matter: the request has expired, and the polling *)
(* interval has passed (rested).  An answer that writes nothing is the end *)
(* of the process without a step of its own.                               *)
(***************************************************************************)
EXTENDS Naturals

CONSTANTS
    Polls,      \* requests to the token endpoint
    Approvers,  \* decisions by the user
    Device,     \* TRUE: device flow, whose store also compares the expiry; FALSE: CIBA
    Push,       \* CIBA delivers the token when the user approves
    FaultKinds, \* which of "sign", "put", "revoke", "crash", "resend" may happen
    MaxFaults,  \* bound: faults
    MaxPolls,   \* last_poll_at is counted modulo this
    MaxResets,  \* bound: password changes; 0: nothing about the user changes
    MayExpire   \* the request may expire

Procs == Polls \cup Approvers

PollAssumption ==
    /\ Polls \cap Approvers = {} /\ Device \in BOOLEAN /\ Push \in BOOLEAN
    /\ Device => ~Push
    /\ FaultKinds \subseteq {"sign", "put", "revoke", "crash", "resend"}
    /\ MaxFaults \in Nat /\ MaxPolls \in Nat \ {0} /\ MaxResets \in Nat /\ MayExpire \in BOOLEAN

VARIABLES
    req,      \* the record
    replica,  \* what an eventually consistent read may return
    expired,  \* its time is over
    rested,   \* the polling interval has passed
    pw,       \* version of the user's password
    active,   \* the user is active
    grant,    \* Grants by the process that made them
    proc,     \* processes
    resent,   \* releases that the SDK will send once more
    faults,   \* faults so far
    issued,   \* history: tokens issued
    outdated  \* history: a token came of a record consumed after a change of the user

vars == <<req, replica, expired, rested, pw, active, grant, proc, resent, faults, issued,
          outdated>>
clock == <<expired, rested>>
user == <<pw, active>>
history == <<issued, outdated>>

NoVersion == MaxResets + 1
\* An approved record carries the version of the password it was approved under.
Records == {r \in [status : {"pending", "approved", "denied"}, consumed : BOOLEAN,
                   pwv : 0..NoVersion, polls : 0..MaxPolls] :
              r.status = "approved" => r.pwv # NoVersion}
PCs == {"idle", "claim", "decide", "push", "gates", "consume", "epoch", "put", "password", "active",
        "revoke", "release"}
Statuses == {"none", "active", "revoked"}

TypeOK ==
    /\ req \in Records /\ replica \in Records
    /\ expired \in BOOLEAN /\ rested \in BOOLEAN /\ active \in BOOLEAN /\ outdated \in BOOLEAN
    /\ pw \in 0..MaxResets /\ faults \in 0..MaxFaults /\ resent \in 0..MaxFaults /\ issued \in Nat
    /\ grant \in [Procs -> Statuses]
    /\ \A p \in Procs :
         /\ proc[p].pc \in PCs /\ proc[p].seen \in Records
         /\ proc[p].pwv \in 0..NoVersion /\ proc[p].changed \in BOOLEAN
         /\ proc[p].approve \in BOOLEAN

Fresh == [status |-> "pending", consumed |-> FALSE, pwv |-> NoVersion, polls |-> 0]
Idle == [pc |-> "idle", seen |-> Fresh, pwv |-> NoVersion, changed |-> FALSE, approve |-> FALSE]

\* The request as device_authorization and bc-authorize store it.
Init ==
    /\ req = Fresh /\ replica = Fresh
    /\ expired = FALSE /\ rested = TRUE /\ pw = 0 /\ active = TRUE
    /\ grant = [p \in Procs |-> "none"] /\ proc = [p \in Procs |-> Idle]
    /\ resent = 0 /\ faults = 0 /\ issued = 0 /\ outdated = FALSE

Goto(p, pc) == proc' = [proc EXCEPT ![p].pc = pc]
Answer(p) == proc' = [proc EXCEPT ![p] = Idle]
Fault(kind) == kind \in FaultKinds /\ faults < MaxFaults /\ faults' = faults + 1

-----------------------------------------------------------------------------
\* Polling

\* poll_decision; InvalidGrant ends the request.
Outcome(r) ==
    IF r.consumed THEN "invalid_grant"
    ELSE IF expired THEN "expired_token"
    ELSE IF r.polls > 0 /\ ~rested THEN "slow_down"
    ELSE IF r.status = "approved" THEN "issue"
    ELSE "answer"

\* A process whose Grant was left behind is not used again: its id names that Grant.
Poll(p, r) ==
    /\ proc[p].pc = "idle" /\ grant[p] # "active" /\ r \in {req, replica}
    /\ Outcome(r) # "invalid_grant"
    /\ proc' = [proc EXCEPT ![p] = [Idle EXCEPT !.pc = "claim", !.seen = r]]
    /\ UNCHANGED <<req, replica, clock, user, grant, resent, faults, history>>

\* claim_poll compares the time of the last poll; the device store also the expiry.
Claim(p) ==
    LET r == proc[p].seen
        claimed == req.polls = r.polls /\ (Device => ~expired) IN
    /\ proc[p].pc = "claim"
    /\ req' = IF claimed THEN [req EXCEPT !.polls = (@ % MaxPolls) + 1] ELSE req
    /\ rested' = (rested /\ ~claimed)
    /\ IF claimed /\ Outcome(r) = "issue" THEN Goto(p, "gates") ELSE Answer(p)
    /\ UNCHANGED <<replica, expired, user, grant, resent, faults, history>>

-----------------------------------------------------------------------------
\* The user's decision

\* approve_by_user_code and approve_by_auth_req_id: the password version is captured
\* before the decision is written.
Decide(a, approve, r) ==
    /\ proc[a].pc = "idle" /\ grant[a] # "active" /\ r \in {req, replica}
    /\ ~expired /\ r.status = "pending"
    /\ proc' = [proc EXCEPT ![a] = [Idle EXCEPT !.pc = "decide", !.approve = approve,
                                                !.pwv = IF approve THEN pw ELSE NoVersion]]
    /\ UNCHANGED <<req, replica, clock, user, grant, resent, faults, history>>

\* The status is not compared.
DecidableAlways == Device => ~expired

Decidable == req.status = "pending" /\ (Device => ~expired)

\* The version is not stored with the approval.
CommitDecisionUnversioned(a) ==
    LET k == proc[a] IN
    /\ k.pc = "decide"
    /\ IF Decidable
         THEN /\ req' = [req EXCEPT !.status = IF k.approve THEN "approved" ELSE "denied"]
              /\ IF Push /\ k.approve THEN Goto(a, "push") ELSE Answer(a)
         ELSE UNCHANGED req /\ Answer(a)
    /\ UNCHANGED <<replica, clock, user, grant, resent, faults, history>>

\* decide, and in push mode the dispatch of the callback that follows an approval.
CommitDecision(a) ==
    LET k == proc[a] IN
    /\ k.pc = "decide"
    /\ IF Decidable
         THEN /\ req' = [req EXCEPT !.status = IF k.approve THEN "approved" ELSE "denied",
                                    !.pwv = IF k.approve THEN k.pwv ELSE @]
              /\ IF Push /\ k.approve THEN Goto(a, "push") ELSE Answer(a)
         ELSE UNCHANGED req /\ Answer(a)
    /\ UNCHANGED <<replica, clock, user, grant, resent, faults, history>>

\* dispatch_ciba_callback reads the record again; the quota may be exhausted.
Dispatch(a, r) ==
    /\ proc[a].pc = "push" /\ r \in {req, replica}
    /\ proc' = [proc EXCEPT ![a].pc = "gates", ![a].seen = r]
    /\ UNCHANGED <<req, replica, clock, user, grant, resent, faults, history>>

SkipPush(a) ==
    /\ proc[a].pc = "push" /\ Answer(a)
    /\ UNCHANGED <<req, replica, clock, user, grant, resent, faults, history>>

-----------------------------------------------------------------------------
\* Issuing, for polls and pushes alike

\* The tombstone, active-user and password gates.
Gates(p) ==
    /\ proc[p].pc = "gates"
    /\ IF active /\ proc[p].seen.pwv = pw THEN Goto(p, "consume") ELSE Answer(p)
    /\ UNCHANGED <<req, replica, clock, user, grant, resent, faults, history>>

\* The write is not conditional.
ConsumableAlways == Device => ~expired

Consumable == ~req.consumed /\ (Device => ~expired)

Consume(p) ==
    /\ proc[p].pc = "consume"
    /\ IF Consumable
         THEN /\ req' = [req EXCEPT !.consumed = TRUE]
              /\ proc' = [proc EXCEPT ![p].pc = "epoch",
                                      ![p].changed = ~active \/ pw # req.pwv]
         ELSE UNCHANGED req /\ Answer(p)
    /\ UNCHANGED <<replica, clock, user, grant, resent, faults, history>>

\* active_user_epoch; then the token is signed.
ReadEpoch(p) ==
    /\ proc[p].pc = "epoch"
    /\ IF active THEN Goto(p, "put") ELSE Goto(p, "release")
    /\ UNCHANGED <<req, replica, clock, user, grant, resent, faults, history>>

\* The client is gone, the proof is replayed, a quota, the signer or the policy refuses.
SignFails(p) ==
    /\ proc[p].pc = "put" /\ Fault("sign")
    /\ Goto(p, "release")
    /\ UNCHANGED <<req, replica, clock, user, grant, resent, history>>

PutGrant(p) ==
    /\ proc[p].pc = "put"
    /\ grant' = [grant EXCEPT ![p] = "active"]
    /\ Goto(p, "password")
    /\ UNCHANGED <<req, replica, clock, user, resent, faults, history>>

\* put_grant_for_client fails, or its answer is lost.
PutFails(p) ==
    /\ proc[p].pc = "put" /\ Fault("put")
    /\ \/ grant' = [grant EXCEPT ![p] = "active"]
       \/ UNCHANGED grant
    /\ Goto(p, "release")
    /\ UNCHANGED <<req, replica, clock, user, resent, history>>

\* The password is not looked at again after the Grant.
CheckPasswordNever(p) ==
    /\ proc[p].pc = "password"
    /\ Goto(p, "active")
    /\ UNCHANGED <<req, replica, clock, user, grant, resent, faults, history>>

CheckPassword(p) ==
    /\ proc[p].pc = "password"
    /\ IF proc[p].seen.pwv = pw THEN Goto(p, "active") ELSE Goto(p, "revoke")
    /\ UNCHANGED <<req, replica, clock, user, grant, resent, faults, history>>

\* The failed check answers without taking the Grant back.
CheckActiveKeepsGrant(p) ==
    /\ proc[p].pc = "active"
    /\ IF active
         THEN /\ issued' = issued + 1 /\ outdated' = (outdated \/ proc[p].changed)
              /\ Answer(p)
         ELSE Goto(p, "release") /\ UNCHANGED history
    /\ UNCHANGED <<req, replica, clock, user, grant, resent, faults>>

\* require_active_user_epoch; then the token is answered or pushed.
CheckActive(p) ==
    /\ proc[p].pc = "active"
    /\ IF active
         THEN /\ issued' = issued + 1 /\ outdated' = (outdated \/ proc[p].changed)
              /\ Answer(p)
         ELSE Goto(p, "revoke") /\ UNCHANGED history
    /\ UNCHANGED <<req, replica, clock, user, grant, resent, faults>>

\* revoke_with_audit
Revoke(p) ==
    /\ proc[p].pc = "revoke"
    /\ grant' = [grant EXCEPT ![p] = "revoked"]
    /\ Goto(p, "release")
    /\ UNCHANGED <<req, replica, clock, user, resent, faults, history>>

RevokeFails(p) ==
    /\ proc[p].pc = "revoke" /\ Fault("revoke")
    /\ Goto(p, "release")
    /\ UNCHANGED <<req, replica, clock, user, grant, resent, history>>

Unconsumed == IF Device /\ expired THEN req ELSE [req EXCEPT !.consumed = FALSE]

\* The failed request keeps the record.
ReleaseNever(p) ==
    /\ proc[p].pc = "release"
    /\ Answer(p)
    /\ UNCHANGED <<req, replica, clock, user, grant, resent, faults, history>>

\* release_consume asks only that the record exists.
Release(p) ==
    /\ proc[p].pc = "release"
    /\ req' = Unconsumed
    /\ Answer(p)
    /\ UNCHANGED <<replica, clock, user, grant, resent, faults, history>>

\* The release is applied, its answer is lost, and the SDK sends it once more.
ReleaseTwice(p) ==
    /\ proc[p].pc = "release" /\ Fault("resend")
    /\ req' = Unconsumed /\ resent' = resent + 1
    /\ Answer(p)
    /\ UNCHANGED <<replica, clock, user, grant, history>>

ReleaseArrives ==
    /\ resent > 0 /\ resent' = resent - 1
    /\ req' = Unconsumed
    /\ UNCHANGED <<replica, clock, user, grant, proc, faults, history>>

Crash(p) ==
    /\ proc[p].pc # "idle" /\ Fault("crash")
    /\ Answer(p)
    /\ UNCHANGED <<req, replica, clock, user, grant, resent, history>>

-----------------------------------------------------------------------------
\* The environment

Replicate ==
    /\ replica # req /\ replica' = req
    /\ UNCHANGED <<req, clock, user, grant, proc, resent, faults, history>>

Expire ==
    /\ MayExpire /\ ~expired /\ expired' = TRUE
    /\ UNCHANGED <<req, replica, rested, user, grant, proc, resent, faults, history>>

Rest ==
    /\ ~rested /\ rested' = TRUE
    /\ UNCHANGED <<req, replica, expired, user, grant, proc, resent, faults, history>>

ResetPassword ==
    /\ pw < MaxResets /\ pw' = pw + 1
    /\ UNCHANGED <<req, replica, clock, active, grant, proc, resent, faults, history>>

\* The user is disabled; the disabling revokes the Grants it finds (user_lifecycle.rs).
Disable ==
    /\ MaxResets > 0 /\ active /\ active' = FALSE
    /\ UNCHANGED <<req, replica, clock, pw, grant, proc, resent, faults, history>>

-----------------------------------------------------------------------------
IssueStep(p) ==
    \/ Gates(p) \/ Consume(p) \/ ReadEpoch(p) \/ PutGrant(p) \/ CheckPassword(p)
    \/ CheckActive(p) \/ Revoke(p) \/ Release(p)

ProcFault(p) == SignFails(p) \/ PutFails(p) \/ RevokeFails(p) \/ ReleaseTwice(p) \/ Crash(p)

Next ==
    \/ \E p \in Polls : Claim(p) \/ \E r \in {req, replica} : Poll(p, r)
    \/ \E a \in Approvers :
         \/ CommitDecision(a) \/ SkipPush(a)
         \/ \E r \in {req, replica} : Dispatch(a, r)
         \/ \E approve \in BOOLEAN, r \in {req, replica} : Decide(a, approve, r)
    \/ \E p \in Procs : IssueStep(p) \/ ProcFault(p)
    \/ ReleaseArrives \/ Replicate \/ Expire \/ Rest \/ ResetPassword \/ Disable

Spec == Init /\ [][Next]_vars

-----------------------------------------------------------------------------
\* A request yields one token, however polls, pushes and releases interleave
\* (consume and release_consume of both stores).
OneToken == issued <= 1

\* A token follows from an approval that was still current when the record was consumed:
\* a password reset or a disabling before that is noticed by the checks after the Grant.
ApprovalCurrent == ~outdated

\* Without faults, a Grant is active only while its request runs or because its token was
\* issued.
NoStrandedGrant ==
    \A p \in Procs :
      (grant[p] = "active" /\ proc[p].pc \in {"idle", "release"}) => issued > 0

\* The user's decision is final, and only an approval issues tokens.
DecisionStands ==
    /\ issued > 0 => req.status = "approved"
    /\ \A p \in Procs : proc[p].pc \in {"epoch", "put", "password", "active"}
                          => req.status = "approved"
=============================================================================
