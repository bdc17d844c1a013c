---------------------------- MODULE MutationGate ----------------------------
(***************************************************************************)
(* The gate between a tenant's authority writes and its offboarding.  Every *)
(* mutating request, and every background mutation, runs under a renewable  *)
(* permit that the tenant's gate counts; an offboarding freezes the gate    *)
(* only at zero.  Requests are killed, answers of the store are lost, and   *)
(* calls that were issued before a request died land later.                 *)
(*                                                                         *)
(* A permit's deadline is kept as the time left.  The now that a request    *)
(* sends along is the one it read when the call began: age is the time      *)
(* since then.                                                              *)
(***************************************************************************)
EXTENDS Integers, FiniteSets

CONSTANTS
    Requests,   \* requests and background mutations, each run once
    Starters,   \* requests that start the offboarding
    Lease,      \* TENANT_MUTATION_PERMIT_LEASE_SECS
    Renew,      \* TENANT_MUTATION_PERMIT_RENEW_SECS
    Stall,      \* longest time a process is not scheduled
    CallBound,  \* longest time a call of the store is under way
    Skew,       \* difference of two processes' clocks
    None

\* The lease covers an acquisition or renewal, the time to the next one, and a
\* call issued in its last moment.
TimesAssumption ==
    /\ {Lease, Renew, Stall, CallBound, Skew} \subseteq Nat
    /\ 2 * CallBound + Renew + Stall + Skew < Lease

NamesAssumption == IsFiniteSet(Requests) /\ None \notin Int

VARIABLES
    gate,     \* the gate record: state and active_permits
    permit,   \* time left of each request's permit record, or None
    req,      \* the requests: pc, age of the call for a permit, timer
    call,     \* age of the authority write a request has under way, or None
    rows,     \* requests whose write has reached the tenant's tables
    off       \* the starters: pc, and whether their copy of the gate is current

vars == <<gate, permit, req, call, rows, off>>

Over == [pc |-> "over", age |-> 0, timer |-> 0]
Frozen == gate.st = "frozen"

\* Every write of the gate moves its revision.
Stale == [o \in Starters |-> [off[o] EXCEPT !.fresh = FALSE]]

-----------------------------------------------------------------------------
(* A request: acquire, run with a renewal timer, release *)

\* tenant_mutation_gate_layer and with_tenant_mutation_permit.
Begin(r) ==
    /\ req[r].pc = "idle"
    /\ req' = [req EXCEPT ![r].pc = "acquire"]
    /\ UNCHANGED <<gate, permit, call, rows, off>>

\* The permit and the count in one transaction.  When the answer is lost the
\* request fails and leaves its permit behind.
acquire_tenant_mutation_permit(r) ==
    /\ req[r].pc = "acquire"
    /\ ~Frozen
    /\ gate' = [gate EXCEPT !.n = @ + 1]
    /\ permit' = [permit EXCEPT ![r] = Lease - req[r].age]
    /\ \E answered \in BOOLEAN :
         req' = [req EXCEPT ![r] = IF answered THEN [Over EXCEPT !.pc = "run"] ELSE Over]
    /\ off' = Stale
    /\ UNCHANGED <<call, rows>>

AcquireRefused(r) ==
    /\ req[r].pc = "acquire"
    /\ Frozen
    /\ req' = [req EXCEPT ![r] = Over]
    /\ UNCHANGED <<gate, permit, call, rows, off>>

\* The handler writes to the tenant's tables.
Issue(r) ==
    /\ req[r].pc = "run"
    /\ call[r] = None
    /\ r \notin rows
    /\ call' = [call EXCEPT ![r] = 0]
    /\ UNCHANGED <<gate, permit, req, rows, off>>

Land(r) ==
    /\ call[r] # None
    /\ call' = [call EXCEPT ![r] = None]
    /\ rows' \in {rows, rows \union {r}}
    /\ UNCHANGED <<gate, permit, req, off>>

\* The timer fires: the handler is not polled while the renewal is under way.
RenewDue(r) ==
    /\ req[r].pc = "run"
    /\ req[r].timer >= Renew
    /\ req' = [req EXCEPT ![r].pc = "renew", ![r].age = 0]
    /\ UNCHANGED <<gate, permit, call, rows, off>>

\* By the deadline it has, and only while that is ahead of the caller's now.
\* A renewal without an answer cancels the request like a refused one.
renew_tenant_mutation_permit(r) ==
    /\ req[r].pc = "renew"
    /\ LET good == permit[r] # None /\ permit[r] + req[r].age > 0 IN
       /\ permit' = IF good THEN [permit EXCEPT ![r] = Lease - req[r].age] ELSE permit
       /\ \E answered \in BOOLEAN :
            req' = [req EXCEPT ![r] = IF good /\ answered THEN [Over EXCEPT !.pc = "run"]
                                                          ELSE Over]
    /\ UNCHANGED <<gate, call, rows, off>>

Respond(r) ==
    /\ req[r].pc = "run"
    /\ call[r] = None
    /\ req' = [req EXCEPT ![r] = [Over EXCEPT !.pc = "release"]]
    /\ UNCHANGED <<gate, permit, call, rows, off>>

\* A release that counts down whether or not the permit was still there.
ReleaseUnchecked(r) ==
    /\ req[r].pc = "release"
    /\ permit' = [permit EXCEPT ![r] = None]
    /\ gate' = [gate EXCEPT !.n = @ - 1]
    /\ off' = Stale
    /\ req' = [req EXCEPT ![r] = Over]
    /\ UNCHANGED <<call, rows>>

\* The permit goes with its count, unless it has been reaped.
release_tenant_mutation_permit(r) ==
    /\ req[r].pc = "release"
    /\ IF permit[r] # None /\ ~Frozen /\ gate.n > 0
         THEN /\ permit' = [permit EXCEPT ![r] = None]
              /\ gate' = [gate EXCEPT !.n = @ - 1]
              /\ off' = Stale
         ELSE UNCHANGED <<permit, gate, off>>
    /\ req' = [req EXCEPT ![r] = Over]
    /\ UNCHANGED <<call, rows>>

\* The process ends, or its request is cancelled; its call goes on.
Killed(r) ==
    /\ req[r].pc \notin {"idle", "over"}
    /\ req' = [req EXCEPT ![r] = Over]
    /\ UNCHANGED <<gate, permit, call, rows, off>>

-----------------------------------------------------------------------------
(* The freeze *)

StartFreeze(o) ==
    /\ off[o].pc = "idle"
    /\ ~Frozen
    /\ off' = [off EXCEPT ![o].pc = "reap"]
    /\ UNCHANGED <<gate, permit, req, call, rows>>

\* A reaper that removes the permit and leaves the count.
ReapWithoutCount(o, r) ==
    /\ off[o].pc = "reap"
    /\ permit[r] # None /\ permit[r] <= Skew
    /\ permit' = [permit EXCEPT ![r] = None]
    /\ UNCHANGED <<gate, req, call, rows, off>>

\* A reaper that takes a missed renewal for a dead request.
ReapUnrenewed(o, r) ==
    /\ off[o].pc = "reap"
    /\ permit[r] # None /\ permit[r] <= Lease - Renew
    /\ ~Frozen /\ gate.n > 0
    /\ permit' = [permit EXCEPT ![r] = None]
    /\ gate' = [gate EXCEPT !.n = @ - 1]
    /\ off' = Stale
    /\ UNCHANGED <<req, call, rows>>

\* An expired permit goes with its count.  The delete names the deadline that
\* was read, so that a renewal or release in between wins.
reap_expired_mutation_permits(o, r) ==
    /\ off[o].pc = "reap"
    /\ permit[r] # None /\ permit[r] <= Skew
    /\ ~Frozen /\ gate.n > 0
    /\ permit' = [permit EXCEPT ![r] = None]
    /\ gate' = [gate EXCEPT !.n = @ - 1]
    /\ off' = Stale
    /\ UNCHANGED <<req, call, rows>>

\* A gate that still counts permits answers MutationConflict.
prepare_mutation_gate_freeze(o) ==
    /\ off[o].pc = "reap"
    /\ \A r \in Requests : permit[r] # None => permit[r] > -Skew
    /\ off' = [off EXCEPT ![o] = IF Frozen \/ gate.n > 0
                                   THEN [pc |-> "idle", fresh |-> FALSE]
                                   ELSE [pc |-> "commit", fresh |-> TRUE]]
    /\ UNCHANGED <<gate, permit, req, call, rows>>

\* The job, the lifecycle and the gate in one transaction, by the revision of
\* the gate that was read.
mutation_gate_freeze_item(o) ==
    /\ off[o].pc = "commit"
    /\ IF off[o].fresh
         THEN /\ gate' = [st |-> "frozen", n |-> 0]
              /\ off' = [Stale EXCEPT ![o].pc = "idle"]
         ELSE /\ off' = [off EXCEPT ![o].pc = "idle"]
              /\ UNCHANGED gate
    /\ UNCHANGED <<permit, req, call, rows>>

-----------------------------------------------------------------------------
\* Time.  Calls end within their bound, and a due renewal is not put off for
\* longer than a stall.
Tick ==
    /\ \A r \in Requests :
         /\ req[r].pc \in {"acquire", "renew"} => req[r].age < CallBound
         /\ req[r].pc = "run" => req[r].timer < Renew + Stall
         /\ call[r] # None => call[r] < CallBound
    /\ req' = [r \in Requests |->
                 CASE req[r].pc \in {"acquire", "renew"} -> [req[r] EXCEPT !.age = @ + 1]
                   [] req[r].pc = "run" -> [req[r] EXCEPT !.timer = @ + 1]
                   [] OTHER -> req[r]]
    /\ call' = [r \in Requests |-> IF call[r] = None THEN None ELSE call[r] + 1]
    /\ permit' = [r \in Requests |-> CASE permit[r] = None -> None
                                       [] permit[r] = -Skew -> -Skew
                                       [] OTHER -> permit[r] - 1]
    /\ UNCHANGED <<gate, rows, off>>

Init ==
    /\ gate = [st |-> "active", n |-> 0]
    /\ permit = [r \in Requests |-> None]
    /\ req = [r \in Requests |-> [Over EXCEPT !.pc = "idle"]]
    /\ call = [r \in Requests |-> None]
    /\ rows = {}
    /\ off = [o \in Starters |-> [pc |-> "idle", fresh |-> FALSE]]

Request(r) ==
    \/ Begin(r) \/ acquire_tenant_mutation_permit(r) \/ AcquireRefused(r)
    \/ Issue(r) \/ Land(r) \/ RenewDue(r) \/ renew_tenant_mutation_permit(r)
    \/ Respond(r) \/ release_tenant_mutation_permit(r) \/ Killed(r)

Freeze(o) ==
    \/ StartFreeze(o) \/ prepare_mutation_gate_freeze(o) \/ mutation_gate_freeze_item(o)
    \/ \E r \in Requests : reap_expired_mutation_permits(o, r)

Next == (\E r \in Requests : Request(r)) \/ (\E o \in Starters : Freeze(o)) \/ Tick

Spec == Init /\ [][Next]_vars

-----------------------------------------------------------------------------
\* Every variable keeps its type.
TypeOK ==
    /\ gate \in [st : {"active", "frozen"}, n : 0 .. Cardinality(Requests)]
    /\ permit \in [Requests -> {None} \union (-Skew .. Lease)]
    /\ req \in [Requests -> [pc : {"idle", "acquire", "run", "renew", "release", "over"},
                              age : 0 .. CallBound, timer : 0 .. Renew + Stall]]
    /\ call \in [Requests -> {None} \union (0 .. CallBound)]
    /\ rows \subseteq Requests
    /\ off \in [Starters -> [pc : {"idle", "reap", "commit"}, fresh : BOOLEAN]]

\* The gate counts exactly the permits on record, through lost answers,
\* renewals, releases and reapers that race; a frozen gate has none.
GateCountsPermits == gate.n = Cardinality({r \in Requests : permit[r] # None})

\* Once the tenant is frozen no write reaches its tables, not even a call that
\* a cancelled or killed request had under way.
FrozenIsFinal == [][Frozen => rows' = rows /\ gate' = gate]_vars

=============================================================================
