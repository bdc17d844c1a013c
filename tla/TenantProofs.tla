---------------------------- MODULE TenantProofs ----------------------------
(***************************************************************************)
(* Theorems about the life of a tenant: the gate its offboarding closes,  *)
(* the jobs that erase it and the keys it signs with. This module extends  *)
(* the component of the gate, as MCTenant does, and has the governance jobs*)
(* as the instance Gov and the signing keys as the instance Ring. No       *)
(* theorem is about two of them.                                           *)
(***************************************************************************)
EXTENDS MutationGate, FiniteSetTheorems, TLAPS

(***************************************************************************)
(* The gate, for any finite number of requests, any number of starters and *)
(* any times that fit into the lease.                                      *)
(*                                                                         *)
(* It stands still once it is frozen because no permit is left then, and a *)
(* call under way has a permit. The second half is a matter of time: Covered*)
(* says how much of the lease is left at each point of a request, so that a*)
(* permit never comes within the skew of its end before the call it covers *)
(* has ended.                                                              *)
(***************************************************************************)

GateAssumption == TimesAssumption /\ NamesAssumption

PCs == {"idle", "acquire", "run", "renew", "release", "over"}
RequestState == [pc : PCs, age : 0 .. CallBound, timer : 0 .. Renew + Stall]

StarterState == [pc : {"idle", "reap", "commit"}, fresh : BOOLEAN]

Held == {r \in Requests : permit[r] # None}

\* What a request may rely on at its program counter.
CoveredAt(r) ==
    /\ req[r].pc \in {"idle", "acquire"} => permit[r] = None /\ call[r] = None
    /\ req[r].pc = "release" => call[r] = None
    /\ req[r].pc = "run"
         => permit[r] # None /\ permit[r] + req[r].timer >= Lease - CallBound
    /\ call[r] # None => permit[r] # None /\ permit[r] + call[r] > CallBound + Skew

Covered == \A r \in Requests : CoveredAt(r)

\* A copy of the gate that is current was read at zero.
FreshAtZero == \A o \in Starters : off[o].fresh => gate.n = 0

FrozenAtZero == Frozen => gate.n = 0

IInv == TypeOK /\ GateCountsPermits /\ Covered /\ FreshAtZero /\ FrozenAtZero

-----------------------------------------------------------------------------
\* The count of the permits when one is added, one is removed, or the same
\* requests go on holding one.
LEMMA SetSize ==
    ASSUME GateAssumption, NEW H \in SUBSET Requests
    PROVE  /\ IsFiniteSet(H)
           /\ Cardinality(H) \in 0 .. Cardinality(Requests)
           /\ \A r \in H : Cardinality(H) > 0
<1>1. IsFiniteSet(Requests)
  BY DEF GateAssumption, NamesAssumption
<1>2. IsFiniteSet(H) /\ Cardinality(H) <= Cardinality(Requests)
  BY <1>1, FS_Subset
<1>3. Cardinality(H) \in Nat /\ Cardinality(Requests) \in Nat
  BY <1>1, <1>2, FS_CardinalityType
<1>4. ASSUME NEW r \in H PROVE Cardinality(H) # 0
  BY <1>2, FS_EmptySet
<1> QED
  BY <1>2, <1>3, <1>4

LEMMA HeldMore ==
    ASSUME GateAssumption, permit \in [Requests -> {None} \union Int],
           NEW r \in Requests, permit[r] = None, NEW x \in Int,
           permit' = [permit EXCEPT ![r] = x]
    PROVE  Cardinality(Held') = Cardinality(Held) + 1
<1>1. Held' = Held \union {r} /\ r \notin Held
  BY DEF Held, GateAssumption, NamesAssumption
<1> QED
  BY <1>1, SetSize, FS_AddElement DEF Held

LEMMA HeldLess ==
    ASSUME GateAssumption, permit \in [Requests -> {None} \union Int],
           NEW r \in Requests, permit[r] # None,
           permit' = [permit EXCEPT ![r] = None]
    PROVE  Cardinality(Held') = Cardinality(Held) - 1
<1>1. Held' = Held \ {r} /\ r \in Held
  BY DEF Held
<1> QED
  BY <1>1, SetSize, FS_RemoveElement DEF Held

LEMMA HeldSame ==
    ASSUME permit \in [Requests -> {None} \union Int],
           permit' \in [Requests -> {None} \union Int],
           \A r \in Requests : permit'[r] = None <=> permit[r] = None
    PROVE  Held' = Held
  BY DEF Held

-----------------------------------------------------------------------------

LEMMA InitInv == ASSUME GateAssumption PROVE Init => IInv
<1> SUFFICES ASSUME Init PROVE IInv
  OBVIOUS
<1> USE DEF Init
<1>1. TypeOK
  <2>1. Cardinality(Requests) \in Nat
    BY SetSize
  <2> QED
    BY <2>1 DEF TypeOK, GateAssumption, TimesAssumption, Over
<1>2. GateCountsPermits
  <2>1. Held = {}
    BY DEF Held
  <2> QED
    BY <2>1, FS_EmptySet DEF GateCountsPermits, Held
<1>3. Covered /\ FreshAtZero /\ FrozenAtZero
  BY DEF Covered, CoveredAt, FreshAtZero, FrozenAtZero, Frozen, Over
<1> QED
  BY <1>1, <1>2, <1>3 DEF IInv

\* A request's own step that leaves the permits and the gate alone.
LEMMA LocalInv ==
    ASSUME GateAssumption, IInv, NEW r \in Requests,
           Begin(r) \/ AcquireRefused(r) \/ Issue(r) \/ Land(r) \/ RenewDue(r)
             \/ Respond(r) \/ Killed(r)
    PROVE  IInv'
<1> USE DEF IInv
<1>1. UNCHANGED <<gate, permit, off>>
  BY DEF Begin, AcquireRefused, Issue, Land, RenewDue, Respond, Killed
<1>2. TypeOK'
  <2> USE DEF GateAssumption, TimesAssumption, TypeOK
  <2>1. req' \in [Requests -> RequestState]
    <3>1. req \in [Requests -> RequestState] /\ req[r] \in RequestState
      BY DEF RequestState, PCs
    <3>2. CASE Begin(r)
      BY <3>1, <3>2 DEF Begin, RequestState, PCs
    <3>3. CASE AcquireRefused(r) \/ Killed(r)
      BY <3>1, <3>3 DEF AcquireRefused, Killed, Over, RequestState, PCs
    <3>4. CASE Issue(r) \/ Land(r)
      BY <3>1, <3>4 DEF Issue, Land
    <3>5. CASE RenewDue(r)
      <4> DEFINE due == [req EXCEPT ![r].pc = "renew"]
      <4>1. due \in [Requests -> RequestState]
        BY <3>1 DEF RequestState, PCs
      <4>2. req' = [due EXCEPT ![r].age = 0]
        BY <3>5 DEF RenewDue
      <4> HIDE DEF due
      <4> QED
        BY <4>1, <4>2 DEF RequestState
    <3>6. CASE Respond(r)
      BY <3>1, <3>6 DEF Respond, Over, RequestState, PCs
    <3> QED
      BY <3>2, <3>3, <3>4, <3>5, <3>6
  <2>2. call' \in [Requests -> {None} \union (0 .. CallBound)] /\ rows' \subseteq Requests
    <3>1. CASE Issue(r)
      BY <3>1 DEF Issue
    <3>2. CASE Land(r)
      BY <3>2 DEF Land
    <3>3. CASE UNCHANGED <<call, rows>>
      BY <3>3
    <3> QED
      BY <3>1, <3>2, <3>3 DEF Begin, AcquireRefused, RenewDue, Respond, Killed
  <2> QED
    BY <1>1, <2>1, <2>2 DEF RequestState, PCs
<1>3. GateCountsPermits' /\ FreshAtZero' /\ FrozenAtZero'
  BY <1>1 DEF GateCountsPermits, FreshAtZero, FrozenAtZero, Frozen
<1>4. ASSUME NEW q \in Requests PROVE CoveredAt(q)'
  <2> CoveredAt(q) /\ CoveredAt(r)
    BY DEF Covered
  <2> USE <1>1 DEF CoveredAt, TypeOK, GateAssumption, NamesAssumption, TimesAssumption
  <2>1. CASE Begin(r)
    BY <2>1 DEF Begin
  <2>2. CASE AcquireRefused(r)
    BY <2>2 DEF AcquireRefused, Over
  <2>3. CASE Issue(r)
    BY <2>3 DEF Issue
  <2>4. CASE Land(r)
    BY <2>4 DEF Land
  <2>5. CASE RenewDue(r)
    BY <2>5 DEF RenewDue
  <2>6. CASE Respond(r)
    BY <2>6 DEF Respond, Over
  <2>7. CASE Killed(r)
    BY <2>7 DEF Killed, Over
  <2> QED
    BY <2>1, <2>2, <2>3, <2>4, <2>5, <2>6, <2>7
<1> QED
  BY <1>2, <1>3, <1>4 DEF Covered

\* A step that adds the permit of r to the count.
LEMMA AcquireInv ==
    ASSUME GateAssumption, IInv, NEW r \in Requests, acquire_tenant_mutation_permit(r)
    PROVE  IInv'
<1> USE DEF IInv, acquire_tenant_mutation_permit
<1> DEFINE left == Lease - req[r].age
<1>1. left \in Int /\ left >= Lease - CallBound /\ left <= Lease /\ left \in -Skew .. Lease
  BY DEF TypeOK, GateAssumption, TimesAssumption
<1>2. permit[r] = None /\ call[r] = None
  BY DEF Covered, CoveredAt
<1>3. GateCountsPermits'
  <2> permit \in [Requests -> {None} \union Int]
    BY DEF TypeOK, GateAssumption, TimesAssumption
  <2>1. Cardinality(Held') = Cardinality(Held) + 1
    BY <1>1, <1>2, HeldMore
  <2> QED
    BY <2>1 DEF GateCountsPermits, TypeOK, Held
<1>4. TypeOK'
  <2>1. gate' \in [st : {"active", "frozen"}, n : 0 .. Cardinality(Requests)]
    <3> Held' \in SUBSET Requests
      BY DEF Held
    <3> QED
      BY <1>3, SetSize DEF GateCountsPermits, Held, TypeOK
  <2>2. req' \in [Requests -> RequestState]
    BY DEF TypeOK, RequestState, PCs, Over, GateAssumption, TimesAssumption
  <2>3. off' \in [Starters -> [pc : {"idle", "reap", "commit"}, fresh : BOOLEAN]]
    BY DEF TypeOK, Stale
  <2> QED
    BY <1>1, <2>1, <2>2, <2>3 DEF TypeOK, RequestState, PCs
<1>5. Covered'
  BY <1>1, <1>2 DEF Covered, CoveredAt, TypeOK, Over, GateAssumption, NamesAssumption,
     TimesAssumption
<1>6. FreshAtZero' /\ FrozenAtZero'
  BY DEF FreshAtZero, FrozenAtZero, Frozen, Stale, TypeOK
<1> QED
  BY <1>3, <1>4, <1>5, <1>6

\* A renewal moves the deadline of a permit that is still there.
LEMMA RenewInv ==
    ASSUME GateAssumption, IInv, NEW r \in Requests, renew_tenant_mutation_permit(r)
    PROVE  IInv'
<1> USE DEF IInv, renew_tenant_mutation_permit
<1> DEFINE left == Lease - req[r].age
<1>1. left \in Int /\ left >= Lease - CallBound /\ left <= Lease /\ left \in -Skew .. Lease
  BY DEF TypeOK, GateAssumption, TimesAssumption
<1>2. permit' = permit \/ (permit[r] # None /\ permit' = [permit EXCEPT ![r] = left])
  OBVIOUS
<1>3. permit' \in [Requests -> {None} \union (-Skew .. Lease)]
  BY <1>1, <1>2 DEF TypeOK
<1>4. GateCountsPermits'
  <2>1. permit \in [Requests -> {None} \union Int] /\ permit' \in [Requests -> {None} \union Int]
    BY <1>3 DEF TypeOK, GateAssumption, TimesAssumption
  <2>2. \A q \in Requests : permit'[q] = None <=> permit[q] = None
    BY <1>1, <1>2, <2>1 DEF GateAssumption, NamesAssumption
  <2> QED
    BY <2>1, <2>2, HeldSame DEF GateCountsPermits, Held
<1>5. TypeOK'
  <2> req' \in [Requests -> RequestState]
    BY DEF TypeOK, RequestState, PCs, Over, GateAssumption, TimesAssumption
  <2> QED
    BY <1>3 DEF TypeOK, RequestState, PCs
<1>6. Covered'
  BY <1>1 DEF Covered, CoveredAt, TypeOK, Over, GateAssumption, NamesAssumption, TimesAssumption
<1>7. FreshAtZero' /\ FrozenAtZero'
  BY DEF FreshAtZero, FrozenAtZero, Frozen
<1> QED
  BY <1>4, <1>5, <1>6, <1>7

\* A step that takes the permit of r and its count: r has no call under way and
\* does not run.
LEMMA RemoveInv ==
    ASSUME GateAssumption, IInv, NEW r \in Requests, permit[r] # None, ~Frozen,
           call[r] = None, req'[r].pc # "run", gate.n > 0,
           permit' = [permit EXCEPT ![r] = None], gate' = [gate EXCEPT !.n = @ - 1],
           off' = Stale, req' \in [Requests -> RequestState],
           \A q \in Requests : q # r => req'[q] = req[q],
           req'[r] = Over \/ req'[r] = req[r],
           UNCHANGED <<call, rows>>
    PROVE  IInv'
<1> USE DEF IInv
<1>1. GateCountsPermits'
  <2> permit \in [Requests -> {None} \union Int]
    BY DEF TypeOK, GateAssumption, TimesAssumption
  <2>1. Cardinality(Held') = Cardinality(Held) - 1
    BY HeldLess
  <2> QED
    BY <2>1 DEF GateCountsPermits, TypeOK, Held
<1>2. TypeOK'
  <2>1. Cardinality(Requests) \in Nat
    BY SetSize
  <2>2. gate' \in [st : {"active", "frozen"}, n : 0 .. Cardinality(Requests)]
    BY <2>1 DEF TypeOK
  <2> QED
    BY <2>2 DEF TypeOK, RequestState, PCs, Stale
<1>3. ASSUME NEW q \in Requests PROVE CoveredAt(q)'
  <2>1. CASE q = r
    BY <2>1 DEF Covered, CoveredAt, TypeOK, Over
  <2>2. CASE q # r
    BY <2>2 DEF Covered, CoveredAt, TypeOK
  <2> QED
    BY <2>1, <2>2
<1>4. FreshAtZero' /\ FrozenAtZero'
  BY DEF FreshAtZero, FrozenAtZero, Frozen, Stale, TypeOK
<1> QED
  BY <1>1, <1>2, <1>3, <1>4 DEF Covered

LEMMA ReleaseInv ==
    ASSUME GateAssumption, IInv, NEW r \in Requests, release_tenant_mutation_permit(r)
    PROVE  IInv'
<1> USE DEF IInv, release_tenant_mutation_permit
<1>1. /\ req' = [req EXCEPT ![r] = Over] /\ req[r].pc = "release" /\ UNCHANGED <<call, rows>>
      /\ req' \in [Requests -> RequestState] /\ req'[r] = Over /\ Over.pc = "over"
      /\ \A q \in Requests : q # r => req'[q] = req[q]
  BY DEF TypeOK, RequestState, PCs, Over, GateAssumption, TimesAssumption
<1>2. CASE permit[r] # None /\ ~Frozen /\ gate.n > 0
  <2> call[r] = None
    BY DEF Covered, CoveredAt
  <2> QED
    BY <1>1, <1>2, RemoveInv
<1>3. CASE ~(permit[r] # None /\ ~Frozen /\ gate.n > 0)
  <2>1. UNCHANGED <<permit, gate, off>>
    BY <1>3
  <2>2. Covered'
    BY <1>1, <2>1 DEF Covered, CoveredAt, TypeOK
  <2> QED
    BY <1>1, <2>1, <2>2
      DEF TypeOK, RequestState, PCs, GateCountsPermits, FreshAtZero, FrozenAtZero, Frozen
<1> QED
  BY <1>2, <1>3

\* A permit within the skew of its end covers nothing that still runs.
LEMMA ReapInv ==
    ASSUME GateAssumption, IInv, NEW o \in Starters, NEW r \in Requests,
           reap_expired_mutation_permits(o, r)
    PROVE  IInv'
<1> USE DEF IInv, reap_expired_mutation_permits
<1>1. call[r] = None /\ req[r].pc # "run"
  <2> CoveredAt(r) /\ permit[r] \in Int /\ permit[r] <= Skew
    BY DEF Covered, TypeOK, GateAssumption, TimesAssumption
  <2> call[r] # None => call[r] \in Int /\ call[r] <= CallBound
    BY DEF TypeOK
  <2> req[r].timer \in Int /\ req[r].timer <= Renew + Stall
    BY DEF TypeOK, GateAssumption, TimesAssumption
  <2> QED
    BY DEF CoveredAt, GateAssumption, TimesAssumption
<1> QED
  BY <1>1, RemoveInv DEF TypeOK, RequestState, PCs

\* The owner's start: only the freeze itself touches the gate, and it was read
\* at zero.
LEMMA FreezeInv ==
    ASSUME GateAssumption, IInv, NEW o \in Starters,
           StartFreeze(o) \/ prepare_mutation_gate_freeze(o) \/ mutation_gate_freeze_item(o)
    PROVE  IInv'
<1> USE DEF IInv
<1>1. UNCHANGED <<permit, req, call, rows>>
  BY DEF StartFreeze, prepare_mutation_gate_freeze, mutation_gate_freeze_item
<1>2. Covered'
  BY <1>1 DEF Covered, CoveredAt
<1>3. CASE StartFreeze(o)
  BY <1>1, <1>2, <1>3
    DEF StartFreeze, TypeOK, GateCountsPermits, FreshAtZero, FrozenAtZero, Frozen
<1>4. CASE prepare_mutation_gate_freeze(o)
  <2>1. gate' = gate
    BY <1>4 DEF prepare_mutation_gate_freeze
  <2>2. \/ off' = [off EXCEPT ![o] = [pc |-> "idle", fresh |-> FALSE]]
        \/ gate.n = 0 /\ off' = [off EXCEPT ![o] = [pc |-> "commit", fresh |-> TRUE]]
    <3> Cardinality(Requests) \in Nat
      BY SetSize
    <3>1. gate.n \in Nat
      BY DEF TypeOK
    <3>2. CASE Frozen \/ gate.n > 0
      BY <1>4, <3>2 DEF prepare_mutation_gate_freeze
    <3>3. CASE ~(Frozen \/ gate.n > 0)
      BY <1>4, <3>1, <3>3 DEF prepare_mutation_gate_freeze
    <3> QED
      BY <3>2, <3>3
  <2>3. off' \in [Starters -> StarterState] /\ FreshAtZero'
    <3>1. off \in [Starters -> StarterState]
      BY DEF TypeOK, StarterState
    <3>2. PICK x \in StarterState : off' = [off EXCEPT ![o] = x] /\ (x.fresh => gate.n = 0)
      <4>1. [pc |-> "idle", fresh |-> FALSE] \in StarterState
             /\ [pc |-> "commit", fresh |-> TRUE] \in StarterState
             /\ ~[pc |-> "idle", fresh |-> FALSE].fresh
        BY DEF StarterState
      <4> QED
        BY <2>2, <4>1
    <3> QED
      BY <2>1, <3>1, <3>2 DEF FreshAtZero
  <2>4. TypeOK'
    BY <1>1, <2>1, <2>3 DEF TypeOK, StarterState
  <2> QED
    BY <1>1, <1>2, <2>1, <2>3, <2>4 DEF GateCountsPermits, FrozenAtZero, Frozen
<1>5. CASE mutation_gate_freeze_item(o) /\ off[o].fresh
  <2> USE <1>5 DEF mutation_gate_freeze_item
  <2>1. gate.n = 0 /\ gate'.n = 0 /\ 0 \in 0 .. Cardinality(Requests)
    BY SetSize DEF FreshAtZero
  <2>2. GateCountsPermits'
    BY <1>1, <2>1 DEF GateCountsPermits
  <2>3. Stale \in [Starters -> StarterState]
    BY DEF TypeOK, Stale, StarterState
  <2>4. off' \in [Starters -> StarterState]
    <3> HIDE DEF Stale
    <3> QED
      BY <2>3 DEF StarterState
  <2>5. TypeOK'
    BY <1>1, <2>1, <2>4 DEF TypeOK, StarterState
  <2> QED
    BY <1>2, <2>1, <2>2, <2>5 DEF FreshAtZero, FrozenAtZero
<1>6. CASE mutation_gate_freeze_item(o) /\ ~off[o].fresh
  BY <1>1, <1>2, <1>6
    DEF mutation_gate_freeze_item, TypeOK, GateCountsPermits, FreshAtZero, FrozenAtZero, Frozen
<1> QED
  BY <1>3, <1>4, <1>5, <1>6

\* One instant later: a running request's timer and a call's age make up for
\* what the permit loses.
LEMMA TickInv == ASSUME GateAssumption, IInv, Tick PROVE IInv'
<1> USE DEF IInv, Tick
<1>1. UNCHANGED <<gate, rows, off>>
  OBVIOUS
<1>2. ASSUME NEW r \in Requests
      PROVE  /\ permit'[r] \in {None} \union (-Skew .. Lease)
             /\ permit'[r] = None <=> permit[r] = None
             /\ permit[r] # None /\ permit[r] > -Skew => permit'[r] = permit[r] - 1
  <2> permit[r] \in {None} \union (-Skew .. Lease)
    BY DEF TypeOK
  <2> QED
    BY DEF GateAssumption, NamesAssumption, TimesAssumption
<1>3. ASSUME NEW r \in Requests
      PROVE  /\ call'[r] \in {None} \union (0 .. CallBound)
             /\ call'[r] = None <=> call[r] = None
             /\ call[r] # None => call'[r] = call[r] + 1
  <2> call[r] \in {None} \union (0 .. CallBound)
    BY DEF TypeOK
  <2>1. call[r] # None => call[r] \in Int /\ call[r] + 1 \in 0 .. CallBound /\ call[r] + 1 # None
    BY DEF GateAssumption, NamesAssumption, TimesAssumption
  <2>2. call'[r] = IF call[r] = None THEN None ELSE call[r] + 1
    OBVIOUS
  <2> QED
    BY <2>1, <2>2
<1>4. ASSUME NEW r \in Requests
      PROVE  /\ req'[r] \in RequestState
             /\ req'[r].pc = req[r].pc
             /\ req[r].pc = "run" => req'[r].timer = req[r].timer + 1
  <2> req[r] \in RequestState
    BY DEF TypeOK, RequestState, PCs
  <2>1. CASE req[r].pc \in {"acquire", "renew"}
    <3>1. req'[r] = [req[r] EXCEPT !.age = @ + 1] /\ req[r].age + 1 \in 0 .. CallBound
      BY <2>1 DEF RequestState, GateAssumption, TimesAssumption
    <3> QED
      BY <2>1, <3>1 DEF RequestState
  <2>2. CASE req[r].pc = "run"
    <3>1. req'[r] = [req[r] EXCEPT !.timer = @ + 1] /\ req[r].timer + 1 \in 0 .. Renew + Stall
      BY <2>2 DEF RequestState, GateAssumption, TimesAssumption
    <3> QED
      BY <2>2, <3>1 DEF RequestState
  <2>3. CASE req[r].pc \notin {"acquire", "renew", "run"}
    BY <2>3
  <2> QED
    BY <2>1, <2>2, <2>3
<1>5. TypeOK'
  <2>1. permit' \in [Requests -> {None} \union (-Skew .. Lease)]
    BY <1>2
  <2>2. call' \in [Requests -> {None} \union (0 .. CallBound)]
    BY <1>3
  <2>3. req' \in [Requests -> RequestState]
    BY <1>4
  <2> QED
    BY <1>1, <2>1, <2>2, <2>3 DEF TypeOK, RequestState, PCs
<1>6. GateCountsPermits'
  BY <1>1, <1>2 DEF GateCountsPermits
<1>7. ASSUME NEW r \in Requests PROVE CoveredAt(r)'
  <2>1. CoveredAt(r) /\ permit[r] \in {None} \union Int /\ call[r] \in {None} \union Int
    BY DEF Covered, TypeOK, GateAssumption, TimesAssumption
  <2>2. req[r].timer \in Int /\ req[r].timer <= Renew + Stall
    BY DEF TypeOK, GateAssumption, TimesAssumption
  <2>3. call[r] # None => call[r] <= CallBound /\ permit[r] > -Skew
    BY <2>1 DEF CoveredAt, TypeOK, GateAssumption, NamesAssumption, TimesAssumption
  <2>4. req[r].pc = "run" => permit[r] > -Skew
    BY <2>1, <2>2 DEF CoveredAt, GateAssumption, NamesAssumption, TimesAssumption
  <2> QED
    BY <1>2, <1>3, <1>4, <2>1, <2>2, <2>3, <2>4
      DEF CoveredAt, GateAssumption, NamesAssumption, TimesAssumption
<1> QED
  BY <1>1, <1>5, <1>6, <1>7 DEF Covered, FreshAtZero, FrozenAtZero, Frozen

LEMMA NextInv == ASSUME GateAssumption PROVE IInv /\ [Next]_vars => IInv'
<1> SUFFICES ASSUME IInv, [Next]_vars PROVE IInv'
  OBVIOUS
<1>1. ASSUME NEW r \in Requests, Request(r) PROVE IInv'
  BY <1>1, LocalInv, AcquireInv, RenewInv, ReleaseInv DEF Request
<1>2. ASSUME NEW o \in Starters, Freeze(o) PROVE IInv'
  BY <1>2, FreezeInv, ReapInv DEF Freeze
<1>3. CASE UNCHANGED vars
  BY <1>3 DEF vars, IInv, TypeOK, GateCountsPermits, Covered, CoveredAt, FreshAtZero,
    FrozenAtZero, Frozen
<1> QED
  BY <1>1, <1>2, <1>3, TickInv DEF Next

-----------------------------------------------------------------------------
THEOREM Invariance == ASSUME GateAssumption PROVE Spec => []IInv
<1> QED
  BY InitInv, NextInv, PTL DEF Spec

\* Every variable keeps its type, for any number of requests and any times.
THEOREM TypeCorrect == ASSUME GateAssumption PROVE Spec => []TypeOK
<1>1. IInv => TypeOK
  BY DEF IInv
<1> QED
  BY <1>1, Invariance, PTL

\* The gate counts exactly the permits on record: no lost answer, renewal,
\* release or reaper makes it forget one or keep one that is gone.
THEOREM CountIsExact == ASSUME GateAssumption PROVE Spec => []GateCountsPermits
<1>1. IInv => GateCountsPermits
  BY DEF IInv
<1> QED
  BY <1>1, Invariance, PTL

\* After the freeze no write reaches the tenant's tables and the gate stays as
\* it is, as long as a lease covers an acquisition, the time to the next
\* renewal, a stall, a call and the skew (TimesAssumption).
THEOREM FreezeIsFinal == ASSUME GateAssumption PROVE Spec => FrozenIsFinal
<1>1. IInv /\ [Next]_vars => [Frozen => rows' = rows /\ gate' = gate]_vars
  <2> SUFFICES ASSUME IInv, Next, Frozen PROVE rows' = rows /\ gate' = gate
    OBVIOUS
  <2> USE DEF IInv
  <2>1. \A r \in Requests : permit[r] = None /\ call[r] = None
    <3>1. gate.n = 0 /\ Cardinality(Held) = 0
      BY DEF FrozenAtZero, GateCountsPermits, Held
    <3>2. Held = {}
      BY <3>1, SetSize DEF Held
    <3> QED
      BY <3>2 DEF Held, Covered, CoveredAt
  <2>2. ASSUME NEW r \in Requests, Request(r) PROVE rows' = rows /\ gate' = gate
    BY <2>1, <2>2 DEF Request, Begin, acquire_tenant_mutation_permit, AcquireRefused, Issue, Land,
      RenewDue, renew_tenant_mutation_permit, Respond, release_tenant_mutation_permit, Killed
  <2>3. ASSUME NEW o \in Starters, Freeze(o) PROVE rows' = rows /\ gate' = gate
    <3>1. gate = [st |-> "frozen", n |-> 0]
      BY DEF Frozen, FrozenAtZero, TypeOK
    <3> QED
      BY <2>3, <3>1 DEF Freeze, StartFreeze, prepare_mutation_gate_freeze,
        mutation_gate_freeze_item, reap_expired_mutation_permits
  <2>4. Tick => rows' = rows /\ gate' = gate
    BY DEF Tick
  <2> QED
    BY <2>2, <2>3, <2>4 DEF Next
<1> QED
  BY <1>1, Invariance, PTL DEF Spec, FrozenIsFinal

-----------------------------------------------------------------------------
(***************************************************************************)
(* The jobs, for any workers, rows, aliases and times: a phase on record is*)
(* a phase whose deletions are done and stay done, and nothing is destroyed*)
(* while the hold is on.                                                   *)
(*                                                                         *)
(* A worker acts on copies. Goal says what the phase it reports must have  *)
(* done, and Reported that it has done it if its copy of the job is current*)
(* when it reports (a checkpoint with an older one is refused). That a     *)
(* deletion stays done is Onward: what a step may not undo. The hold waits *)
(* for the external action: Acting says in which state the record of the   *)
(* action is under a worker that is about to call the provider.            *)
(***************************************************************************)

CONSTANTS Workers, Faulty, Jobs, Rows, Aliases, Secret, Fifo, Holds, WorkerLimit, LeaseSecs,
          ClaimSecs, Bound
VARIABLES hold, job, lease, frozen, data, act, secret, queue, wk

Gov == INSTANCE Governance

WorkerPCs == {"idle", "work", "inspect", "dispatch", "reconcile", "tombstone", "drain", "settle",
        "block", "release", "checkpoint", "done", "error"}
Outs == {"same", "next", "fail", "blocked", "child", "childless"}
WorkerV == [pc : WorkerPCs, job : Jobs \union {None}, age : 0 .. WorkerLimit, fresh : BOOLEAN,
            pcur : BOOLEAN, afresh : BOOLEAN, drain : BOOLEAN, out : Outs]
JobV ==
    [st : Gov!JobStates, phase : Gov!Phases, cur : BOOLEAN, ten : BOOLEAN, child : BOOLEAN]
DataV == [rows : SUBSET Rows, ident : {"active", "fenced", "gone"}, supp : SUBSET Aliases]

Types ==
    /\ hold \in {"disabled", "enabling", "enabled"}
    /\ job \in [Jobs -> JobV]
    /\ data \in [Jobs -> DataV]
    /\ act \in [st : Gov!ActStates, left : -WorkerLimit .. ClaimSecs]
    /\ secret \in {"replicated", "present", "scheduled", "absent"}
    /\ wk \in [Workers -> WorkerV]
    /\ frozen \in BOOLEAN

\* What the phase p of job j promises to the next one.
Goal(j, p) ==
    /\ j = "erasure" =>
         /\ p = "intent" => data[j].ident # "active"
         /\ p = "fenced" => data[j].rows = {}
         /\ p = "cleanup" => data[j].supp = Aliases
         /\ p = "suppressed" => data[j].ident = "gone"
    /\ j = "offboarding" =>
         /\ p = "fenced" => ~Gov!UserLives
         /\ p = "cleanup" =>
              data[j].rows = {} /\ data[j].supp = Aliases /\ act.st = "verified"

InWork == {"work", "inspect", "dispatch", "reconcile", "tombstone", "release", "checkpoint"}
Before == {"work", "inspect", "dispatch", "reconcile", "tombstone", "drain"}

\* A worker k that reports its phase done, from a current copy of the job, has done it.
Reported(k) ==
    /\ k.pc # "idle" => k.job \in Jobs
    /\ k.pc \in {"release", "checkpoint"} /\ k.out = "next" /\ k.fresh =>
         Goal(k.job, job[k.job].phase)
    /\ k.job = "offboarding" /\ ~k.drain /\ k.pc \in InWork => job["offboarding"].ten
    /\ k.pc \in {"work", "release", "checkpoint"} => ~k.drain
    /\ k.pc \in Before => k.out # "next"

\* An invocation k has not used up the time it left for its call
\* (SECRET_DELETION_OPERATION_BOUND_SECS).
InTime(k) == k.age <= Bound

\* Nobody calls later than that after the clock reading it decided on.
CallsInTime == \A w \in Workers : wk[w].pc = "dispatch" => InTime(wk[w])

\* The record of the action under a worker k that acts on it, and the time it has for a call.
Acting(k) ==
    /\ k.afresh => act.st \in Gov!requires_hold_drain
    /\ k.pc = "reconcile" => ~Gov!SecretStands
    /\ k.pc = "tombstone" /\ k.afresh => act.left <= 0
    /\ k.pc = "dispatch" /\ InTime(k) /\ Gov!SecretStands =>
         act.st \in {"claimed", "dispatched"} /\ act.left + k.age > Bound

\* An offboarding that began froze its tenant.
Offboards ==
    "offboarding" \in Jobs =>
      LET r == job["offboarding"] IN
      /\ r.ten => frozen
      /\ r.st \in Gov!Claimable \cup Gov!Terminal => r.ten
      /\ r.phase # "intent" => r.ten
      /\ r.phase # "suppressed"
Leaves == "erasure" \in Jobs /\ data["erasure"].ident = "gone" =>
             job["erasure"].phase \in Gov!From("suppressed")
Begins == \A j \in Jobs : job[j].st = "none" => job[j].phase = "intent"

\* A deletion on record as accepted was accepted by the provider.
Provided == act.st \in {"committed", "verified"} => ~Gov!SecretStands

GInv ==
    /\ Types /\ Offboards /\ Begins /\ Leaves /\ Provided
    /\ Gov!PhaseIsEarned /\ Gov!HoldMeansDrained
    /\ \A w \in Workers : Reported(wk[w]) /\ Acting(wk[w])

Assumptions == Gov!TimesAssumption /\ Gov!JobsAssumption /\ Gov!SecretAssumption

-----------------------------------------------------------------------------
(* What every step does to the data, the jobs and the workers *)

Onward ==
    /\ \A j \in Jobs :
         /\ data[j].ident # "active" => data'[j].ident # "active"
         /\ data[j].ident = "gone" => data'[j].ident = "gone"
         /\ data'[j].ident = "gone" /\ data[j].ident # "gone" =>
              j = "erasure" /\ job[j].phase = "suppressed"
         /\ data[j].supp \subseteq data'[j].supp
         /\ \/ data'[j].rows \subseteq data[j].rows
            \/ /\ j = "erasure" /\ data[j].ident = "active" /\ data'[j].ident = "active"
    /\ act.st = "verified" => act'.st = "verified"
    /\ ~Gov!SecretStands => ~Gov!SecretStands'
    /\ frozen => frozen'

Promoted(j) ==
    /\ job'[j].phase = Gov!NextPhase(j)
    /\ Goal(j, job[j].phase)
    /\ j = "offboarding" => job[j].ten

Weaker(k, l) ==
    /\ k.pc = l.pc /\ k.job = l.job /\ k.age = l.age /\ k.drain = l.drain /\ k.out = l.out
    /\ k.fresh => l.fresh
    /\ k.afresh => l.afresh

\* A phase is promoted only when it is done, and no step undoes what an earlier one did.
LEMMA PhaseKept ==
    ASSUME Assumptions, GInv, Types', Onward, Provided',
           \A j \in Jobs : job'[j].phase = job[j].phase \/ Promoted(j)
    PROVE  Gov!PhaseIsEarned'
<1>1. ASSUME "erasure" \in Jobs
      PROVE  LET d == data'["erasure"]  p == job'["erasure"].phase IN
             /\ p \in Gov!From("fenced") => d.ident # "active"
             /\ p \in Gov!From("cleanup") => d.rows = {}
             /\ p \in Gov!From("suppressed") => d.supp = Aliases
             /\ p \in Gov!From("replica") => d.ident = "gone"
             /\ d.ident = "gone" => d.rows = {} /\ d.supp = Aliases
  <2> DEFINE j == "erasure"
             d == data[j]   p == job[j].phase   e == data'[j]   q == job'[j].phase
  <2>1. /\ p \in Gov!From("fenced") => d.ident # "active"
        /\ p \in Gov!From("cleanup") => d.rows = {}
        /\ p \in Gov!From("suppressed") => d.supp = Aliases
        /\ p \in Gov!From("replica") => d.ident = "gone"
        /\ d.ident = "gone" => d.rows = {} /\ d.supp = Aliases
    BY <1>1 DEF GInv, Gov!PhaseIsEarned
  <2>0. p = "suppressed" => p \in Gov!From("cleanup") /\ p \in Gov!From("suppressed")
    BY DEF Gov!From
  <2>2. /\ d.ident # "active" => e.ident # "active"
        /\ d.ident = "gone" => e.ident = "gone"
        /\ e.ident = "gone" /\ d.ident # "gone" => d.rows = {} /\ d.supp = Aliases
        /\ d.supp \subseteq e.supp /\ e.supp \subseteq Aliases
        /\ e.rows \subseteq d.rows \/ (d.ident = "active" /\ e.ident = "active")
    BY <1>1, <2>1, <2>0 DEF Onward, Types, DataV
  <2>3. \/ q = p
        \/ /\ q = Gov!NextPhase(j)
           /\ p = "intent" => d.ident # "active"
           /\ p = "fenced" => d.rows = {}
           /\ p = "cleanup" => d.supp = Aliases
           /\ p = "suppressed" => d.ident = "gone"
    BY <1>1 DEF Promoted, Goal
  <2>4. p \in Gov!Phases /\ q \in Gov!Phases
    BY <1>1 DEF GInv, Types, JobV
  <2>5. Gov!NextPhase(j) = CASE p = "intent" -> "fenced" [] p = "fenced" -> "cleanup"
                         [] p = "cleanup" -> "suppressed" [] p = "suppressed" -> "replica"
                         [] OTHER -> "retention"
    BY DEF Gov!NextPhase
  <2> HIDE DEF d, p, e, q
  <2>6. q \in Gov!From("fenced") => e.ident # "active"
    BY <2>1, <2>2, <2>3, <2>4, <2>5 DEF Gov!From, Gov!Phases
  <2>7. q \in Gov!From("cleanup") => e.rows = {}
    BY <2>1, <2>2, <2>3, <2>4, <2>5 DEF Gov!From, Gov!Phases
  <2>8. q \in Gov!From("suppressed") => e.supp = Aliases
    BY <2>1, <2>2, <2>3, <2>4, <2>5 DEF Gov!From, Gov!Phases
  <2>9. q \in Gov!From("replica") => e.ident = "gone"
    BY <2>1, <2>2, <2>3, <2>4, <2>5 DEF Gov!From, Gov!Phases
  <2>10. e.ident = "gone" => e.rows = {} /\ e.supp = Aliases
    BY <2>1, <2>2
  <2> QED
    BY <2>6, <2>7, <2>8, <2>9, <2>10 DEF e, q
<1>2. ASSUME "offboarding" \in Jobs
      PROVE  LET d == data'["offboarding"]  p == job'["offboarding"].phase IN
             /\ p \in Gov!From("fenced") => frozen'
             /\ p \in Gov!From("cleanup") => ~Gov!UserLives'
             /\ p \in Gov!From("replica") =>
                  d.rows = {} /\ d.supp = Aliases /\ act'.st = "verified" /\ ~Gov!SecretStands'
  <2> DEFINE j == "offboarding"
             d == data[j]   p == job[j].phase   e == data'[j]   q == job'[j].phase
             v == act.st = "verified"   vv == act'.st = "verified"
  <2>1. /\ p \in Gov!From("fenced") => frozen
        /\ p \in Gov!From("cleanup") => ~Gov!UserLives
        /\ p \in Gov!From("replica") => d.rows = {} /\ d.supp = Aliases /\ v
        /\ p # "suppressed"
        /\ job[j].ten => frozen
    BY <1>2 DEF GInv, Gov!PhaseIsEarned, Offboards
  <2>2. /\ d.supp \subseteq e.supp /\ e.supp \subseteq Aliases
        /\ e.rows \subseteq d.rows
        /\ v => vv
        /\ frozen => frozen'
        /\ ~Gov!UserLives => ~Gov!UserLives'
    BY <1>2 DEF Onward, Types, DataV, Gov!UserLives
  <2>3. \/ q = p
        \/ /\ q = Gov!NextPhase(j)
           /\ frozen
           /\ p = "fenced" => ~Gov!UserLives
           /\ p = "cleanup" => d.rows = {} /\ d.supp = Aliases /\ v
    BY <1>2, <2>1 DEF Promoted, Goal
  <2>4. p \in Gov!Phases /\ q \in Gov!Phases
    BY <1>2 DEF GInv, Types, JobV
  <2>5. Gov!NextPhase(j) = CASE p = "intent" -> "fenced" [] p = "fenced" -> "cleanup"
                         [] p = "cleanup" -> "replica" [] p = "suppressed" -> "replica"
                         [] OTHER -> "retention"
    BY DEF Gov!NextPhase
  <2>11. vv => ~Gov!SecretStands'
    BY DEF Provided
  <2> HIDE DEF d, p, e, q, v, vv
  <2>6. q \in Gov!From("fenced") => frozen'
    BY <2>1, <2>2, <2>3, <2>4, <2>5 DEF Gov!From, Gov!Phases
  <2>7. q \in Gov!From("cleanup") => ~Gov!UserLives'
    BY <2>1, <2>2, <2>3, <2>4, <2>5 DEF Gov!From, Gov!Phases
  <2>8. q \in Gov!From("replica") => e.rows = {} /\ e.supp = Aliases /\ vv
    BY <2>1, <2>2, <2>3, <2>4, <2>5 DEF Gov!From, Gov!Phases
  <2> QED
    BY <2>6, <2>7, <2>8, <2>11 DEF e, q, vv
<1> QED
  BY <1>1, <1>2 DEF Gov!PhaseIsEarned

\* What a phase promises stays done, whoever else steps.
LEMMA GoalKept ==
    ASSUME Assumptions, GInv, Types', Onward, NEW j \in Jobs, Goal(j, job[j].phase),
           NEW p, p = job[j].phase
    PROVE  Goal(j, p)'
<1>1. /\ data[j].ident # "active" => data'[j].ident # "active"
      /\ data[j].ident = "gone" => data'[j].ident = "gone"
      /\ data[j].supp \subseteq data'[j].supp /\ data'[j].supp \subseteq Aliases
      /\ data'[j].rows \subseteq data[j].rows \/ (j = "erasure" /\ data[j].ident = "active")
      /\ act.st = "verified" => act'.st = "verified"
      /\ ~Gov!UserLives => ~Gov!UserLives'
  BY DEF Onward, Types, DataV, Gov!UserLives
<1>2. j = "erasure" /\ p = "fenced" => data[j].ident # "active"
  BY DEF GInv, Gov!PhaseIsEarned, Gov!From
<1>3. CASE j = "erasure"
  BY <1>1, <1>2, <1>3 DEF Goal
<1>4. CASE j = "offboarding"
  BY <1>1, <1>4 DEF Goal
<1> QED
  BY <1>3, <1>4 DEF Goal

\* So does what a worker reports, if the step does not touch the worker.
LEMMA ReportKept ==
    ASSUME Assumptions, GInv, Types', Onward, NEW w \in Workers, Weaker(wk'[w], wk[w]),
           \A j \in Jobs : job'[j].phase = job[j].phase \/ (wk[w].job = j => ~wk'[w].fresh),
           "offboarding" \in Jobs /\ job["offboarding"].ten => job'["offboarding"].ten
    PROVE  Reported(wk[w])'
<1>0. PICK k, l : k = wk[w] /\ l = wk'[w]
  OBVIOUS
<1>1. Reported(k) /\ k \in WorkerV
  BY <1>0 DEF GInv, Types
<1>2. l.pc = k.pc /\ l.job = k.job /\ l.drain = k.drain /\ l.out = k.out /\ (l.fresh => k.fresh)
  BY <1>0 DEF Weaker
<1>3. l.pc # "idle" => l.job \in Jobs
  BY <1>1, <1>2 DEF Reported
<1>4. ASSUME l.pc \in {"release", "checkpoint"} /\ l.out = "next" /\ l.fresh
      PROVE  \A j \in Jobs : \A p : j = l.job /\ p = job'[j].phase => Goal(j, p)'
  <2>1. k.job \in Jobs /\ Goal(k.job, job[k.job].phase)
    BY <1>1, <1>2, <1>4 DEF Reported
  <2>2. job'[k.job].phase = job[k.job].phase
    BY <1>0, <2>1, <1>4
  <2>0. PICK j \in Jobs : j = k.job
    BY <2>1
  <2>3. PICK p : p = job[j].phase
    OBVIOUS
  <2>4. Goal(j, p)'
    BY <2>0, <2>1, <2>3, GoalKept
  <2>5. SUFFICES ASSUME NEW i \in Jobs, NEW q, i = l.job, q = job'[i].phase
                 PROVE  Goal(i, q)'
    OBVIOUS
  <2>6. i = j /\ q = p
    BY <1>2, <2>0, <2>2, <2>3, <2>5
  <2> QED
    BY <2>4, <2>6
<1>5. /\ l.job = "offboarding" /\ ~l.drain /\ l.pc \in InWork => job'["offboarding"].ten
      /\ l.pc \in {"work", "release", "checkpoint"} => ~l.drain
      /\ l.pc \in Before => l.out # "next"
  BY <1>1, <1>2, <1>3 DEF Reported, InWork
<1> QED
  BY <1>0, <1>3, <1>4, <1>5 DEF Reported, Goal

\* What a worker about to act knows of the action's record, if neither changes.
LEMMA ActingKept ==
    ASSUME Assumptions, GInv, Types', ~Gov!SecretStands => ~Gov!SecretStands',
           NEW w \in Workers, Weaker(wk'[w], wk[w]),
           \/ act' = act
           \/ /\ ~wk'[w].afresh
              /\ wk[w].pc = "dispatch" /\ InTime(wk[w]) /\ Gov!SecretStands' =>
                   act'.st \in {"claimed", "dispatched"} /\ act'.left = act.left
    PROVE  Acting(wk[w])'
<1>1. PICK k, l : k = wk[w] /\ l = wk'[w]
  OBVIOUS
<1>2. Acting(k) /\ k \in WorkerV
  BY <1>1 DEF GInv, Types
<1>3. l.pc = k.pc /\ l.age = k.age /\ (l.afresh => k.afresh)
  BY <1>1 DEF Weaker
<1>4. \/ act' = act
      \/ /\ ~l.afresh
         /\ k.pc = "dispatch" /\ InTime(k) /\ Gov!SecretStands' =>
              act'.st \in {"claimed", "dispatched"} /\ act'.left = act.left
  BY <1>1
<1>5. /\ l.afresh => act'.st \in Gov!requires_hold_drain
      /\ l.pc = "reconcile" => ~Gov!SecretStands'
      /\ l.pc = "tombstone" /\ l.afresh => act'.left <= 0
  BY <1>2, <1>3, <1>4 DEF Acting
<1>6. l.pc = "dispatch" /\ InTime(l) /\ Gov!SecretStands' =>
         act'.st \in {"claimed", "dispatched"} /\ act'.left + l.age > Bound
  BY <1>2, <1>3, <1>4 DEF Acting, InTime
<1> QED
  BY <1>1, <1>5, <1>6 DEF Acting

\* What is left to show of a step.
LEMMA StepInv ==
    ASSUME Assumptions, GInv, Types', Onward, Offboards', Begins', Provided', Gov!HoldMeansDrained',
           \A j \in Jobs :
             \/ job'[j].phase = job[j].phase
             \/ Promoted(j) /\ \A v \in Workers : wk[v].job = j => ~wk'[v].fresh,
           "offboarding" \in Jobs /\ job["offboarding"].ten => job'["offboarding"].ten,
           \A v \in Workers :
             \/ Reported(wk[v])' /\ Acting(wk[v])'
             \/ /\ Weaker(wk'[v], wk[v])
                /\ \/ act' = act
                   \/ /\ ~wk'[v].afresh
                      /\ wk[v].pc = "dispatch" /\ InTime(wk[v]) /\ Gov!SecretStands' =>
                           act'.st \in {"claimed", "dispatched"} /\ act'.left = act.left
    PROVE  GInv'
<1>1. Gov!PhaseIsEarned'
  BY PhaseKept
<1>3. Leaves'
  <2> DEFINE j == "erasure"   p == job[j].phase   q == job'[j].phase
  <2>1. SUFFICES ASSUME j \in Jobs, data'[j].ident = "gone" PROVE q \in Gov!From("suppressed")
    BY DEF Leaves
  <2>2. p \in Gov!From("suppressed")
    BY <2>1 DEF GInv, Leaves, Onward, Gov!From
  <2>3. q = p \/ q = Gov!NextPhase(j)
    BY <2>1 DEF Promoted
  <2>4. Gov!NextPhase(j) \in {"replica", "retention"}
    BY <2>2 DEF Gov!NextPhase, Gov!From
  <2> HIDE DEF p, q
  <2> QED
    BY <2>2, <2>3, <2>4 DEF Gov!From
<1>2. ASSUME NEW v \in Workers PROVE Reported(wk[v])' /\ Acting(wk[v])'
  <2>1. SUFFICES ASSUME ~(Reported(wk[v])' /\ Acting(wk[v])')
                 PROVE  Reported(wk[v])' /\ Acting(wk[v])'
    OBVIOUS
  <2>2. /\ Weaker(wk'[v], wk[v])
        /\ \/ act' = act
           \/ /\ ~wk'[v].afresh
              /\ wk[v].pc = "dispatch" /\ InTime(wk[v]) /\ Gov!SecretStands' =>
                   act'.st \in {"claimed", "dispatched"} /\ act'.left = act.left
    BY <2>1
  <2>3. Reported(wk[v])'
    BY <2>2, ReportKept
  <2>4. Acting(wk[v])'
    BY <2>2, ActingKept DEF Onward
  <2> QED
    BY <2>3, <2>4
<1> QED
  BY <1>1, <1>2, <1>3 DEF GInv

\* A step of one worker that changes nothing else, or what a lemma below says.
LEMMA WorkerInv ==
    ASSUME Assumptions, GInv, NEW w \in Workers, NEW k \in WorkerV,
           wk' = [wk EXCEPT ![w] = k], Reported(k), Acting(k),
           UNCHANGED <<hold, job, frozen, data, act, secret>>
    PROVE  GInv'
<1>1. \A v \in Workers : wk'[v] = wk[v] \/ wk'[v] = k
  BY DEF GInv, Types
<1>0. Types' /\ k.pc \in WorkerPCs
  BY DEF GInv, Types, WorkerV
<1>2. Types' /\ Onward
  BY <1>0 DEF Onward, Gov!SecretStands
<1>3. Reported(k)' /\ Acting(k)'
  BY DEF Reported, Goal, Gov!UserLives, Acting, Gov!SecretStands
<1>4. ASSUME NEW v \in Workers
      PROVE  (Reported(wk[v])' /\ Acting(wk[v])') \/ Weaker(wk'[v], wk[v])
  <2>1. CASE wk'[v] = k
    BY <1>3, <2>1 DEF Reported, Acting, Goal
  <2>2. CASE wk'[v] = wk[v]
    BY <2>2 DEF Weaker
  <2> QED
    BY <1>1, <2>1, <2>2
<1>5. Offboards' /\ Begins' /\ Provided' /\ Gov!HoldMeansDrained'
  BY DEF GInv, Offboards, Begins, Provided, Gov!SecretStands, Gov!HoldMeansDrained
<1> QED
  BY <1>2, <1>4, <1>5, StepInv

\* A write of the data, with or without a step of the worker.
LEMMA DataInv ==
    ASSUME Assumptions, GInv, Onward, data' \in [Jobs -> DataV],
           \/ wk' = wk
           \/ \E w \in Workers, k \in WorkerV :
                wk' = [wk EXCEPT ![w] = k] /\ Reported(k)' /\ Acting(k),
           UNCHANGED <<hold, job, frozen, act, secret>>
    PROVE  GInv'
<1>1. Types'
  BY DEF GInv, Types
<1>2. ASSUME NEW v \in Workers
      PROVE  (Reported(wk[v])' /\ Acting(wk[v])') \/ Weaker(wk'[v], wk[v])
  <2>1. CASE wk'[v] = wk[v]
    BY <2>1 DEF Weaker
  <2>2. ASSUME NEW k \in WorkerV, wk'[v] = k, Reported(k)', Acting(k)
        PROVE  Reported(wk[v])' /\ Acting(wk[v])'
    <3>1. Acting(k)'
      BY <2>2 DEF Acting, Gov!SecretStands
    <3> QED
      BY <2>2, <3>1 DEF Reported, Acting, Goal
  <2>3. wk'[v] = wk[v] \/ \E k \in WorkerV : wk'[v] = k /\ Reported(k)' /\ Acting(k)
    BY DEF GInv, Types
  <2> QED
    BY <2>1, <2>2, <2>3
<1>3. Offboards' /\ Begins' /\ Provided' /\ Gov!HoldMeansDrained'
  BY DEF GInv, Offboards, Begins, Provided, Gov!SecretStands, Gov!HoldMeansDrained
<1> QED
  BY <1>1, <1>2, <1>3, StepInv

\* A write of the job records that keeps their phases and the tenant revisions.
LEMMA JobInv ==
    ASSUME Assumptions, GInv, job' \in [Jobs -> JobV], wk' \in [Workers -> WorkerV],
           hold' \in {"disabled", "enabling", "enabled"}, frozen' \in BOOLEAN,
           UNCHANGED <<data, act, secret>>,
           frozen => frozen',
           \A j \in Jobs : job'[j].phase = job[j].phase,
           Offboards', Begins', Gov!HoldMeansDrained',
           "offboarding" \in Jobs /\ job["offboarding"].ten => job'["offboarding"].ten,
           \A v \in Workers : Weaker(wk'[v], wk[v]) \/ (Reported(wk[v])' /\ Acting(wk[v])')
    PROVE  GInv'
<1>0. Types'
  BY DEF GInv, Types
<1>1. Onward
  BY DEF Onward, Gov!SecretStands
<1>2. Provided'
  BY DEF GInv, Provided, Gov!SecretStands
<1> QED
  BY <1>0, <1>1, <1>2, StepInv

-----------------------------------------------------------------------------
(* The shapes in which an action writes the workers *)

\* A worker that only moves to another point.
LEMMA GotoIs ==
    ASSUME Types, NEW w \in Workers, NEW pc \in WorkerPCs, Gov!Goto(w, pc)
    PROVE  \E k \in WorkerV :
             /\ wk' = [wk EXCEPT ![w] = k]
             /\ k.pc = pc /\ k.job = wk[w].job /\ k.age = wk[w].age /\ k.fresh = wk[w].fresh
             /\ k.pcur = wk[w].pcur /\ k.afresh = wk[w].afresh /\ k.drain = wk[w].drain
             /\ k.out = wk[w].out
<1>1. PICK k : k = [wk[w] EXCEPT !.pc = pc]
  OBVIOUS
<1>2. wk' = [wk EXCEPT ![w] = k]
  BY <1>1 DEF Gov!Goto, Types
<1>3. k \in WorkerV /\ wk[w] \in WorkerV
  BY <1>1 DEF Types, WorkerV
<1> QED
  BY <1>1, <1>2, <1>3 DEF WorkerV

\* A worker that ends its phase with the result out.
LEMMA FinishIs ==
    ASSUME Types, NEW w \in Workers, NEW out \in Outs, Gov!Finish(w, out)
    PROVE  \E k \in WorkerV :
             /\ wk' = [wk EXCEPT ![w] = k]
             /\ k.pc = "release" /\ k.job = wk[w].job /\ k.age = wk[w].age
             /\ k.fresh = wk[w].fresh /\ k.afresh = wk[w].afresh /\ k.drain = wk[w].drain
             /\ k.out = out
<1>1. PICK k : k = [wk[w] EXCEPT !.pc = "release", !.out = out]
  OBVIOUS
<1>2. wk' = [wk EXCEPT ![w] = k]
  BY <1>1 DEF Gov!Finish, Types
<1>3. "release" \in WorkerPCs
  BY DEF WorkerPCs
<1>4. k \in WorkerV /\ wk[w] \in WorkerV
  BY <1>1, <1>3 DEF Types, WorkerV, Outs
<1> QED
  BY <1>1, <1>2, <1>4 DEF WorkerV

\* The copies of job j are out of date, and nothing else of the workers changes.
LEMMA StaleIs ==
    ASSUME Types, NEW j
    PROVE  /\ Gov!Stale(wk, j) \in [Workers -> WorkerV]
           /\ \A v \in Workers :
                /\ Weaker(Gov!Stale(wk, j)[v], wk[v])
                /\ wk[v].job = j => ~Gov!Stale(wk, j)[v].fresh
                /\ Gov!Stale(wk, j)[v].pcur = wk[v].pcur /\ Gov!Stale(wk, j)[v].afresh = wk[v].afresh
<1>1. ASSUME NEW v \in Workers
      PROVE  /\ Gov!Stale(wk, j)[v] \in WorkerV
             /\ Weaker(Gov!Stale(wk, j)[v], wk[v])
             /\ wk[v].job = j => ~Gov!Stale(wk, j)[v].fresh
             /\ Gov!Stale(wk, j)[v].pcur = wk[v].pcur /\ Gov!Stale(wk, j)[v].afresh = wk[v].afresh
  <2>1. PICK k \in WorkerV : k = wk[v]
    BY DEF Types
  <2>2. Gov!Stale(wk, j)[v] = IF k.job = j THEN [k EXCEPT !.fresh = FALSE] ELSE k
    BY <2>1 DEF Gov!Stale
  <2> QED
    BY <2>1, <2>2 DEF WorkerV, Weaker
<1> QED
  BY <1>1 DEF Gov!Stale

\* The copies of the action's record are out of date, and nothing else of the workers changes.
LEMMA StaleActIs ==
    ASSUME Types
    PROVE  /\ Gov!StaleAct(wk) \in [Workers -> WorkerV]
           /\ \A v \in Workers :
                /\ Weaker(Gov!StaleAct(wk)[v], wk[v]) /\ ~Gov!StaleAct(wk)[v].afresh
                /\ Gov!StaleAct(wk)[v].pcur = wk[v].pcur /\ Gov!StaleAct(wk)[v].fresh = wk[v].fresh
<1>1. ASSUME NEW v \in Workers
      PROVE  /\ Gov!StaleAct(wk)[v] \in WorkerV
             /\ Weaker(Gov!StaleAct(wk)[v], wk[v]) /\ ~Gov!StaleAct(wk)[v].afresh
             /\ Gov!StaleAct(wk)[v].pcur = wk[v].pcur /\ Gov!StaleAct(wk)[v].fresh = wk[v].fresh
  <2>1. PICK k \in WorkerV : k = wk[v]
    BY DEF Types
  <2>2. Gov!StaleAct(wk)[v] = [k EXCEPT !.afresh = FALSE]
    BY <2>1 DEF Gov!StaleAct
  <2> QED
    BY <2>1, <2>2 DEF WorkerV, Weaker
<1> QED
  BY <1>1 DEF Gov!StaleAct

-----------------------------------------------------------------------------
(* Steps of one worker that write nothing but its lease and the queue *)

\* A pass begins, under the hold or not.
LEMMA PassInv ==
    ASSUME Assumptions, GInv, NEW w \in Workers, NEW j \in Jobs, Gov!BeginHeld(w, j) \/ Gov!BeginWork(w, j)
    PROVE  GInv'
<1>1. PICK pc \in {"drain", "block", "work"} :
        /\ wk' = [wk EXCEPT ![w] = Gov!Pass(j, pc)]
        /\ pc = "work" => job[j].st \in Gov!Claimable
  BY DEF Gov!BeginHeld, Gov!BeginWork, Gov!Live
<1>2. PICK k : k = Gov!Pass(j, pc)
  OBVIOUS
<1>9. Gov!Idle \in WorkerV /\ ~Gov!Idle.drain /\ ~Gov!Idle.afresh /\ Gov!Idle.out = "same"
  BY DEF Assumptions, Gov!TimesAssumption, Gov!Idle, WorkerV, WorkerPCs, Outs
<1>7. PICK idle \in WorkerV : idle = Gov!Idle /\ ~idle.drain /\ ~idle.afresh /\ idle.out = "same"
  BY <1>9
<1>8. k = [idle EXCEPT !.pc = pc, !.job = j, !.fresh = TRUE, !.pcur = TRUE]
  BY <1>2, <1>7 DEF Gov!Pass
<1>3. /\ k \in WorkerV
      /\ k.pc = pc /\ k.job = j /\ ~k.drain /\ ~k.afresh /\ k.out = "same"
  BY <1>1, <1>7, <1>8 DEF WorkerV, WorkerPCs
<1>4. pc = "work" /\ j = "offboarding" => job["offboarding"].ten
  BY <1>1 DEF GInv, Offboards
<1>5. Reported(k) /\ Acting(k)
  BY <1>1, <1>3, <1>4 DEF Reported, Acting, InWork
<1>6. UNCHANGED <<hold, job, frozen, data, act, secret>>
  BY DEF Gov!BeginHeld, Gov!BeginWork
<1> QED
  BY <1>1, <1>2, <1>3, <1>5, <1>6, WorkerInv

\* An invocation that ends, by an answer, an error or a kill.
LEMMA IdleInv ==
    ASSUME Assumptions, GInv, NEW w \in Workers, Gov!EndCommand(w) \/ Gov!FailCommand(w) \/ Gov!Killed(w)
    PROVE  GInv'
<1>1. wk' = [wk EXCEPT ![w] = Gov!Idle] /\ UNCHANGED <<hold, job, frozen, data, act, secret>>
  BY DEF Gov!EndCommand, Gov!FailCommand, Gov!Killed
<1>2. Gov!Idle \in WorkerV /\ Reported(Gov!Idle) /\ Acting(Gov!Idle)
  BY DEF Assumptions, Gov!TimesAssumption, Gov!Idle, WorkerV, WorkerPCs, Outs, Reported, Acting,
         InWork, Before
<1> QED
  BY <1>1, <1>2, WorkerInv

\* A worker that leaves for another step of the pass.
LEMMA GotoInv ==
    ASSUME Assumptions, GInv, NEW w \in Workers, NEW pc \in WorkerPCs, Gov!Goto(w, pc),
           UNCHANGED <<hold, job, frozen, data, act, secret>>,
           wk[w].pc # "idle",
           pc \in InWork => wk[w].pc \in InWork,
           pc \in {"work", "release", "checkpoint"} => ~wk[w].drain,
           pc \in Before => wk[w].pc \in Before,
           pc \in {"release", "checkpoint"} => wk[w].pc \in Before \cup {"release"},
           pc # "dispatch" /\ pc # "tombstone",
           pc = "reconcile" => ~Gov!SecretStands
    PROVE  GInv'
<1>1. PICK k \in WorkerV :
        /\ wk' = [wk EXCEPT ![w] = k]
        /\ k.pc = pc /\ k.job = wk[w].job /\ k.age = wk[w].age /\ k.fresh = wk[w].fresh
        /\ k.pcur = wk[w].pcur /\ k.afresh = wk[w].afresh /\ k.drain = wk[w].drain
        /\ k.out = wk[w].out
  BY GotoIs DEF GInv
<1>2. Reported(wk[w]) /\ Acting(wk[w])
  BY DEF GInv
<1>3. Reported(k)
  BY <1>1, <1>2 DEF Reported, InWork, Before
<1>4. Acting(k)
  BY <1>1, <1>2 DEF Acting
<1> QED
  BY <1>1, <1>3, <1>4, WorkerInv

\* A worker that ends its phase; what it reports done is done.
LEMMA FinishInv ==
    ASSUME Assumptions, GInv, NEW w \in Workers, NEW out \in Outs, Gov!Finish(w, out),
           UNCHANGED <<hold, job, frozen, data, act, secret>>,
           wk[w].pc = "work",
           out = "next" => Goal(wk[w].job, job[wk[w].job].phase)
    PROVE  GInv'
<1>1. PICK k \in WorkerV :
        /\ wk' = [wk EXCEPT ![w] = k]
        /\ k.pc = "release" /\ k.job = wk[w].job /\ k.age = wk[w].age
        /\ k.fresh = wk[w].fresh /\ k.afresh = wk[w].afresh /\ k.drain = wk[w].drain
        /\ k.out = out
  BY FinishIs DEF GInv
<1>2. Reported(wk[w]) /\ Acting(wk[w])
  BY DEF GInv
<1>3. Reported(k)
  BY <1>1, <1>2 DEF Reported, InWork, Before
<1>4. Acting(k)
  BY <1>1, <1>2 DEF Acting
<1> QED
  BY <1>1, <1>3, <1>4, WorkerInv

\* A worker that finds its phase done already, or ends it with a refusal.
LEMMA PhaseInv ==
    ASSUME Assumptions, GInv, NEW w \in Workers,
           \/ Gov!FenceConflict(w) \/ Gov!UserCleaned(w) \/ Gov!SuppressionsWritten(w)
           \/ Gov!VerifyReplicas(w)
           \/ Gov!OffboardingIntent(w) \/ Gov!WaitForChild(w) \/ Gov!NoUserLeft(w)
    PROVE  GInv'
<1>1. wk[w].pc = "work" /\ UNCHANGED <<hold, job, frozen, data, act, secret>>
  BY DEF Gov!FenceConflict, Gov!UserCleaned, Gov!SuppressionsWritten, Gov!VerifyReplicas,
         Gov!OffboardingIntent,
         Gov!WaitForChild, Gov!NoUserLeft, Gov!Working, Gov!At
<1>2. CASE Gov!FenceConflict(w)
  BY <1>1, <1>2, FinishInv DEF Gov!FenceConflict, Outs
<1>3. CASE Gov!UserCleaned(w)
  <2>1. Goal(wk[w].job, job[wk[w].job].phase)
    BY <1>3 DEF Gov!UserCleaned, Gov!Working, Goal
  <2> QED
    BY <1>1, <1>3, <2>1, FinishInv DEF Gov!UserCleaned, Outs
<1>4. CASE Gov!SuppressionsWritten(w)
  <2>1. Goal(wk[w].job, job[wk[w].job].phase)
    BY <1>4 DEF Gov!SuppressionsWritten, Gov!Working, Goal
  <2> QED
    BY <1>1, <1>4, <2>1, FinishInv DEF Gov!SuppressionsWritten, Outs
<1>5. CASE Gov!VerifyReplicas(w)
  <2>1. Goal(wk[w].job, job[wk[w].job].phase)
    BY <1>5 DEF Gov!VerifyReplicas, Gov!Working, Goal
  <2> QED
    BY <1>1, <1>5, <2>1, FinishInv DEF Gov!VerifyReplicas, Outs
<1>6. CASE Gov!OffboardingIntent(w)
  <2>1. Goal(wk[w].job, job[wk[w].job].phase)
    BY <1>6 DEF Gov!OffboardingIntent, Gov!Working, Goal
  <2> QED
    BY <1>1, <1>6, <2>1, FinishInv DEF Gov!OffboardingIntent, Outs
<1>7. CASE Gov!WaitForChild(w)
  <2>1. PICK out \in {"childless", "blocked", "same"} : Gov!Finish(w, out)
    BY <1>7 DEF Gov!WaitForChild
  <2> QED
    BY <1>1, <2>1, FinishInv DEF Outs
<1>8. CASE Gov!NoUserLeft(w)
  <2>1. Goal(wk[w].job, job[wk[w].job].phase)
    BY <1>8 DEF Gov!NoUserLeft, Gov!Working, Goal
  <2> QED
    BY <1>1, <1>8, <2>1, FinishInv DEF Gov!NoUserLeft, Outs
<1> QED
  BY <1>2, <1>3, <1>4, <1>5, <1>6, <1>7, <1>8

\* A worker that goes on to the next point of the pass.
LEMMA PassageInv ==
    ASSUME Assumptions, GInv, NEW w \in Workers,
           \/ Gov!ResumeAction(w) \/ Gov!ActionOver(w) \/ Gov!LeaveClaim(w) \/ Gov!WaitForLeases(w)
           \/ Gov!release_phase_lease(w)
    PROVE  GInv'
<1>1. UNCHANGED <<hold, job, frozen, data, act, secret>>
  BY DEF Gov!ResumeAction, Gov!ActionOver, Gov!LeaveClaim, Gov!WaitForLeases,
         Gov!release_phase_lease
<1>2. Reported(wk[w])
  BY DEF GInv
<1>3. PICK pc \in WorkerPCs :
        /\ Gov!Goto(w, pc) /\ wk[w].pc # "idle"
        /\ pc \in {"inspect", "settle", "release", "block", "checkpoint", "error"}
        /\ pc \in InWork => wk[w].pc \in InWork
        /\ pc \in {"release", "checkpoint"} => ~wk[w].drain /\ wk[w].pc \in Before \cup {"release"}
        /\ pc = "inspect" => wk[w].pc = "work"
  <2>1. CASE Gov!ResumeAction(w)
    BY <2>1 DEF Gov!ResumeAction, Gov!AtSecrets, Gov!Working, Gov!At, WorkerPCs, InWork
  <2>2. CASE Gov!ActionOver(w) \/ Gov!LeaveClaim(w)
    BY <2>2 DEF Gov!ActionOver, Gov!LeaveClaim, Gov!AfterAction, Gov!At, WorkerPCs, InWork, Before
  <2>3. CASE Gov!WaitForLeases(w)
    BY <2>3 DEF Gov!WaitForLeases, Gov!At, WorkerPCs, InWork
  <2>4. CASE Gov!release_phase_lease(w)
    BY <1>2, <2>4 DEF Gov!release_phase_lease, Gov!At, WorkerPCs, InWork, Reported
  <2> QED
    BY <2>1, <2>2, <2>3, <2>4
<1> QED
  BY <1>1, <1>3, GotoInv DEF Before

\* A worker that reads the record of the action, drains, or gives up its phase.
LEMMA LookInv ==
    ASSUME Assumptions, GInv, NEW w \in Workers,
           Gov!ObserveDeletion(w) \/ Gov!FindExpired(w) \/ Gov!Drain(w) \/ Gov!SettleConflict(w) \/ Gov!Fail(w)
    PROVE  GInv'
<1>1. UNCHANGED <<hold, job, frozen, data, act, secret>>
  BY DEF Gov!ObserveDeletion, Gov!FindExpired, Gov!Drain, Gov!SettleConflict, Gov!Fail
<1>2. Reported(wk[w]) /\ Acting(wk[w]) /\ wk[w] \in WorkerV
  BY DEF GInv, Types
<1>3. CASE Gov!ObserveDeletion(w)
  <2>1. PICK k : k = [wk[w] EXCEPT !.pc = "reconcile", !.afresh = TRUE]
    OBVIOUS
  <2>2. wk' = [wk EXCEPT ![w] = k] /\ wk[w].pc = "inspect"
    BY <1>3, <2>1 DEF Gov!ObserveDeletion, GInv, Types, Gov!At
  <2>3. /\ k \in WorkerV /\ k.pc = "reconcile" /\ k.job = wk[w].job
        /\ k.drain = wk[w].drain /\ k.out = wk[w].out
    BY <1>2, <2>1 DEF WorkerV, WorkerPCs
  <2>4. Reported(k)
    BY <1>2, <2>2, <2>3 DEF Reported, InWork, Before
  <2>5. Acting(k)
    BY <1>3, <2>3 DEF Acting, Gov!ObserveDeletion
  <2> QED
    BY <1>1, <2>2, <2>3, <2>4, <2>5, WorkerInv
<1>4. CASE Gov!FindExpired(w)
  <2>1. PICK k : k = [wk[w] EXCEPT !.pc = "tombstone", !.afresh = TRUE]
    OBVIOUS
  <2>2. wk' = [wk EXCEPT ![w] = k] /\ wk[w].pc = "inspect"
    BY <1>4, <2>1 DEF Gov!FindExpired, GInv, Types, Gov!At
  <2>3. /\ k \in WorkerV /\ k.pc = "tombstone" /\ k.job = wk[w].job
        /\ k.drain = wk[w].drain /\ k.out = wk[w].out
    BY <1>2, <2>1 DEF WorkerV, WorkerPCs
  <2>4. Reported(k)
    BY <1>2, <2>2, <2>3 DEF Reported, InWork, Before
  <2>5. act.left <= 0
    BY <1>2, <1>4 DEF Gov!FindExpired, Gov!Seen, GInv, Types, WorkerV, Assumptions,
                      Gov!TimesAssumption
  <2>6. Acting(k)
    BY <1>4, <2>3, <2>5 DEF Acting, Gov!FindExpired, Gov!requires_hold_drain
  <2> QED
    BY <1>1, <2>2, <2>3, <2>4, <2>6, WorkerInv
<1>5. CASE Gov!Drain(w)
  <2>0. PICK pc \in {"inspect", "settle"} : wk' = [wk EXCEPT ![w].pc = pc, ![w].drain = TRUE]
    BY <1>5 DEF Gov!Drain
  <2>1. PICK k : k = [wk[w] EXCEPT !.pc = pc, !.drain = TRUE]
    OBVIOUS
  <2>2. wk' = [wk EXCEPT ![w] = k] /\ wk[w].pc = "drain"
    BY <1>5, <2>0, <2>1 DEF Gov!Drain, GInv, Types, Gov!At
  <2>3. /\ k \in WorkerV /\ k.pc = pc /\ k.job = wk[w].job /\ k.afresh = wk[w].afresh
        /\ k.drain /\ k.out = wk[w].out
    BY <1>2, <2>1 DEF WorkerV, WorkerPCs
  <2>4. Reported(k)
    BY <1>2, <2>2, <2>3 DEF Reported, InWork, Before
  <2>5. Acting(k)
    BY <1>2, <2>3 DEF Acting
  <2> QED
    BY <1>1, <2>2, <2>3, <2>4, <2>5, WorkerInv
<1>6. CASE Gov!SettleConflict(w)
  <2>0. PICK pc \in {"block", "error"} : wk' = [wk EXCEPT ![w].pc = pc, ![w].pcur = TRUE]
    BY <1>6 DEF Gov!SettleConflict
  <2>1. PICK k : k = [wk[w] EXCEPT !.pc = pc, !.pcur = TRUE]
    OBVIOUS
  <2>2. wk' = [wk EXCEPT ![w] = k] /\ wk[w].pc = "settle"
    BY <1>6, <2>0, <2>1 DEF Gov!SettleConflict, GInv, Types, Gov!At
  <2>3. /\ k \in WorkerV /\ k.pc = pc /\ k.job = wk[w].job /\ k.afresh = wk[w].afresh
        /\ k.drain = wk[w].drain /\ k.out = wk[w].out
    BY <1>2, <2>1 DEF WorkerV, WorkerPCs
  <2>4. Reported(k)
    BY <1>2, <2>2, <2>3 DEF Reported, InWork, Before
  <2>5. Acting(k)
    BY <1>2, <2>3 DEF Acting
  <2> QED
    BY <1>1, <2>2, <2>3, <2>4, <2>5, WorkerInv
<1>7. CASE Gov!Fail(w)
  <2>0. PICK pc \in {"error", "release"} :
          /\ wk' = [wk EXCEPT ![w].pc = pc, ![w].out = "fail"]
          /\ pc = "release" => ~wk[w].drain
    BY <1>7 DEF Gov!Fail
  <2>1. PICK k : k = [wk[w] EXCEPT !.pc = pc, !.out = "fail"]
    OBVIOUS
  <2>2. /\ wk' = [wk EXCEPT ![w] = k]
        /\ wk[w].pc \in {"work", "inspect", "dispatch", "reconcile", "tombstone"}
    BY <1>7, <2>0, <2>1 DEF Gov!Fail, GInv, Types
  <2>3. /\ k \in WorkerV /\ k.pc = pc /\ k.job = wk[w].job /\ k.afresh = wk[w].afresh
        /\ k.drain = wk[w].drain /\ k.out = "fail"
    BY <1>2, <2>1 DEF WorkerV, WorkerPCs, Outs
  <2>4. Reported(k)
    BY <1>2, <2>0, <2>2, <2>3 DEF Reported, InWork, Before
  <2>5. Acting(k)
    BY <1>2, <2>3 DEF Acting
  <2> QED
    BY <1>1, <2>2, <2>3, <2>4, <2>5, WorkerInv
<1> QED
  BY <1>3, <1>4, <1>5, <1>6, <1>7

-----------------------------------------------------------------------------
(* Writes of the data *)

\* A login writes a row of the user, as long as the user is active.
LEMMA WriteInv ==
    ASSUME Assumptions, GInv, NEW r \in Rows, Gov!WriteUserRow(r)
    PROVE  GInv'
<1>1. PICK e, d : e = "erasure" /\ d = [data[e] EXCEPT !.rows = @ \union {r}]
  OBVIOUS
<1>2. /\ e \in Jobs /\ data[e].ident = "active" /\ data' = [data EXCEPT ![e] = d]
      /\ d \in DataV /\ d.ident = "active" /\ d.supp = data[e].supp
  BY <1>1 DEF Gov!WriteUserRow, GInv, Types, DataV
<1>3. Onward
  <2>1. \A j \in Jobs : data'[j] = IF j = e THEN d ELSE data[j]
    BY <1>2 DEF GInv, Types
  <2>2. UNCHANGED <<frozen, act, secret>>
    BY DEF Gov!WriteUserRow
  <2> QED
    BY <1>1, <1>2, <2>1, <2>2 DEF Onward, Gov!SecretStands
<1>4. data' \in [Jobs -> DataV]
  BY <1>2 DEF GInv, Types
<1> QED
  BY <1>3, <1>4, DataInv DEF Gov!WriteUserRow

\* A worker that destroys, and may end its phase with it.
LEMMA DestroyInv ==
    ASSUME Assumptions, GInv, NEW w \in Workers, NEW j \in Jobs, NEW d \in DataV,
           wk[w].pc = "work", wk[w].job = j, Gov!Destroy(w, j, d),
           data[j].ident # "active" => d.ident # "active",
           data[j].ident = "gone" => d.ident = "gone",
           d.ident = "gone" /\ data[j].ident # "gone" => j = "erasure" /\ job[j].phase = "suppressed",
           data[j].supp \subseteq d.supp,
           d.rows \subseteq data[j].rows,
           NEW out \in Outs,
           wk' = wk \/ Gov!Finish(w, out),
           out = "next" => Goal(j, job[j].phase)'
    PROVE  GInv'
<1>1. /\ data' = [data EXCEPT ![j] = d] /\ data' \in [Jobs -> DataV]
      /\ UNCHANGED <<hold, job, frozen, act, secret>>
  BY DEF Gov!Destroy, GInv, Types
<1>2. \A i \in Jobs : data'[i] = IF i = j THEN d ELSE data[i]
  BY <1>1 DEF GInv, Types
<1>3. Onward
  BY <1>1, <1>2 DEF Onward, Gov!SecretStands
<1>4. CASE wk' = wk
  BY <1>1, <1>3, <1>4, DataInv
<1>5. CASE Gov!Finish(w, out)
  <2>1. PICK k \in WorkerV :
          /\ wk' = [wk EXCEPT ![w] = k]
          /\ k.pc = "release" /\ k.job = wk[w].job /\ k.age = wk[w].age
          /\ k.fresh = wk[w].fresh /\ k.afresh = wk[w].afresh /\ k.drain = wk[w].drain
          /\ k.out = out
    BY <1>5, FinishIs DEF GInv
  <2>2. Reported(wk[w]) /\ Acting(wk[w])
    BY DEF GInv
  <2>3. Reported(k)'
    <3>1. /\ k.job = "offboarding" /\ ~k.drain /\ k.pc \in InWork => job'["offboarding"].ten
          /\ ~k.drain
      BY <1>1, <2>1, <2>2 DEF Reported, InWork
    <3>2. k.out = "next" => Goal(k.job, job[k.job].phase)'
      BY <2>1 DEF Goal
    <3> QED
      BY <2>1, <3>1, <3>2 DEF Reported, Before
  <2>4. Acting(k)
    BY <2>1, <2>2 DEF Acting
  <2> QED
    BY <1>1, <1>3, <2>1, <2>3, <2>4, DataInv
<1> QED
  BY <1>4, <1>5

\* The user is fenced: no login writes a row of it any more.
LEMMA FenceUserInv ==
    ASSUME Assumptions, GInv, NEW w \in Workers, Gov!fence_user_identity(w)
    PROVE  GInv'
<1>1. Reported(wk[w]) /\ "next" \in Outs
  BY DEF GInv, Outs
<1>2. PICK e, d : e = "erasure" /\ d = [data[e] EXCEPT !.ident = "fenced"]
  OBVIOUS
<1>3. /\ wk[w].pc = "work" /\ wk[w].job = e /\ job[e].phase = "intent" /\ Gov!Destroy(w, e, d)
      /\ Gov!Finish(w, "next") /\ UNCHANGED job
  BY <1>2 DEF Gov!fence_user_identity, Gov!Working, Gov!At, Gov!Destroy
<1>4. e \in Jobs
  BY <1>1, <1>3 DEF Reported
<1>5. /\ d \in DataV /\ d.ident = "fenced" /\ d.rows = data[e].rows /\ d.supp = data[e].supp
      /\ data'[e] = d
  BY <1>2, <1>3, <1>4 DEF GInv, Types, DataV, Gov!Destroy
<1>6. data[e].ident # "gone"
  BY <1>2, <1>3, <1>4 DEF GInv, Leaves, Gov!From
<1>7. Goal(e, job[e].phase)'
  BY <1>2, <1>3, <1>5 DEF Goal
<1> QED
  BY <1>1, <1>3, <1>4, <1>5, <1>6, <1>7, DestroyInv

\* A row of authority is deleted.
LEMMA RowInv ==
    ASSUME Assumptions, GInv, NEW w \in Workers, NEW r \in Rows, Gov!DeleteRow(w, r)
    PROVE  GInv'
<1>1. Reported(wk[w]) /\ "same" \in Outs
  BY DEF GInv, Outs
<1>2. PICK e : /\ wk[w].pc = "work" /\ wk[w].job = e
               /\ Gov!Destroy(w, e, [data[e] EXCEPT !.rows = @ \ {r}])
               /\ wk' = wk \/ Gov!Finish(w, "same")
  BY DEF Gov!DeleteRow, Gov!Working, Gov!At
<1>3. e \in Jobs
  BY <1>1, <1>2 DEF Reported
<1>4. PICK d : d = [data[e] EXCEPT !.rows = @ \ {r}]
  OBVIOUS
<1>5. /\ d \in DataV /\ d.ident = data[e].ident /\ d.rows \subseteq data[e].rows
      /\ d.supp = data[e].supp
  BY <1>3, <1>4 DEF GInv, Types, DataV
<1> QED
  BY <1>1, <1>2, <1>3, <1>4, <1>5, DestroyInv

\* A digest that suppresses an alias is written.
LEMMA SuppressionInv ==
    ASSUME Assumptions, GInv, NEW w \in Workers, NEW a \in Aliases, Gov!put_suppression(w, a)
    PROVE  GInv'
<1>1. Reported(wk[w]) /\ "same" \in Outs
  BY DEF GInv, Outs
<1>2. PICK e, d : e = "erasure" /\ d = [data[e] EXCEPT !.supp = @ \union {a}]
  OBVIOUS
<1>3. wk[w].pc = "work" /\ wk[w].job = e /\ Gov!Destroy(w, e, d) /\ wk' = wk
  BY <1>2 DEF Gov!put_suppression, Gov!Working, Gov!At
<1>4. e \in Jobs
  BY <1>1, <1>3 DEF Reported
<1>5. /\ d \in DataV /\ d.ident = data[e].ident /\ d.rows = data[e].rows
      /\ data[e].supp \subseteq d.supp
  BY <1>2, <1>4 DEF GInv, Types, DataV
<1> QED
  BY <1>1, <1>3, <1>4, <1>5, DestroyInv

\* The identity goes, which only the phase after the suppressions does.
LEMMA IdentityInv ==
    ASSUME Assumptions, GInv, NEW w \in Workers, Gov!delete_user_identity(w)
    PROVE  GInv'
<1>1. Reported(wk[w]) /\ "next" \in Outs
  BY DEF GInv, Outs
<1>2. PICK e, d : e = "erasure" /\ d = [data[e] EXCEPT !.ident = "gone"]
  OBVIOUS
<1>3. /\ wk[w].pc = "work" /\ wk[w].job = e /\ job[e].phase = "suppressed" /\ Gov!Destroy(w, e, d)
      /\ Gov!Finish(w, "next") /\ UNCHANGED job
  BY <1>2 DEF Gov!delete_user_identity, Gov!Working, Gov!At, Gov!Destroy
<1>4. e \in Jobs
  BY <1>1, <1>3 DEF Reported
<1>5. /\ d \in DataV /\ d.ident = "gone" /\ d.rows = data[e].rows /\ d.supp = data[e].supp
      /\ data'[e] = d
  BY <1>2, <1>3, <1>4 DEF GInv, Types, DataV, Gov!Destroy
<1>6. Goal(e, job[e].phase)'
  BY <1>2, <1>3, <1>5 DEF Goal
<1> QED
  BY <1>1, <1>2, <1>3, <1>4, <1>5, <1>6, DestroyInv

\* The suppressions of a tenant are written at once.
LEMMA TenantSuppressionInv ==
    ASSUME Assumptions, GInv, NEW w \in Workers, Gov!write_tenant_suppression(w)
    PROVE  GInv'
<1>1. Reported(wk[w]) /\ "next" \in Outs
  BY DEF GInv, Outs
<1>2. PICK e, d : e = "offboarding" /\ d = [data[e] EXCEPT !.supp = Aliases]
  OBVIOUS
<1>3. /\ wk[w].pc = "work" /\ wk[w].job = e /\ job[e].phase = "cleanup" /\ Gov!Destroy(w, e, d)
      /\ Gov!Finish(w, "next") /\ UNCHANGED <<job, act>>
      /\ data[e].rows = {} /\ act.st = "verified"
  BY <1>2 DEF Gov!write_tenant_suppression, Gov!AtSecrets, Gov!Working, Gov!At, Gov!Destroy
<1>4. e \in Jobs
  BY <1>1, <1>3 DEF Reported
<1>5. /\ d \in DataV /\ d.ident = data[e].ident /\ d.rows = data[e].rows /\ d.supp = Aliases
      /\ data[e].supp \subseteq Aliases /\ data'[e] = d
  BY <1>2, <1>3, <1>4 DEF GInv, Types, DataV, Gov!Destroy
<1>6. Goal(e, job[e].phase)'
  BY <1>2, <1>3, <1>5 DEF Goal
<1> QED
  BY <1>1, <1>2, <1>3, <1>4, <1>5, <1>6, DestroyInv

-----------------------------------------------------------------------------
(* The external action and the secret *)

\* A write of the record of the action, or of the secret, at the hands of worker w.
LEMMA ActInv ==
    ASSUME Assumptions, GInv, NEW w \in Workers,
           UNCHANGED <<hold, job, frozen, data>>,
           act' \in [st : Gov!ActStates, left : -WorkerLimit .. ClaimSecs],
           secret' \in {"replicated", "present", "scheduled", "absent"},
           wk' \in [Workers -> WorkerV],
           act.st = "verified" => act'.st = "verified",
           ~Gov!SecretStands => ~Gov!SecretStands',
           Provided', Gov!HoldMeansDrained',
           \A v \in Workers :
             \/ Reported(wk[v])' /\ Acting(wk[v])'
             \/ /\ Weaker(wk'[v], wk[v])
                /\ \/ act' = act
                   \/ /\ ~wk'[v].afresh
                      /\ wk[v].pc = "dispatch" /\ InTime(wk[v]) /\ Gov!SecretStands' =>
                           act'.st \in {"claimed", "dispatched"} /\ act'.left = act.left
    PROVE  GInv'
<1>1. Types'
  BY DEF GInv, Types
<1>2. Onward
  BY DEF Onward
<1>3. Offboards' /\ Begins'
  BY DEF GInv, Offboards, Begins
<1> QED
  BY <1>1, <1>2, <1>3, StepInv

\* The action's record is created.
LEMMA PrepareInv ==
    ASSUME Assumptions, GInv, NEW w \in Workers, Gov!prepare_external_action(w)
    PROVE  GInv'
<1>1. PICK a : a = [act EXCEPT !.st = "prepared"]
  OBVIOUS
<1>2. /\ act' = a /\ UNCHANGED <<hold, job, frozen, data, secret, wk>> /\ act.st = "none"
      /\ a.st = "prepared" /\ a \in [st : Gov!ActStates, left : -WorkerLimit .. ClaimSecs]
  BY <1>1 DEF Gov!prepare_external_action, GInv, Types, Gov!ActStates
<1>3. ASSUME NEW v \in Workers
      PROVE  /\ Weaker(wk'[v], wk[v]) /\ ~wk'[v].afresh
             /\ ~(wk[v].pc = "dispatch" /\ InTime(wk[v]) /\ Gov!SecretStands')
  BY <1>2 DEF GInv, Acting, Weaker, Gov!SecretStands, Gov!requires_hold_drain
<1>4. Provided' /\ Gov!HoldMeansDrained' /\ (~Gov!SecretStands => ~Gov!SecretStands')
  BY <1>2 DEF Provided, Gov!HoldMeansDrained, Gov!requires_hold_drain, Gov!SecretStands
<1> QED
  BY <1>2, <1>3, <1>4, ActInv DEF GInv, Types

\* The action is claimed: the claim leaves time for the call.
LEMMA ClaimInv ==
    ASSUME Assumptions, GInv, NEW w \in Workers, Gov!claim_external_action(w)
    PROVE  GInv'
<1>0. wk[w] \in WorkerV /\ Reported(wk[w]) /\ Acting(wk[w])
  BY DEF GInv, Types
<1>1. PICK a : a = [st |-> "claimed", left |-> ClaimSecs - wk[w].age]
  OBVIOUS
<1>2. ClaimSecs - wk[w].age \in -WorkerLimit .. ClaimSecs
  BY <1>0 DEF WorkerV, Assumptions, Gov!TimesAssumption
<1>3. /\ act' = a /\ UNCHANGED <<hold, job, frozen, data, secret>> /\ ~Gov!held
      /\ act.st \in {"prepared", "tombstoned"} /\ wk[w].pc = "work"
      /\ a.st = "claimed" /\ a \in [st : Gov!ActStates, left : -WorkerLimit .. ClaimSecs]
  BY <1>1, <1>2 DEF Gov!claim_external_action, Gov!Fence, Gov!ActStates, Gov!AtSecrets,
                    Gov!Working, Gov!At
<1>4. PICK f : f = Gov!StaleAct(wk)
  OBVIOUS
<1>5. f \in [Workers -> WorkerV] /\ \A v \in Workers : Weaker(f[v], wk[v]) /\ ~f[v].afresh
  BY <1>4, StaleActIs DEF GInv
<1>6. PICK k : k = [f[w] EXCEPT !.pc = "inspect"]
  OBVIOUS
<1>7. wk' = [f EXCEPT ![w] = k]
  BY <1>4, <1>5, <1>6 DEF Gov!claim_external_action
<1>8. /\ k \in WorkerV /\ k.pc = "inspect" /\ k.job = wk[w].job /\ k.drain = wk[w].drain
      /\ k.out = wk[w].out /\ ~k.afresh
  BY <1>5, <1>6 DEF WorkerV, WorkerPCs, Weaker
<1>9. wk' \in [Workers -> WorkerV]
  BY <1>5, <1>7, <1>8
<1>10. Reported(wk[w])' /\ Acting(wk[w])'
  <2>1. wk'[w] = k
    BY <1>5, <1>7
  <2>2. Reported(k)' /\ Acting(k)'
    BY <1>0, <1>3, <1>8 DEF Reported, Acting, InWork, Before
  <2> QED
    BY <2>1, <2>2 DEF Reported, Acting, Goal
<1>11. ASSUME NEW v \in Workers, v # w
       PROVE  /\ Weaker(wk'[v], wk[v]) /\ ~wk'[v].afresh
              /\ ~(wk[v].pc = "dispatch" /\ InTime(wk[v]) /\ Gov!SecretStands')
  <2>1. wk'[v] = f[v]
    BY <1>5, <1>7, <1>11
  <2> QED
    BY <1>3, <1>5, <2>1 DEF GInv, Acting, Gov!SecretStands
<1>12. Provided' /\ Gov!HoldMeansDrained' /\ (~Gov!SecretStands => ~Gov!SecretStands')
  BY <1>3 DEF Provided, Gov!HoldMeansDrained, Gov!held, Gov!SecretStands
<1>13. /\ act' \in [st : Gov!ActStates, left : -WorkerLimit .. ClaimSecs]
       /\ secret' \in {"replicated", "present", "scheduled", "absent"}
       /\ act.st # "verified"
  BY <1>3 DEF GInv, Types
<1> QED
  BY <1>3, <1>9, <1>10, <1>11, <1>12, <1>13, ActInv

\* The time a worker that is about to call still has.
LEMMA DispatchTime ==
    ASSUME Assumptions, GInv, NEW v \in Workers, wk[v].pc = "dispatch", InTime(wk[v]), Gov!SecretStands
    PROVE  act.left > 0 /\ act.st \in {"claimed", "dispatched"}
<1>1. /\ act.left + wk[v].age > Bound /\ wk[v].age \in 0 .. WorkerLimit
      /\ act.st \in {"claimed", "dispatched"} /\ act.left \in -WorkerLimit .. ClaimSecs
  BY DEF GInv, Types, WorkerV, Acting
<1> QED
  BY <1>1 DEF Assumptions, Gov!TimesAssumption, InTime

\* A claim is approved for dispatch while there is time left for the call.
LEMMA ApproveInv ==
    ASSUME Assumptions, GInv, NEW w \in Workers, Gov!ApproveDispatch(w)
    PROVE  GInv'
<1>0. wk[w] \in WorkerV /\ Reported(wk[w]) /\ Acting(wk[w])
  BY DEF GInv, Types
<1>1. PICK b \in Gov!ActStates :
        /\ act' = [act EXCEPT !.st = b] /\ b \in {"claimed", "dispatched"}
        /\ UNCHANGED <<hold, job, frozen, data, secret>>
        /\ wk[w].pc = "inspect" /\ act.st \in {"claimed", "dispatched"}
        /\ act.left + wk[w].age > Bound
  <2>1. act = [act EXCEPT !.st = act.st]
    BY DEF GInv, Types
  <2>2. wk[w].pc = "inspect" /\ act.st \in {"claimed", "dispatched"} /\ act.left + wk[w].age > Bound
    BY <1>0 DEF Gov!ApproveDispatch, Gov!TooLate, Gov!Seen, Gov!At, Assumptions,
                Gov!TimesAssumption, GInv, Types, WorkerV
  <2>3. act' = [act EXCEPT !.st = "dispatched"] \/ act' = act
    BY DEF Gov!ApproveDispatch
  <2> QED
    BY <2>1, <2>2, <2>3 DEF Gov!ApproveDispatch, Gov!ActStates
<1>2. PICK a : a = [act EXCEPT !.st = b]
  OBVIOUS
<1>3. /\ act' = a /\ a.st = b /\ a.left = act.left
      /\ a \in [st : Gov!ActStates, left : -WorkerLimit .. ClaimSecs]
  BY <1>1, <1>2 DEF GInv, Types
<1>4. PICK f \in [Workers -> WorkerV] :
        /\ \A v \in Workers : Weaker(f[v], wk[v]) /\ (act' = act \/ ~f[v].afresh)
        /\ wk' = [f EXCEPT ![w].pc = "dispatch", ![w].afresh = TRUE]
  <2>1. CASE act' = act
    <3>1. \/ wk' = [wk EXCEPT ![w].pc = "dispatch", ![w].afresh = TRUE]
          \/ wk' = [Gov!StaleAct(wk) EXCEPT ![w].pc = "dispatch", ![w].afresh = TRUE]
      BY DEF Gov!ApproveDispatch
    <3>2. wk \in [Workers -> WorkerV] /\ \A v \in Workers : Weaker(wk[v], wk[v])
      BY DEF GInv, Types, Weaker
    <3> QED
      BY <2>1, <3>1, <3>2, StaleActIs DEF GInv
  <2>2. CASE wk' = [Gov!StaleAct(wk) EXCEPT ![w].pc = "dispatch", ![w].afresh = TRUE]
    BY <2>2, StaleActIs DEF GInv
  <2> QED
    BY <2>1, <2>2 DEF Gov!ApproveDispatch
<1>6. PICK k : k = [f[w] EXCEPT !.pc = "dispatch", !.afresh = TRUE]
  OBVIOUS
<1>7. wk' = [f EXCEPT ![w] = k]
  BY <1>4, <1>6
<1>8. /\ k \in WorkerV /\ k.pc = "dispatch" /\ k.job = wk[w].job /\ k.drain = wk[w].drain
      /\ k.out = wk[w].out /\ k.afresh /\ k.age = wk[w].age
  BY <1>4, <1>6 DEF WorkerV, WorkerPCs, Weaker
<1>9. wk' \in [Workers -> WorkerV]
  BY <1>4, <1>7, <1>8
<1>10. Reported(wk[w])' /\ Acting(wk[w])'
  <2>1. wk'[w] = k
    BY <1>4, <1>7
  <2>2. Reported(k)'
    BY <1>0, <1>1, <1>8 DEF Reported, InWork, Before
  <2>3. Acting(k)'
    BY <1>1, <1>3, <1>8 DEF Acting, Gov!requires_hold_drain
  <2> QED
    BY <2>1, <2>2, <2>3 DEF Reported, Acting, Goal
<1>11. ASSUME NEW v \in Workers, v # w
       PROVE  /\ Weaker(wk'[v], wk[v])
              /\ \/ act' = act
                 \/ /\ ~wk'[v].afresh
                    /\ wk[v].pc = "dispatch" /\ InTime(wk[v]) /\ Gov!SecretStands' =>
                         act'.st \in {"claimed", "dispatched"} /\ act'.left = act.left
  <2>1. wk'[v] = f[v]
    BY <1>4, <1>7, <1>11
  <2> QED
    BY <1>1, <1>3, <1>4, <2>1
<1>12. Provided' /\ Gov!HoldMeansDrained' /\ (~Gov!SecretStands => ~Gov!SecretStands')
  BY <1>1, <1>3 DEF GInv, Provided, Gov!HoldMeansDrained, Gov!requires_hold_drain,
                    Gov!SecretStands
<1>13. /\ act' \in [st : Gov!ActStates, left : -WorkerLimit .. ClaimSecs]
       /\ secret' \in {"replicated", "present", "scheduled", "absent"}
       /\ act.st # "verified"
  BY <1>1, <1>3 DEF GInv, Types
<1> QED
  BY <1>1, <1>9, <1>10, <1>11, <1>12, <1>13, ActInv

\* The record closed by the revision it was read at, or left alone.
LEMMA CloseInv ==
    ASSUME Assumptions, GInv, NEW w \in Workers,
           Gov!reconcile_external_action(w) \/ Gov!tombstone_expired_claim(w)
    PROVE  GInv'
<1>0. wk[w] \in WorkerV /\ Reported(wk[w]) /\ Acting(wk[w])
  BY DEF GInv, Types
<1>1. /\ UNCHANGED <<hold, job, frozen, data, secret>>
      /\ wk[w].pc \in {"reconcile", "tombstone"}
      /\ Gov!AfterAction(w) \in WorkerPCs /\ Gov!AfterAction(w) \in {"settle", "release"}
      /\ Gov!AfterAction(w) = "release" => ~wk[w].drain
  BY DEF Gov!reconcile_external_action, Gov!tombstone_expired_claim, Gov!At, Gov!AfterAction,
         WorkerPCs
<1>2. CASE ~wk[w].afresh
  <2>1. Gov!Goto(w, Gov!AfterAction(w)) /\ act' = act
    BY <1>2 DEF Gov!reconcile_external_action, Gov!tombstone_expired_claim
  <2> QED
    BY <1>1, <2>1, GotoInv DEF InWork, Before
<1>3. CASE wk[w].afresh
  <2>1. PICK b \in {"verified", "committed", "tombstoned"} :
          /\ act' = [act EXCEPT !.st = b]
          /\ b # "tombstoned" => wk[w].pc = "reconcile"
          /\ b = "tombstoned" => wk[w].pc = "tombstone"
    BY <1>3 DEF Gov!reconcile_external_action, Gov!tombstone_expired_claim, Gov!Outcome, Gov!At
  <2>2. wk' = [Gov!StaleAct(wk) EXCEPT ![w].pc = Gov!AfterAction(w)]
    BY <1>3 DEF Gov!reconcile_external_action, Gov!tombstone_expired_claim
  <2>3. PICK a : a = [act EXCEPT !.st = b]
    OBVIOUS
  <2>4. /\ act' = a /\ a.st = b
        /\ a \in [st : Gov!ActStates, left : -WorkerLimit .. ClaimSecs]
    BY <2>1, <2>3 DEF GInv, Types, Gov!ActStates
  <2>5. PICK f : f = Gov!StaleAct(wk)
    OBVIOUS
  <2>6. f \in [Workers -> WorkerV] /\ \A v \in Workers : Weaker(f[v], wk[v]) /\ ~f[v].afresh
    BY <2>5, StaleActIs DEF GInv
  <2>7. PICK k : k = [f[w] EXCEPT !.pc = Gov!AfterAction(w)]
    OBVIOUS
  <2>8. wk' = [f EXCEPT ![w] = k]
    BY <2>2, <2>5, <2>6, <2>7
  <2>9. /\ k \in WorkerV /\ k.pc = Gov!AfterAction(w) /\ k.job = wk[w].job /\ k.drain = wk[w].drain
        /\ k.out = wk[w].out /\ ~k.afresh
    BY <1>1, <2>6, <2>7 DEF WorkerV, Weaker
  <2>10. wk' \in [Workers -> WorkerV] /\ wk'[w] = k
    BY <2>6, <2>8, <2>9
  <2>11. Reported(wk[w])' /\ Acting(wk[w])'
    <3>1. Reported(k)'
      BY <1>0, <1>1, <2>9 DEF Reported, InWork, Before
    <3>2. Acting(k)'
      BY <1>1, <2>9 DEF Acting
    <3> QED
      BY <2>10, <3>1, <3>2 DEF Reported, Acting, Goal
  <2>12. ASSUME NEW v \in Workers, v # w
         PROVE  /\ Weaker(wk'[v], wk[v]) /\ ~wk'[v].afresh
                /\ ~(wk[v].pc = "dispatch" /\ InTime(wk[v]) /\ Gov!SecretStands')
    <3>1. wk'[v] = f[v]
      BY <2>6, <2>8, <2>12
    <3>2. ASSUME wk[v].pc = "dispatch", InTime(wk[v]), Gov!SecretStands PROVE FALSE
      <4>1. act.left > 0
        BY <3>2, DispatchTime
      <4>2. wk[w].pc = "tombstone" /\ act.left <= 0
        BY <1>0, <1>1, <1>3, <3>2 DEF Acting
      <4> QED
        BY <4>1, <4>2 DEF GInv, Types
    <3> QED
      BY <1>1, <2>6, <3>1, <3>2 DEF Gov!SecretStands
  <2>13. Provided' /\ Gov!HoldMeansDrained' /\ (~Gov!SecretStands => ~Gov!SecretStands')
    BY <1>0, <1>1, <1>3, <2>1, <2>4
       DEF GInv, Provided, Gov!HoldMeansDrained, Gov!requires_hold_drain, Gov!SecretStands, Acting
  <2>14. /\ act' \in [st : Gov!ActStates, left : -WorkerLimit .. ClaimSecs]
         /\ secret' \in {"replicated", "present", "scheduled", "absent"}
         /\ act.st # "verified"
    BY <1>0, <1>1, <1>3, <2>4 DEF GInv, Types, Acting, Gov!requires_hold_drain
  <2> QED
    BY <1>1, <2>10, <2>11, <2>12, <2>13, <2>14, ActInv
<1> QED
  BY <1>0, <1>2, <1>3 DEF WorkerV

\* The call reaches the provider.
LEMMA SecretInv ==
    ASSUME Assumptions, GInv, NEW w \in Workers, Gov!schedule_secret_deletion(w)
    PROVE  GInv'
<1>0. wk[w] \in WorkerV /\ Reported(wk[w]) /\ Acting(wk[w])
  BY DEF GInv, Types
<1>1. /\ UNCHANGED <<hold, job, frozen, data, act>> /\ wk[w].pc = "dispatch"
      /\ secret' \in {"present", "scheduled", "absent"}
      /\ ~Gov!SecretStands => ~Gov!SecretStands'
  BY DEF Gov!schedule_secret_deletion, Gov!At, GInv, Types, Gov!SecretStands
<1>2. PICK k \in WorkerV :
        /\ wk' = [wk EXCEPT ![w] = k] /\ k.job = wk[w].job /\ k.drain = wk[w].drain
        /\ k.afresh = wk[w].afresh /\ k.age = wk[w].age
        /\ \/ /\ k.pc \in {"error", "release"} /\ k.out = "fail"
              /\ k.pc = "release" => ~k.drain
           \/ /\ k.pc = "reconcile" /\ k.out = wk[w].out /\ ~Gov!SecretStands'
  <2>1. CASE secret = "replicated"
    <3>1. PICK pc \in {"error", "release"} :
            /\ wk' = [wk EXCEPT ![w].pc = pc, ![w].out = "fail"]
            /\ pc = "release" => ~wk[w].drain
      BY <2>1 DEF Gov!schedule_secret_deletion
    <3>2. PICK k : k = [wk[w] EXCEPT !.pc = pc, !.out = "fail"]
      OBVIOUS
    <3>3. wk' = [wk EXCEPT ![w] = k]
      BY <3>1, <3>2 DEF GInv, Types
    <3>4. /\ k \in WorkerV /\ k.pc = pc /\ k.job = wk[w].job /\ k.afresh = wk[w].afresh
          /\ k.drain = wk[w].drain /\ k.out = "fail" /\ k.age = wk[w].age
      BY <1>0, <3>2 DEF WorkerV, WorkerPCs, Outs
    <3> QED
      BY <3>1, <3>3, <3>4
  <2>2. CASE secret # "replicated"
    <3>1. Gov!Goto(w, "reconcile") /\ ~Gov!SecretStands' /\ "reconcile" \in WorkerPCs
      BY <2>2 DEF Gov!schedule_secret_deletion, Gov!SecretStands, GInv, Types, WorkerPCs
    <3> QED
      BY <3>1, GotoIs DEF GInv
  <2> QED
    BY <2>1, <2>2
<1>3. wk' \in [Workers -> WorkerV] /\ wk'[w] = k
  BY <1>2 DEF GInv, Types
<1>4. Reported(wk[w])' /\ Acting(wk[w])'
  <2>1. Reported(k)'
    BY <1>0, <1>1, <1>2 DEF Reported, InWork, Before
  <2>2. Acting(k)'
    BY <1>0, <1>1, <1>2 DEF Acting
  <2> QED
    BY <1>3, <2>1, <2>2 DEF Reported, Acting, Goal
<1>5. ASSUME NEW v \in Workers, v # w
      PROVE  Weaker(wk'[v], wk[v])
  BY <1>2, <1>5 DEF GInv, Types, Weaker
<1>6. Provided' /\ Gov!HoldMeansDrained'
  BY <1>1 DEF GInv, Provided, Gov!HoldMeansDrained
<1>7. act' \in [st : Gov!ActStates, left : -WorkerLimit .. ClaimSecs]
  BY <1>1 DEF GInv, Types
<1> QED
  BY <1>1, <1>3, <1>4, <1>5, <1>6, <1>7, ActInv

\* Time passes: claims and invocations grow older together.
LEMMA GTickInv ==
    ASSUME Assumptions, GInv, Gov!Tick
    PROVE  GInv'
<1>1. /\ UNCHANGED <<hold, job, frozen, data, secret>>
      /\ act' = [act EXCEPT !.left = Gov!Elapse(@)]
      /\ wk' = [w \in Workers |-> IF Gov!At(w, "idle") THEN wk[w] ELSE [wk[w] EXCEPT !.age = @ + 1]]
      /\ \A w \in Workers : wk[w].pc = "idle" \/ wk[w].age < WorkerLimit
  BY DEF Gov!Tick, Gov!At
<1>2. PICK t : t = Gov!Elapse(act.left)
  OBVIOUS
<1>3. /\ act.left \in -WorkerLimit .. ClaimSecs
      /\ t \in -WorkerLimit .. ClaimSecs /\ t <= act.left /\ t + 1 >= act.left
  BY <1>2 DEF Gov!Elapse, GInv, Types, Assumptions, Gov!TimesAssumption
<1>4. /\ act' \in [st : Gov!ActStates, left : -WorkerLimit .. ClaimSecs]
      /\ act'.st = act.st /\ act'.left = t
  BY <1>1, <1>2, <1>3 DEF GInv, Types
<1>5. ASSUME NEW w \in Workers
      PROVE  /\ wk'[w] \in WorkerV /\ wk'[w].pc = wk[w].pc /\ wk'[w].job = wk[w].job
             /\ wk'[w].fresh = wk[w].fresh /\ wk'[w].afresh = wk[w].afresh
             /\ wk'[w].drain = wk[w].drain /\ wk'[w].out = wk[w].out
             /\ wk'[w].pc # "idle" => wk'[w].age = wk[w].age + 1
  <2>1. PICK k \in WorkerV : k = wk[w]
    BY DEF GInv, Types
  <2>2. wk'[w] = IF k.pc = "idle" THEN k ELSE [k EXCEPT !.age = @ + 1]
    BY <1>1, <2>1 DEF Gov!At
  <2>3. k.age \in 0 .. WorkerLimit /\ (k.pc # "idle" => k.age + 1 \in 0 .. WorkerLimit)
    BY <1>1, <2>1 DEF WorkerV, Assumptions, Gov!TimesAssumption
  <2>4. PICK n : n = k.age + 1
    OBVIOUS
  <2>5. wk'[w] = IF k.pc = "idle" THEN k ELSE [k EXCEPT !.age = n]
    BY <2>2, <2>4
  <2>6. k.pc # "idle" => n \in 0 .. WorkerLimit
    BY <2>3, <2>4
  <2>7. CASE k.pc = "idle"
    BY <2>1, <2>5, <2>7
  <2>8. CASE k.pc # "idle"
    <3>1. wk'[w] = [k EXCEPT !.age = n]
      BY <2>5, <2>8
    <3>2. /\ wk'[w] \in WorkerV /\ wk'[w].age = n
          /\ wk'[w].pc = k.pc /\ wk'[w].job = k.job
          /\ wk'[w].fresh = k.fresh /\ wk'[w].afresh = k.afresh
          /\ wk'[w].drain = k.drain /\ wk'[w].out = k.out
      BY <2>6, <2>8, <3>1 DEF WorkerV
    <3> QED
      BY <2>1, <2>4, <3>2
  <2> QED
    BY <2>7, <2>8
<1>6. Types'
  <2>1. wk' \in [Workers -> WorkerV]
    BY <1>1, <1>5
  <2> QED
    BY <1>1, <1>4, <2>1 DEF GInv, Types
<1>7. Onward
  BY <1>1, <1>4 DEF Onward, Gov!SecretStands
<1>8. Offboards' /\ Begins' /\ Provided' /\ Gov!HoldMeansDrained'
  BY <1>1, <1>4 DEF GInv, Offboards, Begins, Provided, Gov!SecretStands, Gov!HoldMeansDrained
<1>9. ASSUME NEW w \in Workers PROVE Reported(wk[w])' /\ Acting(wk[w])'
  <2>1. PICK k, l : k = wk[w] /\ l = wk'[w]
    OBVIOUS
  <2>2. Reported(k) /\ Acting(k) /\ k \in WorkerV
    BY <2>1 DEF GInv, Types
  <2>3. /\ l.pc = k.pc /\ l.job = k.job /\ l.fresh = k.fresh /\ l.afresh = k.afresh
        /\ l.drain = k.drain /\ l.out = k.out /\ (l.pc # "idle" => l.age = k.age + 1)
    BY <1>5, <2>1
  <2>4. Reported(l)'
    BY <1>1, <1>4, <2>2, <2>3 DEF Reported, Goal, Gov!UserLives
  <2>5. l.pc = "dispatch" /\ InTime(l) /\ Gov!SecretStands' =>
          act'.st \in {"claimed", "dispatched"} /\ act'.left + l.age > Bound
    <3>1. SUFFICES ASSUME l.pc = "dispatch", InTime(l), Gov!SecretStands'
                   PROVE  act'.st \in {"claimed", "dispatched"} /\ act'.left + l.age > Bound
      OBVIOUS
    <3>2. k.pc = "dispatch" /\ InTime(k) /\ Gov!SecretStands
      BY <1>1, <2>2, <2>3, <3>1 DEF Gov!SecretStands, InTime, WorkerV, Assumptions,
                                    Gov!TimesAssumption
    <3>3. /\ act.st \in {"claimed", "dispatched"} /\ act.left + k.age > Bound
          /\ k.age \in 0 .. WorkerLimit /\ l.age = k.age + 1
      BY <2>2, <2>3, <3>1, <3>2 DEF Acting, WorkerV
    <3> QED
      BY <1>3, <1>4, <3>3 DEF Assumptions, Gov!TimesAssumption
  <2>6. l.pc = "tombstone" /\ l.afresh => act'.left <= 0
    BY <1>3, <1>4, <2>2, <2>3 DEF Acting, Assumptions, Gov!TimesAssumption
  <2>7. Acting(l)'
    BY <1>1, <1>4, <2>2, <2>3, <2>5, <2>6 DEF Acting, InTime, Gov!SecretStands
  <2> QED
    BY <2>1, <2>4, <2>7 DEF Reported, Acting, Goal
<1> QED
  BY <1>1, <1>6, <1>7, <1>8, <1>9, StepInv

-----------------------------------------------------------------------------
(* The policy and the job records *)

\* A write of the policy makes every copy of it out of date.
LEMMA PutInv ==
    ASSUME Assumptions, GInv, hold' \in {"disabled", "enabling", "enabled"},
           job' = [j \in Jobs |-> [job[j] EXCEPT !.cur = FALSE]],
           UNCHANGED <<frozen, data, act, secret>>,
           wk' \in [Workers -> WorkerV],
           \A v \in Workers : Weaker(wk'[v], wk[v]) \/ (Reported(wk[v])' /\ Acting(wk[v])'),
           Gov!HoldMeansDrained'
    PROVE  GInv'
<1>1. ASSUME NEW j \in Jobs
      PROVE  /\ job'[j] \in JobV /\ job'[j].st = job[j].st /\ job'[j].phase = job[j].phase
             /\ job'[j].ten = job[j].ten
  BY DEF GInv, Types, JobV
<1>2. job' \in [Jobs -> JobV]
  BY <1>1
<1>3. Offboards' /\ Begins'
  BY <1>1 DEF GInv, Offboards, Begins
<1>4. frozen' \in BOOLEAN
  BY DEF GInv, Types
<1> QED
  BY <1>1, <1>2, <1>3, <1>4, JobInv

\* What a write of the policy leaves of the workers.
LEMMA PutWorkers ==
    ASSUME Types, NEW h, Gov!PutPolicy(h)
    PROVE  wk' \in [Workers -> WorkerV] /\ \A v \in Workers : Weaker(wk'[v], wk[v])
<1>1. ASSUME NEW v \in Workers PROVE wk'[v] \in WorkerV /\ Weaker(wk'[v], wk[v])
  <2>1. PICK k \in WorkerV : k = wk[v]
    BY DEF Types
  <2>2. wk'[v] = [k EXCEPT !.pcur = FALSE]
    BY <2>1 DEF Gov!PutPolicy
  <2> QED
    BY <2>1, <2>2 DEF WorkerV, Weaker
<1> QED
  BY <1>1 DEF Gov!PutPolicy

\* The hold is requested, lifted, or settles.
LEMMA PolicyInv ==
    ASSUME Assumptions, GInv, Gov!EnableHold \/ Gov!DisableHold \/ Gov!settle_enabling_policy
    PROVE  GInv'
<1>1. CASE UNCHANGED <<hold, job, wk>>
  <2>1. UNCHANGED <<hold, job, frozen, data, act, secret, wk>>
    BY <1>1 DEF Gov!EnableHold, Gov!DisableHold, Gov!settle_enabling_policy
  <2> QED
    BY <2>1 DEF GInv, Types, Offboards, Begins, Leaves, Provided, Gov!SecretStands,
                Gov!PhaseIsEarned,
                Gov!UserLives, Gov!HoldMeansDrained, Reported, Goal, Acting
<1>2. ASSUME NEW h \in {"disabled", "enabling", "enabled"}, Gov!PutPolicy(h),
             h = "enabled" => act.st \notin Gov!requires_hold_drain
      PROVE  GInv'
  <2>1. UNCHANGED <<frozen, data, act, secret>>
    BY DEF Gov!EnableHold, Gov!DisableHold, Gov!settle_enabling_policy
  <2>2. hold' = h /\ job' = [j \in Jobs |-> [job[j] EXCEPT !.cur = FALSE]]
    BY <1>2 DEF Gov!PutPolicy
  <2>3. Gov!HoldMeansDrained'
    BY <1>2, <2>1, <2>2 DEF Gov!HoldMeansDrained
  <2>4. wk' \in [Workers -> WorkerV] /\ \A v \in Workers : Weaker(wk'[v], wk[v])
    BY <1>2, PutWorkers DEF GInv
  <2> QED
    BY <2>1, <2>2, <2>3, <2>4, PutInv
<1>3. \/ UNCHANGED <<hold, job, wk>>
      \/ \E h \in {"disabled", "enabling", "enabled"} :
           Gov!PutPolicy(h) /\ (h = "enabled" => act.st \notin Gov!requires_hold_drain)
  BY DEF Gov!EnableHold, Gov!DisableHold, Gov!settle_enabling_policy
<1> QED
  BY <1>1, <1>2, <1>3

\* A worker settles the hold: it is enabled unless the action is in flight.
LEMMA SettleInv ==
    ASSUME Assumptions, GInv, NEW w \in Workers, Gov!settle_enabling_hold(w)
    PROVE  GInv'
<1>0. /\ wk[w] \in WorkerV /\ Reported(wk[w]) /\ Acting(wk[w]) /\ wk[w].pc = "settle"
      /\ "block" \in WorkerPCs
  BY DEF GInv, Types, Gov!settle_enabling_hold, Gov!At, WorkerPCs
<1>1. UNCHANGED <<frozen, data, act, secret>>
  BY DEF Gov!settle_enabling_hold
<1>2. CASE act.st \in Gov!requires_hold_drain
  <2>1. Gov!Goto(w, "block") /\ UNCHANGED <<hold, job>>
    BY <1>2 DEF Gov!settle_enabling_hold
  <2> QED
    BY <1>0, <1>1, <2>1, GotoInv DEF InWork, Before
<1>3. CASE act.st \notin Gov!requires_hold_drain
  <2>1. /\ hold' = "enabled"
        /\ job' = [j \in Jobs |-> [job[j] EXCEPT !.cur = FALSE]]
        /\ wk' = [v \in Workers |-> IF v = w THEN [wk[w] EXCEPT !.pc = "block"]
                                              ELSE [wk[v] EXCEPT !.pcur = FALSE]]
    BY <1>3 DEF Gov!settle_enabling_hold
  <2>2. ASSUME NEW v \in Workers, v # w PROVE wk'[v] \in WorkerV /\ Weaker(wk'[v], wk[v])
    <3>1. PICK k \in WorkerV : k = wk[v]
      BY DEF GInv, Types
    <3>2. wk'[v] = [k EXCEPT !.pcur = FALSE]
      BY <2>1, <2>2, <3>1
    <3> QED
      BY <3>1, <3>2 DEF WorkerV, Weaker
  <2>3. PICK k : k = [wk[w] EXCEPT !.pc = "block"]
    OBVIOUS
  <2>4. /\ k \in WorkerV /\ wk'[w] = k /\ k.pc = "block" /\ k.job = wk[w].job
        /\ k.afresh = wk[w].afresh /\ k.drain = wk[w].drain
    BY <1>0, <2>1, <2>3 DEF WorkerV
  <2>5. Reported(wk[w])' /\ Acting(wk[w])'
    <3>1. Reported(k)'
      BY <1>0, <2>4 DEF Reported, InWork, Before
    <3>2. Acting(k)'
      BY <1>0, <1>1, <2>4 DEF Acting
    <3> QED
      BY <2>4, <3>1, <3>2 DEF Reported, Acting, Goal
  <2>6. wk' \in [Workers -> WorkerV]
    BY <2>1, <2>2, <2>4
  <2>7. Gov!HoldMeansDrained'
    BY <1>1, <1>3 DEF Gov!HoldMeansDrained
  <2>8. hold' \in {"disabled", "enabling", "enabled"}
    BY <2>1
  <2> QED
    BY <1>1, <2>1, <2>2, <2>5, <2>6, <2>7, <2>8, PutInv
<1> QED
  BY <1>2, <1>3

\* One job record is written, keeping its phase, and its copies are out of date.
LEMMA OneJobInv ==
    ASSUME Assumptions, GInv, NEW j \in Jobs, NEW r \in JobV,
           job' = [job EXCEPT ![j] = r], r.phase = job[j].phase,
           r.st = "none" => job[j].st = "none",
           wk' \in [Workers -> WorkerV], frozen' \in BOOLEAN, frozen => frozen',
           UNCHANGED <<hold, data, act, secret>>,
           j = "offboarding" =>
             /\ job[j].ten => r.ten
             /\ r.ten => frozen'
             /\ r.st \in Gov!Claimable \cup Gov!Terminal => r.ten,
           \A v \in Workers : Weaker(wk'[v], wk[v]) \/ (Reported(wk[v])' /\ Acting(wk[v])')
    PROVE  GInv'
<1>1. job' \in [Jobs -> JobV] /\ job'[j] = r /\ \A i \in Jobs : i # j => job'[i] = job[i]
  BY DEF GInv, Types
<1>2. \A i \in Jobs : job'[i].phase = job[i].phase
  BY <1>1
<1>3. "offboarding" \in Jobs /\ job["offboarding"].ten => job'["offboarding"].ten
  BY <1>1
<1>4. Offboards'
  BY <1>1, <1>2 DEF GInv, Offboards
<1>5. Begins'
  BY <1>1, <1>2 DEF GInv, Begins
<1>6. Gov!HoldMeansDrained' /\ hold' \in {"disabled", "enabling", "enabled"}
  BY DEF GInv, Types, Gov!HoldMeansDrained
<1> QED
  BY <1>1, <1>2, <1>3, <1>4, <1>5, <1>6, JobInv

\* Retention is extended or ends.
LEMMA ExtendInv ==
    ASSUME Assumptions, GInv, NEW j \in Jobs,
           Gov!extend_retention_for_audit(j) \/ Gov!finalize_retention_job(j)
    PROVE  GInv'
<1>1. PICK st \in Gov!JobStates :
        /\ job' = [job EXCEPT ![j].st = st, ![j].cur = TRUE]
        /\ st = job[j].st \/ (st = "completed" /\ job[j].st = "retention")
  <2>1. CASE Gov!extend_retention_for_audit(j)
    <3>1. job' = [job EXCEPT ![j].st = job[j].st, ![j].cur = TRUE] /\ job[j].st \in Gov!JobStates
      BY <2>1 DEF Gov!extend_retention_for_audit, GInv, Types, JobV
    <3> QED
      BY <3>1
  <2>2. CASE Gov!finalize_retention_job(j)
    BY <2>2 DEF Gov!finalize_retention_job, Gov!JobStates
  <2> QED
    BY <2>1, <2>2
<1>2. PICK r : r = [job[j] EXCEPT !.st = st, !.cur = TRUE]
  OBVIOUS
<1>3. /\ job' = [job EXCEPT ![j] = r] /\ r \in JobV /\ r.phase = job[j].phase
      /\ r.st = st /\ r.ten = job[j].ten
  BY <1>1, <1>2 DEF GInv, Types, JobV
<1>4. wk' = Gov!Stale(wk, j) /\ UNCHANGED <<hold, frozen, data, act, secret>>
  BY DEF Gov!extend_retention_for_audit, Gov!finalize_retention_job
<1>5. wk' \in [Workers -> WorkerV] /\ \A v \in Workers : Weaker(wk'[v], wk[v])
  BY <1>4, StaleIs DEF GInv
<1>6. j = "offboarding" =>
        /\ r.ten => frozen'
        /\ r.st \in Gov!Claimable \cup Gov!Terminal => r.ten
  BY <1>1, <1>3, <1>4 DEF GInv, Offboards, Gov!Terminal
<1>7. frozen' \in BOOLEAN
  BY <1>4 DEF GInv, Types
<1>8. /\ UNCHANGED <<hold, data, act, secret>> /\ (frozen => frozen')
      /\ r.st = "none" => job[j].st = "none"
      /\ job[j].ten => r.ten
  BY <1>1, <1>3, <1>4
<1> QED
  BY <1>3, <1>5, <1>6, <1>7, <1>8, OneJobInv

\* A job as it is created.
LEMMA NewJobIs ==
    ASSUME Types, NEW ten \in BOOLEAN
    PROVE  /\ Gov!NewJob(ten) \in JobV /\ Gov!NewJob(ten).phase = "intent" /\ Gov!NewJob(ten).ten = ten
           /\ Gov!NewJob(ten).st = (IF Gov!held THEN "blocked" ELSE "queued")
BY DEF Gov!NewJob, JobV, Gov!JobStates, Gov!Phases, Gov!held

\* A blocked job as it is resumed.
LEMMA ResumedIs ==
    ASSUME Types, NEW j \in Jobs, NEW ten \in BOOLEAN
    PROVE  /\ Gov!Resumed(j, ten) \in JobV /\ Gov!Resumed(j, ten).phase = job[j].phase
           /\ Gov!Resumed(j, ten).ten = ten /\ Gov!Resumed(j, ten).st = "queued"
<1>1. PICK r \in JobV : r = job[j]
  BY DEF Types
<1>2. Gov!Resumed(j, ten) = [r EXCEPT !.st = "queued", !.cur = TRUE, !.ten = ten]
  BY <1>1 DEF Gov!Resumed
<1> QED
  BY <1>1, <1>2 DEF JobV, Gov!JobStates

\* The hold is a truth value.
LEMMA HeldIs == (~Gov!held) \in BOOLEAN
BY DEF Gov!held

\* A job is started or started again.
LEMMA StartInv ==
    ASSUME Assumptions, GInv, Gov!start_user_erasure \/ Gov!start_tenant_offboarding
    PROVE  GInv'
<1>0. Types
  BY DEF GInv
<1>1. CASE UNCHANGED <<job, wk, frozen>>
  <2>1. UNCHANGED <<hold, job, frozen, data, act, secret, wk>>
    BY <1>1 DEF Gov!start_user_erasure, Gov!start_tenant_offboarding
  <2> QED
    BY <2>1 DEF GInv, Types, Offboards, Begins, Leaves, Provided, Gov!SecretStands,
                Gov!PhaseIsEarned,
                Gov!UserLives, Gov!HoldMeansDrained, Reported, Goal, Acting
<1>2. ASSUME NEW j \in Jobs, NEW r \in JobV, job' = [job EXCEPT ![j] = r],
             r.phase = job[j].phase, r.st # "none",
             wk' = wk \/ wk' = Gov!Stale(wk, j), frozen' \in BOOLEAN, frozen => frozen',
             UNCHANGED <<hold, data, act, secret>>,
             j = "offboarding" => ~job[j].ten /\ (r.ten => frozen') /\ (r.st \in Gov!Claimable \cup Gov!Terminal => r.ten)
      PROVE  GInv'
  <2>1. wk' \in [Workers -> WorkerV] /\ \A v \in Workers : Weaker(wk'[v], wk[v])
    BY <1>0, <1>2, StaleIs DEF Types, Weaker
  <2> QED
    BY <1>2, <2>1, OneJobInv
<1>3. CASE Gov!start_user_erasure /\ ~UNCHANGED <<job, wk, frozen>>
  <2>1. PICK j, ten : j = "erasure" /\ ten = FALSE
    OBVIOUS
  <2>2. j \in Jobs /\ UNCHANGED <<hold, frozen, data, act, secret>>
    BY <1>3, <2>1 DEF Gov!start_user_erasure
  <2>3. CASE job[j].st = "none" /\ job' = [job EXCEPT ![j] = Gov!NewJob(ten)] /\ UNCHANGED wk
    <3>1. job[j].phase = "intent"
      BY <2>2, <2>3 DEF GInv, Begins
    <3> QED
      BY <1>0, <1>2, <2>1, <2>2, <2>3, <3>1, NewJobIs DEF Types
  <2>4. CASE job' = [job EXCEPT ![j] = Gov!Resumed(j, ten)] /\ wk' = Gov!Stale(wk, j)
    BY <1>0, <1>2, <2>1, <2>2, <2>4, ResumedIs DEF Types
  <2> QED
    BY <1>3, <2>1, <2>3, <2>4 DEF Gov!start_user_erasure
<1>4. CASE Gov!start_tenant_offboarding
  <2>1. PICK j : j = "offboarding"
    OBVIOUS
  <2>2. /\ j \in Jobs /\ UNCHANGED <<hold, data, act, secret>> /\ frozen' = ~Gov!held /\ ~frozen
        /\ wk' = Gov!Stale(wk, j)
    BY <1>4, <2>1 DEF Gov!start_tenant_offboarding
  <2>3. ~job[j].ten
    BY <2>1, <2>2 DEF GInv, Offboards
  <2>4. CASE job[j].st = "none" /\ job' = [job EXCEPT ![j] = Gov!NewJob(~Gov!held)]
    <3>1. job[j].phase = "intent"
      BY <2>2, <2>4 DEF GInv, Begins
    <3>2. (~Gov!held) \in BOOLEAN
      BY HeldIs
    <3>3. PICK r \in JobV : /\ r = Gov!NewJob(~Gov!held) /\ r.phase = "intent" /\ r.ten = ~Gov!held
                            /\ r.st = (IF Gov!held THEN "blocked" ELSE "queued")
      BY <1>0, <3>2, NewJobIs
    <3>4. (r.ten => frozen') /\ (r.st \in Gov!Claimable \cup Gov!Terminal => r.ten)
      BY <2>2, <3>3 DEF Gov!Claimable, Gov!Terminal
    <3> QED
      BY <1>2, <2>1, <2>2, <2>3, <2>4, <3>1, <3>3, <3>4
  <2>5. CASE ~Gov!held /\ job' = [job EXCEPT ![j] = Gov!Resumed(j, TRUE)]
    <3>1. PICK r \in JobV : /\ r = Gov!Resumed(j, TRUE) /\ r.phase = job[j].phase /\ r.ten
                            /\ r.st = "queued"
      BY <1>0, <2>2, ResumedIs
    <3> QED
      BY <1>2, <2>1, <2>2, <2>3, <2>5, <3>1
  <2> QED
    BY <1>4, <2>1, <2>4, <2>5 DEF Gov!start_tenant_offboarding
<1> QED
  BY <1>1, <1>3, <1>4

\* An offboarding starts or adopts the erasure of its user.
LEMMA ChildInv ==
    ASSUME Assumptions, GInv, NEW w \in Workers, Gov!start_offboarding_child(w)
    PROVE  GInv'
<1>0. Types /\ wk[w] \in WorkerV /\ Reported(wk[w]) /\ Acting(wk[w])
  BY DEF GInv, Types
<1>1. PICK e : e = "erasure"
  OBVIOUS
<1>2. /\ e \in Jobs /\ wk[w].pc = "work" /\ wk[w].job = "offboarding"
      /\ UNCHANGED <<hold, frozen, data, act, secret>>
  BY <1>1 DEF Gov!start_offboarding_child, Gov!UserLives, Gov!Working, Gov!At
<1>3. PICK c \in JobV : c = job[e]
  BY <1>0, <1>2 DEF Types
<1>4. PICK r : /\ job' = [job EXCEPT ![e] = r]
               /\ r = IF c.st = "none" THEN Gov!NewJob(TRUE)
                      ELSE IF c.st \in Gov!Terminal THEN c
                      ELSE IF ~c.ten THEN [c EXCEPT !.ten = TRUE, !.cur = TRUE,
                                                    !.st = IF @ = "blocked" THEN "queued" ELSE @]
                      ELSE IF c.st = "blocked" /\ ~Gov!held THEN Gov!Resumed(e, TRUE)
                      ELSE c
  BY <1>1, <1>3 DEF Gov!start_offboarding_child
<1>5. r \in JobV /\ r.phase = c.phase /\ r.st # "none"
  <2>1. CASE c.st = "none"
    <3>1. c.phase = "intent"
      BY <1>2, <1>3, <2>1 DEF GInv, Begins
    <3>2. r = Gov!NewJob(TRUE)
      BY <1>4, <2>1
    <3> QED
      BY <1>0, <3>1, <3>2, NewJobIs DEF Gov!held
  <2>2. CASE r = c /\ c.st # "none"
    BY <2>2
  <2>3. CASE r = Gov!Resumed(e, TRUE)
    BY <1>0, <1>2, <1>3, <2>3, ResumedIs
  <2>4. CASE c.st # "none" /\ r = [c EXCEPT !.ten = TRUE, !.cur = TRUE,
                                   !.st = IF @ = "blocked" THEN "queued" ELSE @]
    <3>1. PICK st : st = IF c.st = "blocked" THEN "queued" ELSE c.st
      OBVIOUS
    <3>2. st \in Gov!JobStates /\ st # "none"
      BY <2>4, <3>1 DEF JobV, Gov!JobStates
    <3>3. r = [c EXCEPT !.ten = TRUE, !.cur = TRUE, !.st = st]
      BY <2>4, <3>1
    <3> QED
      BY <3>2, <3>3 DEF JobV
  <2> QED
    BY <1>4, <2>1, <2>2, <2>3, <2>4
<1>6. PICK f : f = Gov!Stale(wk, e)
  OBVIOUS
<1>7. f \in [Workers -> WorkerV] /\ \A v \in Workers : Weaker(f[v], wk[v])
  BY <1>0, <1>6, StaleIs
<1>8. PICK k : k = [f[w] EXCEPT !.pc = "release", !.out = "child"]
  OBVIOUS
<1>9. wk' = [f EXCEPT ![w] = k]
  BY <1>1, <1>6, <1>7, <1>8 DEF Gov!start_offboarding_child
<1>10. /\ k \in WorkerV /\ k.pc = "release" /\ k.job = wk[w].job /\ k.drain = wk[w].drain
       /\ k.out = "child" /\ (k.afresh => wk[w].afresh)
  BY <1>7, <1>8 DEF WorkerV, WorkerPCs, Outs, Weaker
<1>11. /\ wk' \in [Workers -> WorkerV] /\ wk'[w] = k
       /\ \A v \in Workers : v # w => Weaker(wk'[v], wk[v])
  BY <1>7, <1>9, <1>10
<1>12. Reported(wk[w])' /\ Acting(wk[w])'
  <2>0. "offboarding" \in Jobs /\ job'["offboarding"] = job["offboarding"]
    BY <1>0, <1>1, <1>2, <1>4 DEF Types, Reported
  <2>1. Reported(k)'
    BY <1>0, <1>2, <1>10, <2>0 DEF Reported, InWork, Before
  <2>2. Acting(k)'
    BY <1>0, <1>2, <1>10 DEF Acting
  <2> QED
    BY <1>11, <2>1, <2>2 DEF Reported, Acting, Goal
<1>13. frozen' \in BOOLEAN /\ e # "offboarding"
  BY <1>0, <1>1, <1>2 DEF Types
<1> QED
  BY <1>2, <1>3, <1>4, <1>5, <1>11, <1>12, <1>13, OneJobInv

-----------------------------------------------------------------------------
(* The checkpoint at the end of a pass *)

\* The record r replaces the one the worker read; its own copies are out of date.
LEMMA WrittenInv ==
    ASSUME Assumptions, GInv, NEW w \in Workers, NEW j \in Jobs, NEW r \in JobV,
           wk[w].pc # "idle", wk[w].job = j,
           job' = [job EXCEPT ![j] = r],
           wk' = [Gov!Stale(wk, j) EXCEPT ![w].pc = "done"],
           UNCHANGED <<hold, frozen, data, act, secret>>,
           r.st # "none", r.ten = job[j].ten,
           r.phase = job[j].phase \/ (r.phase = Gov!NextPhase(j) /\ Goal(j, job[j].phase)),
           j = "offboarding" => r.st = "blocked" \/ r.ten,
           r.phase # job[j].phase /\ j = "offboarding" => r.ten
    PROVE  GInv'
<1>0. Types /\ wk[w] \in WorkerV /\ Reported(wk[w]) /\ Acting(wk[w])
  BY DEF GInv, Types
<1>1. PICK f : f = Gov!Stale(wk, j)
  OBVIOUS
<1>2. /\ f \in [Workers -> WorkerV]
      /\ \A v \in Workers : Weaker(f[v], wk[v]) /\ (wk[v].job = j => ~f[v].fresh)
  BY <1>0, <1>1, StaleIs
<1>3. PICK k : k = [f[w] EXCEPT !.pc = "done"]
  OBVIOUS
<1>4. wk' = [f EXCEPT ![w] = k]
  BY <1>1, <1>2, <1>3
<1>5. /\ k \in WorkerV /\ k.pc = "done" /\ k.job = wk[w].job /\ ~k.fresh
      /\ (k.afresh => wk[w].afresh)
  BY <1>2, <1>3 DEF WorkerV, WorkerPCs, Weaker
<1>6. /\ wk' \in [Workers -> WorkerV] /\ wk'[w] = k
      /\ \A v \in Workers : (v # w => Weaker(wk'[v], wk[v])) /\ (wk[v].job = j => ~wk'[v].fresh)
  BY <1>2, <1>4, <1>5
<1>7. Reported(wk[w])' /\ Acting(wk[w])'
  <2>1. Reported(k)'
    BY <1>0, <1>5 DEF Reported, InWork, Before
  <2>2. Acting(k)'
    BY <1>0, <1>5 DEF Acting
  <2> QED
    BY <1>6, <2>1, <2>2 DEF Reported, Acting, Goal
<1>8. job' \in [Jobs -> JobV] /\ job'[j] = r /\ \A i \in Jobs : i # j => job'[i] = job[i]
  BY <1>0 DEF Types
<1>9. Types'
  BY <1>0, <1>6, <1>8 DEF Types
<1>10. Onward
  BY DEF Onward, Gov!SecretStands
<1>11. r.phase # job[j].phase => r.phase # "intent" /\ (j = "offboarding" => r.phase # "suppressed")
  BY <1>0 DEF Gov!NextPhase, Types, JobV, Gov!Phases
<1>12. Offboards'
  <2>1. CASE j = "offboarding"
    BY <1>8, <1>11, <2>1 DEF GInv, Offboards, Gov!Claimable, Gov!Terminal
  <2>2. CASE j # "offboarding"
    BY <1>8, <2>2 DEF GInv, Offboards
  <2> QED
    BY <2>1, <2>2
<1>13. Begins'
  BY <1>8 DEF GInv, Begins
<1>14. Provided' /\ Gov!HoldMeansDrained'
  BY DEF GInv, Provided, Gov!SecretStands, Gov!HoldMeansDrained
<1>15. ASSUME NEW i \in Jobs
       PROVE  \/ job'[i].phase = job[i].phase
              \/ Promoted(i) /\ \A v \in Workers : wk[v].job = i => ~wk'[v].fresh
  <2>1. CASE i = j
    BY <1>6, <1>8, <2>1 DEF Promoted
  <2>2. CASE i # j
    BY <1>8, <2>2
  <2> QED
    BY <2>1, <2>2
<1>16. "offboarding" \in Jobs /\ job["offboarding"].ten => job'["offboarding"].ten
  BY <1>8
<1> QED
  BY <1>6, <1>7, <1>9, <1>10, <1>12, <1>13, <1>14, <1>15, <1>16, StepInv

\* The phase is checkpointed, or blocked by the hold: the only steps that promote one.
LEMMA CheckpointInv ==
    ASSUME Assumptions, GInv, NEW w \in Workers, Gov!checkpoint(w) \/ Gov!block_for_hold(w)
    PROVE  GInv'
<1>0. Types /\ wk[w] \in WorkerV /\ Reported(wk[w]) /\ Acting(wk[w])
  BY DEF GInv, Types
<1>1. /\ UNCHANGED <<hold, frozen, data, act, secret>>
      /\ wk[w].pc \in {"checkpoint", "block"} /\ "done" \in WorkerPCs /\ "error" \in WorkerPCs
  BY DEF Gov!checkpoint, Gov!block_for_hold, Gov!At, WorkerPCs
<1>2. PICK j \in Jobs : j = wk[w].job
  BY <1>0, <1>1 DEF Reported
<1>3. PICK r \in JobV : r = job[j]
  BY <1>0 DEF Types
<1>4. ASSUME UNCHANGED job, Gov!Goto(w, "done") \/ Gov!Goto(w, "error") PROVE GInv'
  BY <1>1, <1>4, GotoInv DEF InWork, Before
<1>5. ASSUME NEW x, job' = [job EXCEPT ![j] = x],
             wk' = [Gov!Stale(wk, j) EXCEPT ![w].pc = "done"],
             x \in JobV, x.st # "none", x.ten = r.ten,
             x.phase = r.phase \/ (x.phase = Gov!NextPhase(j) /\ Goal(j, r.phase)),
             j = "offboarding" => x.st = "blocked" \/ x.ten,
             x.phase # r.phase /\ j = "offboarding" => x.ten
      PROVE  GInv'
  BY <1>1, <1>2, <1>3, <1>5, WrittenInv
<1>6. CASE Gov!block_for_hold(w)
  <2>1. PICK x : x = [[r EXCEPT !.st = "blocked"] EXCEPT !.cur = TRUE]
    OBVIOUS
  <2>2. \/ UNCHANGED job /\ (Gov!Goto(w, "done") \/ Gov!Goto(w, "error"))
        \/ /\ job' = [job EXCEPT ![j] = x]
           /\ wk' = [Gov!Stale(wk, j) EXCEPT ![w].pc = "done"]
    BY <1>2, <1>3, <1>6, <2>1 DEF Gov!block_for_hold, Gov!Checkpoint
  <2>3. x \in JobV /\ x.st = "blocked" /\ x.ten = r.ten /\ x.phase = r.phase
    BY <2>1 DEF JobV, Gov!JobStates
  <2> QED
    BY <1>4, <1>5, <2>2, <2>3
<1>7. CASE Gov!checkpoint(w)
  <2>1. PICK y : y = CASE wk[w].out = "fail" -> [r EXCEPT !.st = "retryable"]
                       [] wk[w].out = "blocked" -> [r EXCEPT !.st = "blocked"]
                       [] wk[w].out = "child" -> [r EXCEPT !.st = "running", !.child = TRUE]
                       [] wk[w].out = "childless" -> [r EXCEPT !.st = "running", !.child = FALSE]
                       [] wk[w].out = "next" -> [r EXCEPT !.phase = Gov!NextPhase(j),
                            !.st = IF Gov!NextPhase(j) = "retention" THEN "retention" ELSE "running"]
                       [] OTHER -> [r EXCEPT !.st = "running"]
    OBVIOUS
  <2>2. PICK x : x = [y EXCEPT !.cur = TRUE]
    OBVIOUS
  <2>3. \/ UNCHANGED job /\ (Gov!Goto(w, "done") \/ Gov!Goto(w, "error"))
        \/ /\ job' = [job EXCEPT ![j] = x] /\ wk[w].fresh
           /\ wk' = [Gov!Stale(wk, j) EXCEPT ![w].pc = "done"]
    <3>1. Gov!Checkpoint(w, y) /\ wk[w].pcur \in BOOLEAN /\ wk[w].fresh \in BOOLEAN
      BY <1>0, <1>2, <1>3, <1>7, <2>1 DEF Gov!checkpoint, WorkerV
    <3> QED
      BY <1>2, <2>2, <3>1 DEF Gov!Checkpoint
  <2>4. Gov!NextPhase(j) \in Gov!Phases
    BY DEF Gov!NextPhase, Gov!Phases
  <2>5. /\ wk[w].pc = "checkpoint"
        /\ j = "offboarding" => r.ten
        /\ wk[w].out = "next" /\ wk[w].fresh => Goal(j, r.phase)
    BY <1>0, <1>2, <1>3, <1>7 DEF Gov!checkpoint, Gov!At, Reported, InWork
  <2>6. /\ y \in JobV /\ y.st # "none" /\ y.ten = r.ten
        /\ y.phase = r.phase \/ (y.phase = Gov!NextPhase(j) /\ wk[w].out = "next")
    <3>1. CASE wk[w].out # "next"
      BY <2>1, <3>1 DEF JobV, Gov!JobStates
    <3>2. CASE wk[w].out = "next"
      <4>1. PICK st \in {"retention", "running"} : y = [r EXCEPT !.phase = Gov!NextPhase(j), !.st = st]
        BY <2>1, <3>2
      <4> QED
        BY <2>4, <3>2, <4>1 DEF JobV, Gov!JobStates
    <3> QED
      BY <3>1, <3>2
  <2>7. x \in JobV /\ x.st = y.st /\ x.ten = y.ten /\ x.phase = y.phase
    BY <2>2, <2>6 DEF JobV
  <2> QED
    BY <1>4, <1>5, <2>3, <2>5, <2>6, <2>7
<1> QED
  BY <1>6, <1>7

-----------------------------------------------------------------------------
(* The theorems *)

\* The invariant holds at first.
LEMMA GInitInv ==
    ASSUME Assumptions, Gov!Init
    PROVE  GInv
<1>1. Types
  <2>1. Gov!Idle \in WorkerV
    BY DEF Assumptions, Gov!TimesAssumption, Gov!Idle, WorkerV, WorkerPCs, Outs
  <2>2. act \in [st : Gov!ActStates, left : -WorkerLimit .. ClaimSecs]
    BY DEF Assumptions, Gov!TimesAssumption, Gov!Init, Gov!ActStates
  <2>3. job \in [Jobs -> JobV] /\ data \in [Jobs -> DataV]
    BY DEF Gov!Init, JobV, Gov!JobStates, Gov!Phases, DataV
  <2>4. secret \in {"replicated", "present", "scheduled", "absent"}
    BY DEF Gov!Init, Assumptions, Gov!SecretAssumption
  <2> QED
    BY <2>1, <2>2, <2>3, <2>4 DEF Gov!Init, Types
<1>2. Offboards /\ Begins /\ Leaves /\ Gov!HoldMeansDrained
  BY DEF Gov!Init, Offboards, Begins, Leaves, Gov!HoldMeansDrained, Gov!Claimable, Gov!Terminal
<1>3. Provided
  BY DEF Gov!Init, Provided
<1>4. Gov!PhaseIsEarned
  BY DEF Gov!Init, Gov!PhaseIsEarned, Gov!From
<1>5. \A w \in Workers : Reported(wk[w]) /\ Acting(wk[w])
  BY DEF Gov!Init, Gov!Idle, Reported, Acting, InWork, Before
<1> QED
  BY <1>1, <1>2, <1>3, <1>4, <1>5 DEF GInv

\* A step that changes nothing keeps the invariant.
LEMMA StutterInv ==
    ASSUME GInv, UNCHANGED <<hold, job, frozen, data, act, secret, wk>>
    PROVE  GInv'
BY DEF GInv, Types, Offboards, Begins, Leaves, Provided, Gov!SecretStands, Gov!PhaseIsEarned,
       Gov!UserLives, Gov!HoldMeansDrained, Reported, Goal, Acting

\* Every step keeps the invariant.
LEMMA GNextInv ==
    ASSUME Assumptions, GInv, [Gov!Next]_Gov!vars
    PROVE  GInv'
<1>1. CASE UNCHANGED Gov!vars
  BY <1>1, StutterInv DEF Gov!vars
<1>2. CASE Gov!EnableHold \/ Gov!DisableHold \/ Gov!settle_enabling_policy
  BY <1>2, PolicyInv
<1>3. CASE Gov!start_user_erasure \/ Gov!start_tenant_offboarding
  BY <1>3, StartInv
<1>4. CASE Gov!control_resume_job
  BY <1>4, StutterInv DEF Gov!control_resume_job
<1>5. CASE \E r \in Rows : Gov!WriteUserRow(r)
  BY <1>5, WriteInv
<1>6. CASE \E j \in Jobs : Gov!extend_retention_for_audit(j) \/ Gov!finalize_retention_job(j)
  BY <1>6, ExtendInv
<1>7. ASSUME NEW w \in Workers, Gov!Start(w)
      PROVE  GInv'
  <2>1. PICK j \in Jobs : Gov!SkipCommand(w, j) \/ Gov!BeginHeld(w, j) \/ Gov!PolicyChanged(w, j)
                            \/ Gov!BeginWork(w, j) \/ Gov!LeaseRefused(w, j)
    BY <1>7 DEF Gov!Start
  <2>2. CASE Gov!SkipCommand(w, j) \/ Gov!PolicyChanged(w, j) \/ Gov!LeaseRefused(w, j)
    BY <2>2, StutterInv DEF Gov!SkipCommand, Gov!PolicyChanged, Gov!LeaseRefused
  <2> QED
    BY <2>1, <2>2, PassInv
<1>8. ASSUME NEW w \in Workers, Gov!Proceed(w)
      PROVE  GInv'
  <2>1. CASE \/ Gov!FenceConflict(w) \/ Gov!UserCleaned(w) \/ Gov!SuppressionsWritten(w) \/ Gov!VerifyReplicas(w)
             \/ Gov!OffboardingIntent(w) \/ Gov!WaitForChild(w) \/ Gov!NoUserLeft(w)
    BY <2>1, PhaseInv
  <2>2. CASE Gov!fence_user_identity(w) \/ Gov!delete_user_identity(w) \/ Gov!write_tenant_suppression(w)
    BY <2>2, FenceUserInv, IdentityInv, TenantSuppressionInv
  <2>3. CASE \/ \E r \in Rows : Gov!DeleteRow(w, r)
             \/ \E a \in Aliases : Gov!put_suppression(w, a)
    BY <2>3, RowInv, SuppressionInv
  <2>4. CASE Gov!start_offboarding_child(w)
    BY <2>4, ChildInv
  <2>5. CASE Gov!prepare_external_action(w) \/ Gov!claim_external_action(w) \/ Gov!ApproveDispatch(w)
    BY <2>5, PrepareInv, ClaimInv, ApproveInv
  <2>6. CASE \/ Gov!schedule_secret_deletion(w) \/ Gov!reconcile_external_action(w)
             \/ Gov!tombstone_expired_claim(w)
    BY <2>6, SecretInv, CloseInv
  <2>7. CASE \/ Gov!ResumeAction(w) \/ Gov!ActionOver(w) \/ Gov!LeaveClaim(w) \/ Gov!WaitForLeases(w)
             \/ Gov!release_phase_lease(w)
    BY <2>7, PassageInv
  <2>8. CASE Gov!ObserveDeletion(w) \/ Gov!FindExpired(w) \/ Gov!Drain(w) \/ Gov!SettleConflict(w)
    BY <2>8, LookInv
  <2>9. CASE Gov!settle_enabling_hold(w)
    BY <2>9, SettleInv
  <2>10. CASE Gov!block_for_hold(w) \/ Gov!checkpoint(w)
    BY <2>10, CheckpointInv
  <2>11. CASE Gov!FailCommand(w) \/ Gov!EndCommand(w)
    BY <2>11, IdleInv
  <2> QED
    BY <1>8, <2>1, <2>2, <2>3, <2>4, <2>5, <2>6, <2>7, <2>8, <2>9, <2>10, <2>11 DEF Gov!Proceed
<1>9. CASE \E w \in Workers : Gov!Fail(w) \/ Gov!Killed(w)
  BY <1>9, LookInv, IdleInv
<1>10. CASE Gov!Tick
  BY <1>10, GTickInv
<1> QED
  BY <1>1, <1>2, <1>3, <1>4, <1>5, <1>6, <1>7, <1>8, <1>9, <1>10 DEF Gov!Next

\* The invariant holds throughout.
LEMMA GInvariance == ASSUME Assumptions PROVE Gov!Spec => []GInv
<1>1. Gov!Init => GInv
  BY GInitInv
<1>2. GInv /\ [Gov!Next]_Gov!vars => GInv'
  BY GNextInv
<1> QED
  BY <1>1, <1>2, PTL DEF Gov!Spec

\* For any workers, rows, aliases, lost answers, kills and times that fit into lease and
\* claim: a job whose phase is on record has done what that phase and those before it
\* promise, although logins write rows until the user is fenced and workers act on old
\* copies; and the hold is reported enabled only with no external action in flight
\* (checkpoint, settle_enabling_hold).
THEOREM ErasureIsEarned ==
    ASSUME Assumptions
    PROVE  Gov!Spec => [](Gov!PhaseIsEarned /\ Gov!HoldMeansDrained)
<1>1. GInv => Gov!PhaseIsEarned /\ Gov!HoldMeansDrained
  BY DEF GInv
<1> QED
  BY <1>1, GInvariance, PTL

\* Whatever destroys is a worker under its fence, and the call of a delayed
\* one meets a secret whose action is not drained.
LEMMA QuietStep ==
    ASSUME Assumptions, GInv, CallsInTime, [Gov!Next]_Gov!vars
    PROVE  Gov!HoldIsQuiet
<1>1. SUFFICES ASSUME hold = "enabled"
               PROVE  /\ secret' = secret
                      /\ \A j \in Jobs : /\ data[j].rows \subseteq data'[j].rows
                                         /\ data'[j].ident = data[j].ident
  BY DEF Gov!HoldIsQuiet
<1>2. Gov!held
  BY <1>1 DEF Gov!held
<1>3. CASE UNCHANGED <<data, secret>>
  BY <1>3
<1>4. CASE \E r \in Rows : Gov!WriteUserRow(r)
  BY <1>4 DEF Gov!WriteUserRow, GInv, Types, DataV
<1>5. ASSUME NEW w \in Workers, Gov!schedule_secret_deletion(w)
      PROVE  UNCHANGED <<data, secret>>
  <2>1. ~Gov!SecretStands
    BY <1>1, <1>5, DispatchTime DEF CallsInTime, Gov!schedule_secret_deletion, Gov!At, GInv,
                                    Gov!HoldMeansDrained, Gov!requires_hold_drain
  <2> QED
    BY <1>5, <2>1 DEF Gov!schedule_secret_deletion, Gov!SecretStands, GInv, Types
<1>6. ASSUME NEW w \in Workers, Gov!Fence(w)
      PROVE  FALSE
  BY <1>2, <1>6 DEF Gov!Fence
<1>7. \/ UNCHANGED <<data, secret>>
      \/ \E r \in Rows : Gov!WriteUserRow(r)
      \/ \E w \in Workers : Gov!schedule_secret_deletion(w) \/ Gov!Fence(w)
  <2>1. CASE UNCHANGED Gov!vars
    BY <2>1 DEF Gov!vars
  <2>2. CASE \/ Gov!EnableHold \/ Gov!DisableHold \/ Gov!settle_enabling_policy
             \/ Gov!start_user_erasure \/ Gov!start_tenant_offboarding \/ Gov!control_resume_job
             \/ \E j \in Jobs : Gov!extend_retention_for_audit(j) \/ Gov!finalize_retention_job(j)
             \/ Gov!Tick
    BY <2>2 DEF Gov!EnableHold, Gov!DisableHold, Gov!settle_enabling_policy,
                Gov!start_user_erasure,
                Gov!start_tenant_offboarding, Gov!control_resume_job,
                Gov!extend_retention_for_audit,
                Gov!finalize_retention_job, Gov!Tick
  <2>3. ASSUME NEW w \in Workers, Gov!Start(w) \/ Gov!Fail(w) \/ Gov!Killed(w)
        PROVE  UNCHANGED <<data, secret>>
    BY <2>3 DEF Gov!Start, Gov!SkipCommand, Gov!BeginHeld, Gov!PolicyChanged, Gov!BeginWork,
                Gov!LeaseRefused, Gov!Fail, Gov!Killed
  <2>4. ASSUME NEW w \in Workers, Gov!Proceed(w)
        PROVE  UNCHANGED <<data, secret>> \/ Gov!schedule_secret_deletion(w) \/ Gov!Fence(w)
    <3>1. CASE Gov!fence_user_identity(w) \/ Gov!delete_user_identity(w) \/ Gov!write_tenant_suppression(w)
      BY <3>1 DEF Gov!fence_user_identity, Gov!delete_user_identity,
                  Gov!write_tenant_suppression, Gov!Destroy
    <3>2. CASE \/ \E r \in Rows : Gov!DeleteRow(w, r)
               \/ \E a \in Aliases : Gov!put_suppression(w, a)
      BY <3>2 DEF Gov!DeleteRow, Gov!put_suppression, Gov!Destroy
    <3>3. CASE \/ Gov!FenceConflict(w) \/ Gov!UserCleaned(w) \/ Gov!SuppressionsWritten(w) \/ Gov!VerifyReplicas(w)
               \/ Gov!OffboardingIntent(w) \/ Gov!start_offboarding_child(w)
               \/ Gov!WaitForChild(w) \/ Gov!NoUserLeft(w)
               \/ Gov!prepare_external_action(w) \/ Gov!claim_external_action(w)
               \/ Gov!ResumeAction(w)
               \/ Gov!ActionOver(w) \/ Gov!ObserveDeletion(w) \/ Gov!FindExpired(w)
               \/ Gov!LeaveClaim(w)
      BY <3>3 DEF Gov!FenceConflict, Gov!UserCleaned, Gov!SuppressionsWritten,
                  Gov!VerifyReplicas, Gov!OffboardingIntent,
           Gov!start_offboarding_child, Gov!WaitForChild, Gov!NoUserLeft,
           Gov!prepare_external_action,
           Gov!claim_external_action, Gov!ResumeAction, Gov!ActionOver, Gov!ObserveDeletion,
           Gov!FindExpired, Gov!LeaveClaim
    <3>4. CASE \/ Gov!ApproveDispatch(w)
               \/ Gov!reconcile_external_action(w) \/ Gov!tombstone_expired_claim(w)
               \/ Gov!WaitForLeases(w) \/ Gov!Drain(w) \/ Gov!settle_enabling_hold(w)
               \/ Gov!SettleConflict(w)
               \/ Gov!block_for_hold(w) \/ Gov!release_phase_lease(w) \/ Gov!checkpoint(w)
               \/ Gov!FailCommand(w) \/ Gov!EndCommand(w)
      BY <3>4 DEF Gov!ApproveDispatch, Gov!reconcile_external_action,
                  Gov!tombstone_expired_claim, Gov!WaitForLeases,
           Gov!Drain, Gov!settle_enabling_hold, Gov!SettleConflict, Gov!block_for_hold,
           Gov!release_phase_lease,
           Gov!checkpoint, Gov!FailCommand, Gov!EndCommand
    <3> QED
      BY <2>4, <3>1, <3>2, <3>3, <3>4 DEF Gov!Proceed
  <2> QED
    BY <2>1, <2>2, <2>3, <2>4 DEF Gov!Next
<1> QED
  BY <1>3, <1>4, <1>5, <1>6, <1>7

\* While the hold is enabled no row and no identity goes and no call reaches the secret, in
\* every behaviour in which no call is made later than the bound of a call after the
\* reading it was approved at (CallsInTime): a later one may come when the claim has been
\* closed as expired and the hold reported (complete_claimed_secret_action).
THEOREM HoldQuiet ==
    ASSUME Assumptions
    PROVE  Gov!Spec /\ []CallsInTime => [][Gov!HoldIsQuiet]_Gov!vars
<1>1. GInv /\ CallsInTime /\ [Gov!Next]_Gov!vars => [Gov!HoldIsQuiet]_Gov!vars
  BY QuietStep
<1> QED
  BY <1>1, GInvariance, PTL DEF Gov!Spec

-----------------------------------------------------------------------------
(***************************************************************************)
(* The signing keys, for any number of algorithms, keys, workers, commands *)
(* and operations and any windows that fit: a signature can be verified for*)
(* as long as it lives, and a key signs once verifiers have it.            *)
(*                                                                         *)
(* Both are matters of time. A key may leave the published ones when its   *)
(* last signature has lapsed, which Outlived keeps track of: a candidate   *)
(* that was only published has none, and a key that an activation or its   *)
(* rollback takes out of use has its last one by the end of the overlap,   *)
(* because the commit is no later than the delay after the reading that the*)
(* overlap is counted from (Fit). Announcement says since when verifiers   *)
(* can have a key. Both need that nobody publishes anew what has become    *)
(* active (Timely): a worker that provisions a generation began before its *)
(* publication, and its invocation has ended when it can be activated.     *)
(*                                                                         *)
(* The steps of the record are proved first, as the Moves it can make, and *)
(* the steps of the workers after, each as one of these moves.             *)
(***************************************************************************)

CONSTANTS NumAlgs, Keys, NoKey, Ops, NoOp, Commands, OnboardOp, PublishAhead,
          PublishingTimeout, Overlap, WorkerTimeout, CommitDelay, TokenLife, JwksMaxAge, MaxTime
VARIABLES rec, kms, indexed, work, now, signed, since

Ring == INSTANCE TenantKeys

Places == Keys \cup {NoKey}
OpIds == Ops \cup {NoOp}
Snapshots == [gen : Nat, active : [Ring!Algs -> Places], published : SUBSET Keys, committed : Nat]
Operations ==
    [id : OpIds, kind : {"none", "onboard", "rotate"}, gen : Nat, cand : [Ring!Algs -> Places],
     verified : SUBSET Ring!Algs, readiness : SUBSET Ring!Algs, previous : Snapshots,
     retireAfter : Nat]
Failures == [id : OpIds, cand : SUBSET Keys, cleanup : SUBSET Keys, pending : BOOLEAN]
Records ==
    [lifecycle : Ring!Lifecycles \cup {"none"}, served : Snapshots, op : Operations,
     failure : Failures, completed : OpIds, outcome : Ring!Outcomes, revoked : OpIds,
     pending : SUBSET Keys, scheduled : SUBSET Keys, offboard : OpIds]
Afters == {"idle", "get", "probe", "finish", "ensure", "rotate"}
Locals ==
    [pc : {"idle"} \cup Ring!AllCommands \cup Ring!Steps, op : OpIds, gen : Nat,
     alg : 1..(NumAlgs + 1), key : Places, todo : SUBSET Keys, fresh : BOOLEAN, after : Afters, start : Nat]

KeyTypes ==
    /\ rec \in Records
    /\ kms \in [Keys -> [state : {"absent", "enabled", "deleting"}, op : OpIds, gen : Nat,
                         alg : Nat]]
    /\ indexed \subseteq Keys
    /\ work \in [Workers -> Locals]
    /\ now \in Nat \ {0}
    /\ signed \in [Keys -> Nat] /\ since \in [Keys -> Nat]

Running == {"provisioning", "publishing", "active_overlap", "rollback_overlap"}
Published == Running \ {"provisioning"}

\* What the served snapshot is at each stage of an operation.
Staged(r) ==
    /\ r.lifecycle \notin Running => r.op = Ring!NoOperation
    /\ r.lifecycle \in Running => r.op.id \in Ops /\ r.op.kind \in {"onboard", "rotate"}
    /\ r.op.kind = "onboard" =>
         r.lifecycle = "provisioning" /\ r.op.previous = Ring!NoSnapshot
    /\ r.op.kind = "rotate" => r.revoked = NoOp
    /\ r.lifecycle = "provisioning" => r.served = r.op.previous
    /\ r.lifecycle \in Published =>
         /\ r.op.verified = Ring!Algs
         /\ r.served.published = r.op.previous.published \cup Ring!KeysOf(r.op.cand)
         /\ r.served.active = IF r.lifecycle = "active_overlap" THEN r.op.cand
                                                                ELSE r.op.previous.active
    /\ \A a \in r.op.verified : r.op.cand[a] # NoKey
    /\ Ring!KeysOf(r.op.previous.active) \subseteq r.op.previous.published
    /\ Ring!KeysOf(r.served.active) \subseteq r.served.published

\* No signature of k is alive.
Lapsed(k) == signed[k] = 0 \/ now >= signed[k] + TokenLife

\* The last signature of a key that may leave with the operation's end.
Outlived ==
    /\ rec.lifecycle = "publishing" =>
         \A k \in Keys : k \notin rec.op.previous.published => Lapsed(k)
    /\ rec.lifecycle = "active_overlap" =>
         \A k \in Keys : k \notin Ring!KeysOf(rec.op.cand)
                            => signed[k] + TokenLife <= rec.op.retireAfter
    /\ rec.lifecycle = "rollback_overlap" =>
         \A k \in Keys : k \notin Ring!KeysOf(rec.op.previous.active)
                            => signed[k] + TokenLife <= rec.op.retireAfter
    /\ \A k \in Keys : signed[k] <= now

\* Since when verifiers can have a published key.
Announcement ==
    /\ rec.served.committed <= now /\ rec.op.previous.committed <= now
    /\ \A k \in Keys : (k \in rec.served.published <=> since[k] # 0) /\ since[k] <= now
    /\ rec.lifecycle = "publishing" =>
         \A k \in rec.served.published : since[k] <= rec.served.committed
    /\ rec.lifecycle \in {"active_overlap", "rollback_overlap"} =>
         \A k \in rec.served.published : since[k] + JwksMaxAge <= now

\* A worker that works on a generation.
OnGeneration(l) ==
    \/ l.pc \in {"get", "find", "create", "record", "reget", "orphans", "probe", "verify"}
    \/ l.pc \in {"persist", "delete"} /\ l.after \in {"get", "probe"}

\* What a worker is at, and on whose behalf.
Fit(l, time) ==
    /\ l.pc # "idle" => l.op \in Ops /\ l.start <= time /\ time <= l.start + WorkerTimeout
    /\ l.pc \in {"activate", "rollback"} => time <= l.start + CommitDelay
    /\ l.pc = "compensate" => l.after \in {"idle", "ensure", "rotate"}
    /\ l.pc = "persist" => l.after \in {"idle", "get", "probe"}
    /\ l.pc = "orphans" => l.after \in {"get", "probe"}
    /\ l.pc \in {"record", "lost"} => l.key \in Keys
    /\ OnGeneration(l) /\ l.pc # "get" => l.alg \in Ring!Algs

\* Nobody works on a generation that has become active: its publication waits longer than an
\* invocation lives.
Timely(l, r) ==
    OnGeneration(l) =>
        /\ r.lifecycle = "publishing" => l.start <= r.served.committed
        /\ r.lifecycle \notin {"active_overlap", "rollback_overlap"}

WindowInv ==
    /\ KeyTypes /\ Staged(rec) /\ Ring!SignaturesVerify /\ Outlived /\ Announcement
    /\ \A w \in Workers : Fit(work[w], now) /\ Timely(work[w], rec)

KeyAssumptions ==
    /\ Ring!AlgsAssumption /\ Ring!NamesAssumption /\ Ring!TimesAssumption
    /\ Ring!WindowsAssumption /\ Ring!CommandsAssumption

-----------------------------------------------------------------------------
\* What a step may do to the record.
Quiet ==
    /\ rec'.lifecycle = rec.lifecycle /\ rec'.served = rec.served
    /\ rec'.op = rec.op /\ rec'.revoked = rec.revoked
Onboards ==
    /\ rec.served = Ring!NoSnapshot /\ rec'.served = Ring!NoSnapshot
    /\ rec'.lifecycle = "provisioning"
    /\ \E id \in Ops : rec'.op = Ring!Operation(id, "onboard", 1, Ring!NoSnapshot)
Rotates ==
    /\ rec'.served = rec.served /\ rec'.lifecycle = "provisioning" /\ rec'.revoked = NoOp
    /\ \E id \in Ops, g \in Nat : rec'.op = Ring!Operation(id, "rotate", g, rec.served)
Preparing == rec.lifecycle \in {"provisioning", "publishing"}
Prepares ==
    /\ Preparing
    /\ rec'.lifecycle = rec.lifecycle /\ rec'.served = rec.served /\ rec'.revoked = rec.revoked
    /\ rec'.op.id = rec.op.id /\ rec'.op.kind = rec.op.kind
    /\ rec'.op.previous = rec.op.previous
    /\ \A a \in rec'.op.verified : rec'.op.cand[a] # NoKey
    /\ rec.lifecycle = "publishing" => rec'.op.cand = rec.op.cand /\ rec'.op.verified = Ring!Algs
Publishes ==
    /\ Preparing /\ rec.op.verified = Ring!Algs /\ rec'.revoked = rec.revoked
    /\ \/ /\ rec.op.kind = "onboard" /\ rec'.lifecycle = "ready" /\ rec'.op = Ring!NoOperation
          /\ rec'.served = Ring!Generation(rec.op, now)
       \/ /\ rec.op.kind = "rotate" /\ rec'.lifecycle = "publishing" /\ rec'.op = rec.op
          /\ rec'.served = Ring!Overlapping(rec.op, FALSE, now)
\* A failure, or a rollback of what was only published.
Withdraws ==
    /\ Preparing /\ rec'.revoked = rec.revoked
    /\ rec'.served = rec.op.previous /\ rec'.op = Ring!NoOperation
    /\ rec'.lifecycle \in {"failed", "ready"}
Overlapped ==
    /\ rec'.served.published = rec.op.previous.published \cup Ring!KeysOf(rec.op.cand)
    /\ rec'.op.cand = rec.op.cand /\ rec'.op.previous = rec.op.previous
    /\ rec'.op.verified = rec.op.verified /\ rec'.op.kind = rec.op.kind
    /\ rec'.op.id = rec.op.id /\ rec'.revoked = rec.revoked
Activates(b) ==
    /\ rec.lifecycle = "publishing" /\ rec.served.committed + PublishAhead <= b
    /\ now <= b + CommitDelay
    /\ rec'.lifecycle = "active_overlap" /\ Overlapped
    /\ rec'.op.retireAfter = b + Overlap
    /\ rec'.served.active = rec.op.cand /\ rec'.served.committed = b
TurnsBack(b) ==
    /\ rec.lifecycle = "active_overlap" /\ now <= b + CommitDelay
    /\ rec'.lifecycle = "rollback_overlap" /\ Overlapped
    /\ rec'.op.retireAfter = b + Overlap
    /\ rec'.served.active = rec.op.previous.active /\ rec'.served.committed = b
Retires(b) ==
    /\ rec.lifecycle \in {"active_overlap", "rollback_overlap"} /\ rec.op.retireAfter <= b
    /\ rec'.lifecycle = "ready" /\ rec'.op = Ring!NoOperation /\ rec'.revoked = rec.revoked
    /\ rec'.served = IF rec.lifecycle = "active_overlap" THEN Ring!Generation(rec.op, b)
                                                         ELSE rec.op.previous
Revokes(b) ==
    /\ rec.lifecycle \in {"publishing", "active_overlap"}
    /\ rec'.lifecycle = "ready" /\ rec'.op = Ring!NoOperation /\ rec'.revoked = rec.op.id
    /\ rec'.served = Ring!Generation(rec.op, b)
Closes ==
    /\ Ring!Closed(rec') /\ rec'.op = Ring!NoOperation
    /\ rec'.served = Ring!NoSnapshot \/ rec'.served = rec.served

Moves ==
    \/ Quiet \/ Onboards \/ Rotates \/ Prepares \/ Publishes \/ Withdraws \/ Closes
    \/ \E b \in Nat : b <= now /\ (Activates(b) \/ TurnsBack(b) \/ Retires(b) \/ Revokes(b))

-----------------------------------------------------------------------------
LEMMA NoSnapshotIs ==
    ASSUME KeyAssumptions
    PROVE  /\ Ring!NoSnapshot \in Snapshots /\ Ring!NoSnapshot.committed = 0 /\ Ring!NoSnapshot.published = {}
           /\ Ring!KeysOf(Ring!NoSnapshot.active) = {}
           /\ Ring!NoOperation \in Operations /\ Ring!NoOperation.kind = "none" /\ Ring!NoOperation.id = NoOp
           /\ Ring!NoOperation.previous = Ring!NoSnapshot /\ Ring!NoOperation.verified = {}
           /\ Ring!NoOperation.cand = Ring!NoSnapshot.active
<1>1. Ring!NoSnapshot \in Snapshots /\ Ring!NoSnapshot.committed = 0 /\ Ring!NoSnapshot.published = {}
  BY DEF Ring!NoSnapshot, Snapshots, Places
<1>2. Ring!KeysOf(Ring!NoSnapshot.active) = {}
  <2>1. \A a \in Ring!Algs : Ring!NoSnapshot.active[a] = NoKey
    BY DEF Ring!NoSnapshot
  <2> QED
    BY <2>1 DEF Ring!KeysOf
<1>3. /\ Ring!NoOperation.kind = "none" /\ Ring!NoOperation.id = NoOp
      /\ Ring!NoOperation.previous = Ring!NoSnapshot /\ Ring!NoOperation.verified = {}
      /\ Ring!NoOperation.cand = Ring!NoSnapshot.active
  BY DEF Ring!NoOperation, Ring!NoSnapshot
<1>4. Ring!NoOperation \in Operations
  BY <1>1 DEF Ring!NoOperation, Operations, OpIds, Places
<1> QED
  BY <1>1, <1>2, <1>3, <1>4

LEMMA OperationIs ==
    ASSUME KeyAssumptions, NEW id \in OpIds, NEW kind \in {"onboard", "rotate"}, NEW g \in Nat,
           NEW previous \in Snapshots
    PROVE  LET o == Ring!Operation(id, kind, g, previous) IN
           /\ o \in Operations /\ o.id = id /\ o.kind = kind /\ o.gen = g
           /\ o.previous = previous /\ o.verified = {}
<1>1. Ring!NoOperation \in Operations /\ Ring!NoOperation.verified = {}
  BY NoSnapshotIs
<1> QED
  BY <1>1 DEF Ring!Operation, Operations, OpIds

LEMMA GenerationIs ==
    ASSUME NEW o \in Operations, NEW n \in Nat, Ring!NamesAssumption
    PROVE  LET g == Ring!Generation(o, n) IN
           /\ g \in Snapshots /\ g.active = o.cand /\ g.published = Ring!KeysOf(o.cand)
           /\ g.committed = n
<1>1. Ring!KeysOf(o.cand) \subseteq Keys
  BY DEF Ring!KeysOf, Operations, Places
<1> QED
  BY <1>1 DEF Ring!Generation, Snapshots, Operations

LEMMA OverlappingIs ==
    ASSUME NEW o \in Operations, NEW n \in Nat, Ring!NamesAssumption
    PROVE  /\ \A g \in {Ring!Overlapping(o, TRUE, n), Ring!Overlapping(o, FALSE, n)} :
                /\ g \in Snapshots /\ g.committed = n
                /\ g.published = o.previous.published \cup Ring!KeysOf(o.cand)
           /\ Ring!Overlapping(o, TRUE, n).active = o.cand
           /\ Ring!Overlapping(o, FALSE, n).active = o.previous.active
<1>1. Ring!KeysOf(o.cand) \subseteq Keys
  BY DEF Ring!KeysOf, Operations, Places
<1> QED
  BY <1>1 DEF Ring!Overlapping, Snapshots, Operations

-----------------------------------------------------------------------------
KeysBefore ==
    /\ KeyAssumptions /\ KeyTypes /\ Staged(rec) /\ Ring!SignaturesVerify /\ Outlived
    /\ Announcement
KeysAfter ==
    /\ Staged(rec') /\ Ring!SignaturesVerify' /\ Outlived' /\ Announcement' /\ Ring!KnownBeforeSigning

\* What a step shows of the record.
LEMMA Observed ==
    ASSUME KeyTypes, Ring!Observe
    PROVE  /\ signed' \in [Keys -> Nat] /\ since' \in [Keys -> Nat]
           /\ \A k \in Keys :
                /\ since'[k] = IF k \notin rec'.served.published THEN 0
                               ELSE IF k \in rec.served.published THEN since[k] ELSE now
                /\ signed'[k] \in {0, now, signed[k]}
                /\ k \notin Ring!ActiveKeys(rec) => signed'[k] \in {0, signed[k]}
                /\ /\ rec'.revoked \notin {NoOp, rec.revoked} \/ Ring!Closed(rec')
                   /\ k \notin rec'.served.published
                   => signed'[k] = 0
<1>1. /\ signed' \in [Keys -> Nat] /\ since' \in [Keys -> Nat]
  BY DEF Ring!Observe, KeyTypes
<1> QED
  BY <1>1 DEF Ring!Observe, KeyTypes

\* A key leaves with its signatures cut, or lapsed.
LEMMA Leaving ==
    ASSUME KeysBefore, Ring!Observe, now' \in Nat, now <= now', rec' \in Records,
           \A k \in Keys : k \notin rec'.served.published =>
               signed'[k] = 0 \/ (k \notin Ring!ActiveKeys(rec) /\ Lapsed(k))
    PROVE  Ring!SignaturesVerify'
<1> SUFFICES ASSUME NEW k \in Keys, signed'[k] # 0, now' < signed'[k] + TokenLife,
                    k \notin rec'.served.published
             PROVE  FALSE
  BY DEF Ring!SignaturesVerify
<1>1. signed'[k] = signed[k] /\ Lapsed(k)
  BY Observed DEF KeysBefore
<1> QED
  BY <1>1 DEF Lapsed, KeysBefore, KeyTypes, KeyAssumptions, Ring!TimesAssumption

\* Verifiers are told of a key when it is published.
LEMMA Announced ==
    ASSUME KeysBefore, Ring!Observe, now' \in Nat, now <= now', rec' \in Records
    PROVE  \A k \in Keys : /\ k \in rec'.served.published <=> since'[k] # 0
                         /\ since'[k] <= now /\ since'[k] <= now'
BY Observed DEF KeysBefore, Announcement, KeyTypes

\* No active key is new.
LEMMA NothingNew ==
    ASSUME Ring!ActiveKeys(rec') \subseteq Ring!ActiveKeys(rec)
    PROVE  Ring!KnownBeforeSigning
BY DEF Ring!KnownBeforeSigning

\* An active key is published.
LEMMA ActiveIsPublished ==
    ASSUME KeysBefore
    PROVE  Ring!ActiveKeys(rec) \subseteq rec.served.published /\ rec.served.published \subseteq Keys
BY DEF KeysBefore, Staged, Ring!ActiveKeys, KeyTypes, Records, Snapshots

LEMMA LapsedOut ==
    ASSUME KeysBefore, NEW k \in Keys, k \notin rec.served.published
    PROVE  Lapsed(k) /\ k \notin Ring!ActiveKeys(rec)
BY ActiveIsPublished DEF KeysBefore, Ring!SignaturesVerify, Lapsed, KeyTypes, KeyAssumptions,
   Ring!TimesAssumption

LEMMA SameTime ==
    ASSUME KeysBefore, now' = now
    PROVE  now' \in Nat /\ now <= now'
BY DEF KeysBefore, KeyTypes

LEMMA QuietMove ==
    ASSUME KeysBefore, Ring!Observe, now' \in Nat, now <= now', rec' \in Records, Quiet
    PROVE  KeysAfter
<1>1. Ring!ActiveKeys(rec') = Ring!ActiveKeys(rec)
  BY DEF Quiet, Ring!ActiveKeys
<1>2. Ring!SignaturesVerify'
  BY <1>1, Leaving, LapsedOut DEF Quiet
<1>3. Ring!KnownBeforeSigning
  BY <1>1, NothingNew
<1>4. Staged(rec')
  BY DEF KeysBefore, Staged, Quiet
<1>5. Outlived'
  <2>1. \A k \in Keys : signed'[k] <= now /\ signed'[k] <= now'
    BY Observed DEF KeysBefore, Outlived, KeyTypes
  <2>2. ASSUME rec'.lifecycle = "publishing", NEW k \in Keys, k \notin rec'.op.previous.published
        PROVE  Lapsed(k)'
    <3>1. k \notin Ring!ActiveKeys(rec) /\ Lapsed(k)
      BY <2>2 DEF KeysBefore, Staged, Quiet, Ring!ActiveKeys, Published, Running, Outlived
    <3> QED
      BY <3>1, Observed DEF KeysBefore, Lapsed, KeyTypes, KeyAssumptions, Ring!TimesAssumption
  <2>3. ASSUME rec'.lifecycle = "active_overlap", NEW k \in Keys, k \notin Ring!KeysOf(rec'.op.cand)
        PROVE  signed'[k] + TokenLife <= rec'.op.retireAfter
    <3>1. k \notin Ring!ActiveKeys(rec) /\ signed[k] + TokenLife <= rec.op.retireAfter
      BY <2>3 DEF KeysBefore, Staged, Quiet, Ring!ActiveKeys, Published, Running, Outlived
    <3> QED
      BY <3>1, Observed DEF KeysBefore, Quiet, KeyTypes, Records, Operations, KeyAssumptions,
         Ring!TimesAssumption
  <2>4. ASSUME rec'.lifecycle = "rollback_overlap", NEW k \in Keys,
               k \notin Ring!KeysOf(rec'.op.previous.active)
        PROVE  signed'[k] + TokenLife <= rec'.op.retireAfter
    <3>1. k \notin Ring!ActiveKeys(rec) /\ signed[k] + TokenLife <= rec.op.retireAfter
      BY <2>4 DEF KeysBefore, Staged, Quiet, Ring!ActiveKeys, Published, Running, Outlived
    <3> QED
      BY <3>1, Observed DEF KeysBefore, Quiet, KeyTypes, Records, Operations, KeyAssumptions,
         Ring!TimesAssumption
  <2> QED
    BY <2>1, <2>2, <2>3, <2>4 DEF Outlived
<1>6. Announcement'
  <2>1. \A k \in rec.served.published : since'[k] = since[k] /\ since[k] \in Nat
    BY Observed DEF KeysBefore, Quiet, KeyTypes, Records, Snapshots
  <2>2. \A k \in Keys : (k \in rec'.served.published <=> since'[k] # 0) /\ since'[k] <= now'
    BY Announced
  <2>3. /\ rec.served.committed <= now' /\ rec.op.previous.committed <= now'
        /\ JwksMaxAge \in Nat /\ now \in Nat
    BY DEF KeysBefore, Announcement, KeyTypes, Records, Operations, Snapshots, KeyAssumptions,
           Ring!TimesAssumption
  <2>4. rec'.lifecycle = "publishing" =>
            \A k \in rec'.served.published : since'[k] <= rec'.served.committed
    BY <2>1 DEF KeysBefore, Announcement, Quiet
  <2>5. rec'.lifecycle \in {"active_overlap", "rollback_overlap"} =>
            \A k \in rec'.served.published : since'[k] + JwksMaxAge <= now'
    BY <2>1, <2>3 DEF KeysBefore, Announcement, Quiet
  <2> QED
    BY <2>2, <2>3, <2>4, <2>5 DEF Announcement, Quiet
<1> QED
  BY <1>2, <1>3, <1>4, <1>5, <1>6 DEF KeysAfter

\* Away from the overlaps, little is left to show.
LEMMA Settling ==
    ASSUME KeysBefore, Ring!Observe, now' = now, rec' \in Records, Staged(rec'),
           rec'.lifecycle \notin Published,
           rec'.served.committed <= now, rec'.op.previous.committed <= now,
           \/ Ring!ActiveKeys(rec') \subseteq Ring!ActiveKeys(rec)
           \/ ~Ring!Served(rec) \/ rec'.revoked \notin {NoOp, rec.revoked},
           \A k \in Keys : k \notin rec'.served.published =>
               signed'[k] = 0 \/ (k \notin Ring!ActiveKeys(rec) /\ Lapsed(k))
    PROVE  KeysAfter
<1>1. Ring!SignaturesVerify'
  BY Leaving, SameTime
<1>2. Ring!KnownBeforeSigning
  BY DEF Ring!KnownBeforeSigning
<1>3. Outlived'
  BY Observed DEF KeysBefore, Outlived, Published, Running, KeyTypes
<1>4. Announcement'
  BY Announced, SameTime DEF Announcement, Published, Running
<1> QED
  BY <1>1, <1>2, <1>3, <1>4 DEF KeysAfter

LEMMA OnboardMove ==
    ASSUME KeysBefore, Ring!Observe, now' = now, rec' \in Records, Onboards
    PROVE  KeysAfter
<1>1. PICK id \in Ops : rec'.op = Ring!Operation(id, "onboard", 1, Ring!NoSnapshot)
  BY DEF Onboards
<1>2. /\ rec'.op.id = id /\ rec'.op.kind = "onboard" /\ rec'.op.previous = Ring!NoSnapshot
      /\ rec'.op.verified = {}
  BY <1>1, NoSnapshotIs, OperationIs DEF KeysBefore, OpIds
<1>3. /\ Ring!KeysOf(Ring!NoSnapshot.active) = {} /\ Ring!NoSnapshot.committed = 0
      /\ Ring!NoSnapshot.published = {}
  BY NoSnapshotIs DEF KeysBefore
<1>4. Staged(rec')
  BY <1>2, <1>3 DEF Onboards, Staged, Running, Published
<1>5. Ring!ActiveKeys(rec') = {} /\ rec'.served.published = rec.served.published
  BY <1>3 DEF Onboards, Ring!ActiveKeys
<1>6. \A k \in Keys : k \notin rec'.served.published => k \notin Ring!ActiveKeys(rec) /\ Lapsed(k)
  BY <1>5, LapsedOut
<1>7. 0 <= now
  BY DEF KeysBefore, KeyTypes
<1> QED
  BY <1>2, <1>3, <1>4, <1>5, <1>6, <1>7, Settling DEF Onboards, Published, Running

LEMMA RotateMove ==
    ASSUME KeysBefore, Ring!Observe, now' = now, rec' \in Records, Rotates
    PROVE  KeysAfter
<1>1. PICK id \in Ops, g \in Nat : rec'.op = Ring!Operation(id, "rotate", g, rec.served)
  BY DEF Rotates
<1>2. /\ rec'.op.id = id /\ rec'.op.kind = "rotate" /\ rec'.op.previous = rec.served
      /\ rec'.op.verified = {}
  BY <1>1, OperationIs DEF KeysBefore, OpIds, KeyTypes, Records
<1>4. Staged(rec')
  BY <1>2 DEF KeysBefore, Rotates, Staged, Running, Published
<1>5. Ring!ActiveKeys(rec') = Ring!ActiveKeys(rec)
  BY DEF Rotates, Ring!ActiveKeys
<1>6. \A k \in Keys : k \notin rec'.served.published => k \notin Ring!ActiveKeys(rec) /\ Lapsed(k)
  BY LapsedOut DEF Rotates
<1> QED
  BY <1>2, <1>4, <1>5, <1>6, Settling DEF KeysBefore, Announcement, Rotates, Published, Running

\* Preparing a candidate changes nothing that is served.
LEMMA PrepareMove ==
    ASSUME KeysBefore, Ring!Observe, now' = now, rec' \in Records, Prepares
    PROVE  KeysAfter
<1>1. Staged(rec')
  BY DEF KeysBefore, Prepares, Preparing, Staged, Running, Published
<1>2. Ring!ActiveKeys(rec') = Ring!ActiveKeys(rec)
  BY DEF Prepares, Ring!ActiveKeys
<1>3. \A k \in Keys : k \notin rec'.served.published => k \notin Ring!ActiveKeys(rec) /\ Lapsed(k)
  BY LapsedOut DEF Prepares
<1>4. Ring!SignaturesVerify'
  BY <1>3, Leaving, SameTime
<1>5. Ring!KnownBeforeSigning
  BY <1>2, NothingNew
<1>6. Outlived'
  <2>1. ASSUME rec'.lifecycle = "publishing", NEW k \in Keys, k \notin rec'.op.previous.published
        PROVE  Lapsed(k)'
    <3>1. k \notin Ring!ActiveKeys(rec) /\ Lapsed(k)
      BY <2>1 DEF KeysBefore, Staged, Prepares, Ring!ActiveKeys, Published, Running, Outlived
    <3> QED
      BY <3>1, Observed DEF KeysBefore, Lapsed
  <2>2. \A k \in Keys : signed'[k] <= now
    BY Observed DEF KeysBefore, Outlived, KeyTypes
  <2> QED
    BY <2>1, <2>2 DEF Outlived, Prepares, Preparing
<1>7. Announcement'
  BY Announced, SameTime, Observed DEF KeysBefore, Announcement, Prepares, Preparing, KeyTypes,
     Records, Snapshots
<1> QED
  BY <1>1, <1>4, <1>5, <1>6, <1>7 DEF KeysAfter

LEMMA PublishMove ==
    ASSUME KeysBefore, Ring!Observe, now' = now, rec' \in Records, Publishes
    PROVE  KeysAfter
<1>0. rec.op \in Operations /\ now \in Nat /\ Ring!NamesAssumption /\ rec.op.previous \in Snapshots
  BY DEF KeysBefore, KeyTypes, Records, Operations, KeyAssumptions
<1>1. CASE rec.op.kind = "onboard"
  <2>1. /\ rec'.lifecycle = "ready" /\ rec'.op = Ring!NoOperation
        /\ rec'.served.active = rec.op.cand /\ rec'.served.published = Ring!KeysOf(rec.op.cand)
        /\ rec'.served.committed = now
    BY <1>0, <1>1, GenerationIs DEF Publishes
  <2>2. rec.served = Ring!NoSnapshot
    BY <1>1 DEF KeysBefore, Staged
  <2>3. Staged(rec')
    BY <2>1, NoSnapshotIs DEF KeysBefore, Staged, Running, Published
  <2>4. ~Ring!Served(rec)
    BY <2>2 DEF Ring!Served
  <2>5. ASSUME NEW k \in Keys, k \notin rec'.served.published
        PROVE  k \notin Ring!ActiveKeys(rec) /\ Lapsed(k)
    <3>1. k \notin rec.served.published
      BY <2>2, NoSnapshotIs DEF KeysBefore
    <3> QED
      BY <3>1, LapsedOut
  <2>6. rec'.op.previous.committed <= now
    BY <1>0, <2>1, NoSnapshotIs DEF KeysBefore
  <2> QED
    BY <1>0, <2>1, <2>3, <2>4, <2>5, <2>6, Settling DEF Published, Running
<1>2. CASE rec.op.kind # "onboard"
  <2>1. /\ rec'.lifecycle = "publishing" /\ rec'.op = rec.op /\ rec.op.kind = "rotate"
        /\ rec'.revoked = rec.revoked /\ rec.op.verified = Ring!Algs
        /\ rec'.served.active = rec.op.previous.active
        /\ rec'.served.published = rec.op.previous.published \cup Ring!KeysOf(rec.op.cand)
        /\ rec'.served.committed = now
    <3>1. /\ rec'.lifecycle = "publishing" /\ rec'.op = rec.op /\ rec.op.kind = "rotate"
          /\ rec'.revoked = rec.revoked /\ rec.op.verified = Ring!Algs
      BY <1>2, Zenon DEF Publishes
    <3>2. rec'.served = Ring!Overlapping(rec.op, FALSE, now)
      BY <1>2, Zenon DEF Publishes
    <3>3. /\ rec'.served.active = rec.op.previous.active
          /\ rec'.served.published = rec.op.previous.published \cup Ring!KeysOf(rec.op.cand)
          /\ rec'.served.committed = now
      BY <3>2 DEF Ring!Overlapping
    <3> QED
      BY <3>1, <3>3
  <2>2. /\ rec.served.active = rec.op.previous.active
        /\ \/ rec.lifecycle = "publishing" /\ rec.served.published = rec'.served.published
           \/ rec.lifecycle = "provisioning" /\ rec.served = rec.op.previous
    BY <2>1 DEF KeysBefore, Publishes, Preparing, Staged, Running, Published
  <2>3. Staged(rec')
    BY <2>1, <2>2 DEF KeysBefore, Staged, Running, Published, Publishes, Preparing
  <2>4. Ring!ActiveKeys(rec') = Ring!ActiveKeys(rec)
    BY <2>1, <2>2 DEF Ring!ActiveKeys
  <2>5. ASSUME NEW k \in Keys, k \notin rec.op.previous.published
        PROVE  k \notin Ring!ActiveKeys(rec) /\ Lapsed(k)
    <3>1. CASE rec.lifecycle = "publishing"
      BY <2>2, <2>5, <3>1 DEF KeysBefore, Staged, Outlived, Ring!ActiveKeys
    <3>2. CASE rec.lifecycle = "provisioning"
      BY <2>2, <2>5, <3>2, LapsedOut
    <3> QED
      BY <2>2, <3>1, <3>2
  <2>6. Ring!SignaturesVerify'
    BY <2>1, <2>5, Leaving, SameTime
  <2>7. Ring!KnownBeforeSigning
    BY <2>4, NothingNew
  <2>8. Outlived'
    <3>1. \A k \in Keys : signed'[k] <= now
      BY Observed DEF KeysBefore, Outlived, KeyTypes
    <3>2. \A k \in Keys : k \notin rec.op.previous.published => Lapsed(k)'
      BY <2>5, Observed DEF KeysBefore, Lapsed
    <3> QED
      BY <2>1, <3>1, <3>2 DEF Outlived
  <2>9. Announcement'
    BY <1>0, <2>1, Announced, SameTime DEF KeysBefore, Announcement, KeyTypes, Records, Snapshots
  <2> QED
    BY <2>3, <2>6, <2>7, <2>8, <2>9 DEF KeysAfter
<1> QED
  BY <1>1, <1>2

\* Where no operation runs.
LEMMA Unstaged ==
    ASSUME KeyAssumptions, NEW r, r.op = Ring!NoOperation, r.lifecycle \notin Running,
           Ring!KeysOf(r.served.active) \subseteq r.served.published
    PROVE  Staged(r)
<1>1. /\ r.op.kind = "none" /\ r.op.verified = {} /\ r.op.previous = Ring!NoSnapshot
      /\ Ring!KeysOf(r.op.previous.active) = {}
  BY NoSnapshotIs
<1>2. r.lifecycle # "provisioning" /\ r.lifecycle \notin Published
  BY DEF Running, Published
<1> QED
  BY <1>1, <1>2 DEF Staged

LEMMA WithdrawMove ==
    ASSUME KeysBefore, Ring!Observe, now' = now, rec' \in Records, Withdraws
    PROVE  KeysAfter
<1>1. Ring!KeysOf(rec.op.previous.active) = Ring!ActiveKeys(rec)
  BY DEF KeysBefore, Staged, Withdraws, Preparing, Ring!ActiveKeys, Published, Running
<1>2. /\ rec'.op = Ring!NoOperation /\ rec'.served = rec.op.previous
      /\ rec'.lifecycle \notin Running /\ rec'.lifecycle \notin Published
  BY DEF Withdraws, Running, Published
<1>3. Staged(rec')
  BY <1>2, Unstaged DEF KeysBefore, Staged
<1>4. ASSUME NEW k \in Keys, k \notin rec'.served.published
      PROVE  k \notin Ring!ActiveKeys(rec) /\ Lapsed(k)
  <2>1. k \notin rec.op.previous.published
    BY <1>2, <1>4
  <2>2. CASE rec.lifecycle = "provisioning"
    BY <2>1, <2>2, LapsedOut DEF KeysBefore, Staged
  <2>3. CASE rec.lifecycle = "publishing"
    BY <1>1, <2>1, <2>3 DEF KeysBefore, Staged, Outlived
  <2> QED
    BY <2>2, <2>3 DEF Withdraws, Preparing
<1>5. Ring!ActiveKeys(rec') \subseteq Ring!ActiveKeys(rec)
  BY <1>1, <1>2 DEF Ring!ActiveKeys
<1>6. rec'.served.committed <= now /\ rec'.op.previous.committed <= now
  BY <1>2, NoSnapshotIs DEF KeysBefore, Announcement, KeyTypes
<1> QED
  BY <1>2, <1>3, <1>4, <1>5, <1>6, Settling

\* In an overlap both generations are published.
LEMMA OverlapMove ==
    ASSUME KeysBefore, Ring!Observe, now' = now, rec' \in Records, NEW b \in Nat, b <= now,
           Activates(b) \/ TurnsBack(b)
    PROVE  KeysAfter
<1>1. /\ rec'.served.published = rec.served.published /\ rec'.served.committed = b
      /\ rec'.op.previous = rec.op.previous /\ rec'.op.cand = rec.op.cand
      /\ rec'.op.retireAfter = b + Overlap /\ now <= b + CommitDelay
      /\ rec'.lifecycle \in {"active_overlap", "rollback_overlap"}
  BY Zenon DEF KeysBefore, Staged, Activates, TurnsBack, Overlapped, Published, Running
<1>2. Staged(rec')
  BY DEF KeysBefore, Staged, Activates, TurnsBack, Overlapped, Published, Running
<1>3. Ring!SignaturesVerify'
  BY <1>1, LapsedOut, Leaving, SameTime
<1>4. \A k \in Keys : (k \in rec.served.published => since'[k] = since[k]) /\ signed'[k] <= now
  BY <1>1, Observed DEF KeysBefore, KeyTypes, Outlived
<1>5. \A k \in rec.served.published : k \in Keys /\ since[k] # 0 /\ since[k] + JwksMaxAge <= now
  <2> SUFFICES ASSUME NEW k \in rec.served.published
               PROVE  k \in Keys /\ since[k] # 0 /\ since[k] + JwksMaxAge <= now
    OBVIOUS
  <2>1. k \in Keys /\ since[k] # 0 /\ since[k] \in Nat
    BY DEF KeysBefore, KeyTypes, Records, Snapshots, Announcement
  <2>2. CASE Activates(b)
    BY <2>1, <2>2 DEF Activates, KeysBefore, Announcement, KeyTypes, Records, Snapshots,
                      KeyAssumptions, Ring!TimesAssumption, Ring!WindowsAssumption
  <2>3. CASE TurnsBack(b)
    BY <2>1, <2>3 DEF TurnsBack, KeysBefore, Announcement
  <2> QED
    BY <2>1, <2>2, <2>3
<1>6. Ring!KnownBeforeSigning
  BY <1>1, <1>2, <1>5 DEF Ring!KnownBeforeSigning, Ring!ActiveKeys, Staged, KeysBefore, KeyTypes,
                          KeyAssumptions, Ring!TimesAssumption
<1>7. Outlived'
  <2>1. ASSUME NEW k \in Keys
        PROVE  signed'[k] + TokenLife <= rec'.op.retireAfter
    BY <1>1, <1>4, Observed DEF KeysBefore, KeyTypes, KeyAssumptions, Ring!TimesAssumption,
       Ring!WindowsAssumption
  <2> QED
    BY <1>1, <1>4, <2>1 DEF Outlived
<1>8. Announcement'
  BY <1>1, <1>4, <1>5, Announced, SameTime DEF KeysBefore, Announcement
<1> QED
  BY <1>2, <1>3, <1>6, <1>7, <1>8 DEF KeysAfter

LEMMA RetireMove ==
    ASSUME KeysBefore, Ring!Observe, now' = now, rec' \in Records, NEW b \in Nat, b <= now, Retires(b)
    PROVE  KeysAfter
<1>0. /\ rec.op \in Operations /\ Ring!NamesAssumption /\ now \in Nat /\ rec.op.retireAfter \in Nat
      /\ rec'.op = Ring!NoOperation
      /\ rec'.lifecycle \notin Running /\ rec'.lifecycle \notin Published
  BY DEF KeysBefore, KeyTypes, Records, Operations, KeyAssumptions, Retires, Running, Published
<1>1. /\ rec'.served.active = rec.served.active
      /\ Ring!KeysOf(rec.served.active) \subseteq rec'.served.published
      /\ rec'.served.committed <= now
  BY <1>0, GenerationIs DEF KeysBefore, Staged, Retires, Published, Running, Announcement
<1>2. Staged(rec')
  BY <1>0, <1>1, Unstaged DEF KeysBefore
<1>3. ASSUME NEW k \in Keys, k \notin rec'.served.published
      PROVE  k \notin Ring!ActiveKeys(rec) /\ Lapsed(k)
  <2>1. k \notin Ring!ActiveKeys(rec)
    BY <1>1, <1>3 DEF Ring!ActiveKeys
  <2>2. signed[k] + TokenLife <= rec.op.retireAfter
    BY <2>1 DEF KeysBefore, Staged, Outlived, Retires, Ring!ActiveKeys, Published, Running
  <2> QED
    BY <1>0, <2>1, <2>2 DEF Lapsed, Retires, KeysBefore, KeyTypes, KeyAssumptions,
       Ring!TimesAssumption
<1>4. Ring!ActiveKeys(rec') \subseteq Ring!ActiveKeys(rec)
  BY <1>1 DEF Ring!ActiveKeys
<1>5. rec'.op.previous.committed <= now
  BY <1>0, NoSnapshotIs DEF KeysBefore
<1> QED
  BY <1>0, <1>1, <1>2, <1>3, <1>4, <1>5, Settling

LEMMA RevokeMove ==
    ASSUME KeysBefore, Ring!Observe, now' = now, rec' \in Records, NEW b \in Nat, b <= now, Revokes(b)
    PROVE  KeysAfter
<1>0. /\ rec.op \in Operations /\ Ring!NamesAssumption /\ now \in Nat
      /\ rec'.op = Ring!NoOperation
      /\ rec'.lifecycle \notin Running /\ rec'.lifecycle \notin Published
  BY DEF KeysBefore, KeyTypes, Records, Operations, KeyAssumptions, Revokes, Running, Published
<1>1. rec'.revoked \notin {NoOp, rec.revoked}
  BY DEF KeysBefore, Staged, Revokes, Running, KeyAssumptions, Ring!NamesAssumption
<1>2. /\ rec'.served.active = rec.op.cand /\ rec'.served.published = Ring!KeysOf(rec.op.cand)
      /\ rec'.served.committed = b
  BY <1>0, GenerationIs DEF Revokes
<1>3. Staged(rec')
  BY <1>0, <1>2, Unstaged DEF KeysBefore
<1>4. \A k \in Keys : k \notin rec'.served.published => signed'[k] = 0
  BY <1>1, Observed DEF KeysBefore
<1>5. rec'.op.previous.committed <= now
  BY <1>0, NoSnapshotIs DEF KeysBefore
<1> QED
  BY <1>0, <1>1, <1>2, <1>3, <1>4, <1>5, Settling

LEMMA CloseMove ==
    ASSUME KeysBefore, Ring!Observe, now' = now, rec' \in Records, Closes
    PROVE  KeysAfter
<1>0. /\ rec'.op = Ring!NoOperation /\ rec'.lifecycle \notin Running /\ rec'.lifecycle \notin Published
      /\ Ring!Closed(rec') /\ now \in Nat
  BY DEF Closes, Ring!Closed, Running, Published, KeysBefore, KeyTypes
<1>1. Staged(rec')
  <2>1. Ring!KeysOf(rec'.served.active) \subseteq rec'.served.published
    BY NoSnapshotIs DEF KeysBefore, Closes, Staged
  <2> QED
    BY <1>0, <2>1, Unstaged DEF KeysBefore
<1>2. Ring!ActiveKeys(rec') \subseteq Ring!ActiveKeys(rec)
  BY NoSnapshotIs DEF KeysBefore, Closes, Ring!ActiveKeys
<1>3. \A k \in Keys : k \notin rec'.served.published => signed'[k] = 0
  BY <1>0, Observed DEF KeysBefore
<1>4. rec'.served.committed <= now /\ rec'.op.previous.committed <= now
  BY <1>0, NoSnapshotIs DEF KeysBefore, Closes, Announcement
<1> QED
  BY <1>0, <1>1, <1>2, <1>3, <1>4, Settling

LEMMA Moved ==
    ASSUME KeysBefore, Ring!Observe, now' = now, rec' \in Records, Moves
    PROVE  KeysAfter
BY SameTime, QuietMove, OnboardMove, RotateMove, PrepareMove, PublishMove, WithdrawMove, CloseMove,
   OverlapMove, RetireMove, RevokeMove DEF Moves

-----------------------------------------------------------------------------
\* What the transitions write.
LEMMA KeysOfPlaces ==
    ASSUME NEW f \in [Ring!Algs -> Places], Ring!NamesAssumption
    PROVE  Ring!KeysOf(f) \subseteq Keys
BY DEF Ring!KeysOf, Places

LEMMA RecordFields ==
    ASSUME NEW r \in Records
    PROVE  /\ r.op \in Operations /\ r.served \in Snapshots /\ r.op.previous \in Snapshots
           /\ r.op.cand \in [Ring!Algs -> Places] /\ r.op.id \in OpIds /\ r.op.gen \in Nat
           /\ r.failure \in Failures /\ r.failure.cand \subseteq Keys
           /\ r.failure.cleanup \subseteq Keys /\ r.pending \subseteq Keys
           /\ r.scheduled \subseteq Keys /\ r.served.published \subseteq Keys
           /\ r.served.gen \in Nat /\ r.op.previous.published \subseteq Keys
BY DEF Records, Operations, Snapshots, Failures

LEMMA BeginOnboardingIs ==
    ASSUME KeyAssumptions, NEW id \in OpIds
    PROVE  LET r == Ring!BeginOnboarding(id) IN
           /\ r \in Records /\ r.lifecycle = "provisioning" /\ r.served = Ring!NoSnapshot
           /\ r.op = Ring!Operation(id, "onboard", 1, Ring!NoSnapshot)
<1>1. Ring!Operation(id, "onboard", 1, Ring!NoSnapshot) \in Operations /\ Ring!NoSnapshot \in Snapshots
  BY NoSnapshotIs, OperationIs
<1>2. Ring!NoFailure \in Failures
  BY DEF Ring!NoFailure, Failures, OpIds
<1> QED
  BY <1>1, <1>2 DEF Ring!BeginOnboarding, Records, Ring!Lifecycles, Ring!Outcomes, OpIds

LEMMA RetryIs ==
    ASSUME KeyAssumptions, NEW id \in OpIds, NEW r \in Records
    PROVE  LET n == Ring!RetryOnboarding(r, id) IN
           /\ n \in Records /\ n.lifecycle = "provisioning" /\ n.served = r.served
           /\ n.op = Ring!Operation(id, "onboard", 1, Ring!NoSnapshot)
<1>1. Ring!Operation(id, "onboard", 1, Ring!NoSnapshot) \in Operations
  BY NoSnapshotIs, OperationIs
<1> QED
  BY <1>1 DEF Ring!RetryOnboarding, Records, Ring!Lifecycles

LEMMA BeginRotationIs ==
    ASSUME KeyAssumptions, NEW id \in OpIds, NEW r \in Records
    PROVE  LET n == Ring!BeginRotation(r, id) IN
           /\ n \in Records /\ n.lifecycle = "provisioning" /\ n.served = r.served
           /\ n.op = Ring!Operation(id, "rotate", r.served.gen + 1, r.served) /\ n.revoked = NoOp
<1>1. Ring!Operation(id, "rotate", r.served.gen + 1, r.served) \in Operations
  <2>1. r.served.gen + 1 \in Nat /\ r.served \in Snapshots
    BY RecordFields
  <2> QED
    BY <2>1, OperationIs
<1> QED
  BY <1>1 DEF Ring!BeginRotation, Records, Ring!Lifecycles, OpIds

LEMMA BeginOffboardingIs ==
    ASSUME KeyAssumptions, NEW id \in OpIds, NEW r \in Records
    PROVE  LET n == Ring!BeginOffboarding(r, id) IN
           /\ n \in Records /\ Ring!Closed(n) /\ n.served = Ring!NoSnapshot /\ n.op = Ring!NoOperation
<1>1. Ring!KnownKeys(r) \subseteq Keys
  BY RecordFields, KeysOfPlaces DEF Ring!KnownKeys, KeyAssumptions
<1>2. Ring!NoFailure \in Failures
  BY DEF Ring!NoFailure, Failures, OpIds
<1> QED
  BY <1>1, <1>2, NoSnapshotIs DEF Ring!BeginOffboarding, Records, Ring!Lifecycles, Ring!Closed

LEMMA FinishedIs ==
    ASSUME KeyAssumptions, NEW r \in Records, NEW o \in Ring!Outcomes
    PROVE  LET n == Ring!Finished(r, o) IN
           /\ n \in Records /\ n.lifecycle = "ready" /\ n.op = Ring!NoOperation
           /\ n.revoked = r.revoked
BY NoSnapshotIs, RecordFields DEF Ring!Finished, Records, Ring!Lifecycles

LEMMA PublishIs ==
    ASSUME KeyAssumptions, NEW r \in Records, NEW n \in Nat
    PROVE  LET p == Ring!PublishCandidate(r, n) IN
           /\ p \in Records /\ p.revoked = r.revoked
           /\ r.op.kind = "onboard" =>
                /\ p.lifecycle = "ready" /\ p.op = Ring!NoOperation /\ p.served = Ring!Generation(r.op, n)
           /\ r.op.kind # "onboard" =>
                /\ p.lifecycle = "publishing" /\ p.op = r.op
                /\ p.served = Ring!Overlapping(r.op, FALSE, n)
<1>1. Ring!NoFailure \in Failures
  BY DEF Ring!NoFailure, Failures, OpIds
<1>2. Ring!Generation(r.op, n) \in Snapshots /\ Ring!Overlapping(r.op, FALSE, n) \in Snapshots
  BY RecordFields, GenerationIs, OverlappingIs DEF KeyAssumptions
<1>3. CASE r.op.kind = "onboard"
  <2> DEFINE f == Ring!Finished(r, "onboarded")
  <2>1. f \in Records /\ f.lifecycle = "ready" /\ f.op = Ring!NoOperation /\ f.revoked = r.revoked
    BY FinishedIs DEF Ring!Outcomes
  <2>2. Ring!PublishCandidate(r, n) = [f EXCEPT !.served = Ring!Generation(r.op, n), !.failure = Ring!NoFailure]
    BY <1>3 DEF Ring!PublishCandidate
  <2> HIDE DEF f
  <2> QED
    BY <1>1, <1>2, <1>3, <2>1, <2>2 DEF Records
<1>4. CASE r.op.kind # "onboard"
  <2> DEFINE o == Ring!Overlapping(r.op, FALSE, n)
  <2>1. Ring!PublishCandidate(r, n) = [r EXCEPT !.lifecycle = "publishing", !.failure = Ring!NoFailure,
                                           !.served = o]
    BY <1>4 DEF Ring!PublishCandidate
  <2>2. o \in Snapshots
    BY <1>2
  <2> HIDE DEF o
  <2>3. /\ Ring!PublishCandidate(r, n) \in Records /\ Ring!PublishCandidate(r, n).revoked = r.revoked
        /\ Ring!PublishCandidate(r, n).lifecycle = "publishing" /\ Ring!PublishCandidate(r, n).op = r.op
        /\ Ring!PublishCandidate(r, n).served = o
    BY <1>1, <2>1, <2>2 DEF Records, Ring!Lifecycles
  <2> QED
    BY <1>4, <2>3 DEF o
<1> QED
  BY <1>3, <1>4

LEMMA FailIs ==
    ASSUME KeyAssumptions, NEW r \in Records, NEW d \in SUBSET Keys
    PROVE  LET n == Ring!FailOperation(r, d) IN
           /\ n \in Records /\ n.served = r.op.previous /\ n.op = Ring!NoOperation
           /\ n.lifecycle \in {"failed", "ready"} /\ n.revoked = r.revoked
           /\ n.failure.cleanup \subseteq Keys
<1>1. Ring!KeysOf(r.op.cand) \subseteq Keys
  BY RecordFields, KeysOfPlaces DEF KeyAssumptions
<1>2. [id |-> r.op.id, cand |-> Ring!KeysOf(r.op.cand), cleanup |-> d \cup Ring!KeysOf(r.op.cand),
       pending |-> d \cup Ring!KeysOf(r.op.cand) # {}] \in Failures
  BY <1>1, RecordFields DEF Failures
<1> QED
  BY <1>1, <1>2, RecordFields, NoSnapshotIs DEF Ring!FailOperation, Records, Ring!Lifecycles

LEMMA ActivateIs ==
    ASSUME KeyAssumptions, NEW r \in Records, NEW n \in Nat, NEW t \in Nat
    PROVE  LET p == Ring!ActivateCandidate(r, n, t) IN
           /\ p \in Records /\ p.revoked = r.revoked /\ p.lifecycle = "active_overlap"
           /\ p.op = [r.op EXCEPT !.retireAfter = t]
           /\ p.served.active = r.op.cand /\ p.served.committed = n
           /\ p.served.published = r.op.previous.published \cup Ring!KeysOf(r.op.cand)
<1> DEFINE o == Ring!Overlapping(r.op, TRUE, n)
<1>1. /\ o \in Snapshots /\ o.active = r.op.cand /\ o.committed = n
      /\ o.published = r.op.previous.published \cup Ring!KeysOf(r.op.cand)
  BY RecordFields, OverlappingIs, Zenon DEF KeyAssumptions
<1>2. [r.op EXCEPT !.retireAfter = t] \in Operations
  BY RecordFields DEF Operations
<1>3. Ring!ActivateCandidate(r, n, t) = [r EXCEPT !.lifecycle = "active_overlap",
                                             !.op.retireAfter = t, !.served = o]
  BY DEF Ring!ActivateCandidate
<1> HIDE DEF o
<1> QED
  BY <1>1, <1>2, <1>3 DEF Records, Ring!Lifecycles

LEMMA RollbackIs ==
    ASSUME KeyAssumptions, NEW r \in Records, NEW n \in Nat, NEW t \in Nat
    PROVE  LET p == Ring!Rollback(r, n, t) IN
           /\ p \in Records /\ p.revoked = r.revoked
           /\ r.lifecycle = "publishing" =>
                /\ p.lifecycle = "ready" /\ p.op = Ring!NoOperation /\ p.served = r.op.previous
           /\ r.lifecycle # "publishing" =>
                /\ p.lifecycle = "rollback_overlap"
                /\ p.op = [r.op EXCEPT !.retireAfter = t]
                /\ p.served.active = r.op.previous.active /\ p.served.committed = n
                /\ p.served.published = r.op.previous.published \cup Ring!KeysOf(r.op.cand)
<1>1. CASE r.lifecycle = "publishing"
  <2> DEFINE f == Ring!Finished(r, "rolled_back")
  <2>1. f \in Records /\ f.lifecycle = "ready" /\ f.op = Ring!NoOperation /\ f.revoked = r.revoked
    BY FinishedIs DEF Ring!Outcomes
  <2>2. Ring!Rollback(r, n, t) = [f EXCEPT !.served = r.op.previous, !.pending = Ring!KeysOf(r.op.cand)]
    BY <1>1 DEF Ring!Rollback
  <2>3. Ring!KeysOf(r.op.cand) \subseteq Keys /\ r.op.previous \in Snapshots
    BY RecordFields, KeysOfPlaces DEF KeyAssumptions
  <2> HIDE DEF f
  <2> QED
    BY <1>1, <2>1, <2>2, <2>3 DEF Records
<1>2. CASE r.lifecycle # "publishing"
  <2> DEFINE o == Ring!Overlapping(r.op, FALSE, n)
  <2>1. /\ o \in Snapshots /\ o.active = r.op.previous.active /\ o.committed = n
        /\ o.published = r.op.previous.published \cup Ring!KeysOf(r.op.cand)
    BY RecordFields, OverlappingIs, Zenon DEF KeyAssumptions
  <2>2. [r.op EXCEPT !.retireAfter = t] \in Operations
    BY RecordFields DEF Operations
  <2>3. Ring!Rollback(r, n, t) = [r EXCEPT !.lifecycle = "rollback_overlap",
                                      !.op.retireAfter = t, !.served = o]
    BY <1>2 DEF Ring!Rollback
  <2> HIDE DEF o
  <2> QED
    BY <1>2, <2>1, <2>2, <2>3 DEF Records, Ring!Lifecycles
<1> QED
  BY <1>1, <1>2

LEMMA RetireIs ==
    ASSUME KeyAssumptions, NEW r \in Records, NEW n \in Nat
    PROVE  LET p == Ring!Retire(r, n) IN
           /\ p \in Records /\ p.revoked = r.revoked /\ p.lifecycle = "ready"
           /\ p.op = Ring!NoOperation
           /\ p.served = IF r.lifecycle = "active_overlap" THEN Ring!Generation(r.op, n)
                                                           ELSE r.op.previous
<1>1. /\ Ring!KeysOf(r.op.cand) \subseteq Keys /\ r.op.previous \in Snapshots
      /\ Ring!KeysOf(r.op.previous.active) \subseteq Keys /\ Ring!Generation(r.op, n) \in Snapshots
  BY RecordFields, KeysOfPlaces, GenerationIs DEF KeyAssumptions, Snapshots
<1> DEFINE f == Ring!Finished(r, "retired_forward")
           g == Ring!Finished(r, "retired_rollback")
<1>2. /\ f \in Records /\ f.lifecycle = "ready" /\ f.op = Ring!NoOperation /\ f.revoked = r.revoked
      /\ g \in Records /\ g.lifecycle = "ready" /\ g.op = Ring!NoOperation /\ g.revoked = r.revoked
  BY FinishedIs DEF Ring!Outcomes
<1>3. Ring!Retire(r, n) = IF r.lifecycle = "active_overlap"
                     THEN [f EXCEPT !.served = Ring!Generation(r.op, n),
                                    !.pending = Ring!KeysOf(r.op.previous.active)]
                     ELSE [g EXCEPT !.served = r.op.previous, !.pending = Ring!KeysOf(r.op.cand)]
  BY DEF Ring!Retire
<1> HIDE DEF f, g
<1> QED
  BY <1>1, <1>2, <1>3 DEF Records

LEMMA RevokeIs ==
    ASSUME KeyAssumptions, NEW r \in Records, NEW n \in Nat
    PROVE  LET p == Ring!EmergencyRevoke(r, n) IN
           /\ p \in Records /\ p.revoked = r.op.id /\ p.lifecycle = "ready"
           /\ p.op = Ring!NoOperation /\ p.served = Ring!Generation(r.op, n)
<1>1. /\ Ring!Generation(r.op, n) \in Snapshots /\ r.op.previous.published \subseteq Keys
      /\ r.op.id \in OpIds
  BY RecordFields, GenerationIs DEF KeyAssumptions
<1> DEFINE f == Ring!Finished(r, "none")
<1>2. f \in Records /\ f.lifecycle = "ready" /\ f.op = Ring!NoOperation
  BY FinishedIs DEF Ring!Outcomes
<1>3. Ring!EmergencyRevoke(r, n) = [f EXCEPT !.served = Ring!Generation(r.op, n),
                                        !.pending = r.op.previous.published,
                                        !.revoked = r.op.id]
  BY DEF Ring!EmergencyRevoke
<1> HIDE DEF f
<1> QED
  BY <1>1, <1>2, <1>3 DEF Records

\* A record of which only the lists of keys to delete differ.
Unmoved(n, r) ==
    /\ n \in Records /\ n.lifecycle = r.lifecycle /\ n.served = r.served
    /\ n.op = r.op /\ n.revoked = r.revoked

LEMMA TrackIs ==
    ASSUME NEW r \in Records
    PROVE  /\ \A ks \in SUBSET Keys : Unmoved(Ring!TrackPendingDeletion(r, ks), r)
           /\ Unmoved(Ring!CleanupComplete(r), r) /\ Unmoved(Ring!PendingDeletionsComplete(r), r)
<1>1. ASSUME NEW ks \in SUBSET Keys
      PROVE  Unmoved(Ring!TrackPendingDeletion(r, ks), r)
  BY DEF Ring!TrackPendingDeletion, Records, Unmoved
<1>2. Unmoved(Ring!CleanupComplete(r), r)
  BY DEF Ring!CleanupComplete, Records, Failures, Unmoved
<1>3. Unmoved(Ring!PendingDeletionsComplete(r), r)
  BY DEF Ring!PendingDeletionsComplete, Records, Unmoved
<1> QED
  BY <1>1, <1>2, <1>3

\* A record of which only the candidate's preparation differs.
Prepared(n, r) ==
    /\ n \in Records /\ n.lifecycle = r.lifecycle /\ n.served = r.served
    /\ n.revoked = r.revoked /\ n.op.id = r.op.id /\ n.op.kind = r.op.kind
    /\ n.op.previous = r.op.previous

LEMMA PreparedIs ==
    ASSUME KeyAssumptions, NEW r \in Records, NEW a \in Ring!Algs
    PROVE  /\ \A k \in Keys : Prepared(Ring!RecordCreatedKey(r, a, k), r)
           /\ Prepared(Ring!RecordReadiness(r, a), r)
           /\ Prepared(Ring!RecordVerified(r, a), r)
<1>1. ASSUME NEW o \in Operations, o.id = r.op.id, o.kind = r.op.kind, o.previous = r.op.previous,
             NEW n, n = [r EXCEPT !.op = o]
      PROVE  Prepared(n, r)
  BY <1>1 DEF Records, Prepared
<1>2. ASSUME NEW k \in Keys
      PROVE  Prepared(Ring!RecordCreatedKey(r, a, k), r)
  <2> DEFINE o == [r.op EXCEPT !.cand = [r.op.cand EXCEPT ![a] = k]]
  <2>1. o \in Operations /\ o.id = r.op.id /\ o.kind = r.op.kind /\ o.previous = r.op.previous
    BY RecordFields DEF Operations, Places
  <2>2. Ring!RecordCreatedKey(r, a, k) = [r EXCEPT !.op = o]
    BY DEF Ring!RecordCreatedKey
  <2> QED
    BY <1>1, <2>1, <2>2
<1>3. Prepared(Ring!RecordReadiness(r, a), r)
  <2> DEFINE o == [r.op EXCEPT !.readiness = r.op.readiness \cup {a}]
  <2>1. o \in Operations /\ o.id = r.op.id /\ o.kind = r.op.kind /\ o.previous = r.op.previous
    BY RecordFields DEF Operations
  <2>2. Ring!RecordReadiness(r, a) = [r EXCEPT !.op = o]
    BY DEF Ring!RecordReadiness
  <2> QED
    BY <1>1, <2>1, <2>2
<1>4. Prepared(Ring!RecordVerified(r, a), r)
  <2> DEFINE o == [r.op EXCEPT !.verified = r.op.verified \cup {a}]
  <2>1. o \in Operations /\ o.id = r.op.id /\ o.kind = r.op.kind /\ o.previous = r.op.previous
    BY RecordFields DEF Operations
  <2>2. Ring!RecordVerified(r, a) = [r EXCEPT !.op = o]
    BY DEF Ring!RecordVerified
  <2> QED
    BY <1>1, <2>1, <2>2
<1> QED
  BY <1>2, <1>3, <1>4

-----------------------------------------------------------------------------
(* The workers. *)

\* What worker w may turn into.
Goes(w, k) ==
    /\ k \in Locals /\ k.pc \notin {"activate", "rollback"}
    /\ k.pc # "idle" => k.op \in Ops /\ k.start = work[w].start
    /\ k.pc = "compensate" => k.after \in {"idle", "ensure", "rotate"}
    /\ k.pc = "persist" => k.after \in {"idle", "get", "probe"}
    /\ k.pc = "orphans" => k.after \in {"get", "probe"}
    /\ k.pc \in {"record", "lost"} => k.key \in Keys
    /\ OnGeneration(k) /\ k.pc # "get" => k.alg \in Ring!Algs
    /\ OnGeneration(k) => OnGeneration(work[w]) \/ rec'.lifecycle = "provisioning"

Workplace ==
    /\ kms' \in [Keys -> [state : {"absent", "enabled", "deleting"}, op : OpIds, gen : Nat,
                          alg : Nat]]
    /\ indexed' \subseteq Keys

\* A busy worker.
Busy(w) == WindowInv /\ KeyAssumptions /\ w \in Workers /\ ~Ring!At(w, "idle")

LEMMA BeforeIs ==
    ASSUME WindowInv, KeyAssumptions
    PROVE  KeysBefore
BY DEF WindowInv, KeysBefore

\* Nobody is left working on a generation that becomes active.
LEMMA TimelyKept ==
    ASSUME WindowInv, KeyAssumptions, now' = now, Moves, NEW w \in Workers, NEW k,
           OnGeneration(k) => OnGeneration(work[w]) /\ k.start = work[w].start
    PROVE  Timely(k, rec')
<1> SUFFICES ASSUME OnGeneration(k)
             PROVE  /\ rec'.lifecycle = "publishing" => k.start <= rec'.served.committed
                    /\ rec'.lifecycle \notin {"active_overlap", "rollback_overlap"}
  BY DEF Timely, OnGeneration
<1>1. /\ OnGeneration(work[w]) /\ k.start = work[w].start
      /\ rec.lifecycle = "publishing" => k.start <= rec.served.committed
      /\ rec.lifecycle \notin {"active_overlap", "rollback_overlap"}
  BY DEF WindowInv, Timely
<1>2. k.start <= now /\ now <= k.start + WorkerTimeout /\ k.start \in Nat
  BY <1>1 DEF WindowInv, Fit, OnGeneration, KeyTypes, Locals
<1>3. rec.served.committed \in Nat /\ now \in Nat
  BY DEF WindowInv, KeyTypes, Records, Snapshots
<1>4. CASE Publishes
  <2>1. rec'.lifecycle = "ready" \/ (rec'.lifecycle = "publishing" /\ rec'.served.committed = now)
    <3>1. \/ rec'.lifecycle = "ready"
          \/ rec'.lifecycle = "publishing" /\ rec'.served = Ring!Overlapping(rec.op, FALSE, now)
      BY <1>4, Zenon DEF Publishes
    <3>2. rec'.served = Ring!Overlapping(rec.op, FALSE, now) => rec'.served.committed = now
      BY DEF Ring!Overlapping
    <3> QED
      BY <3>1, <3>2, Zenon
  <2> QED
    BY <1>2, <2>1
<1>5. CASE Quiet \/ Prepares
  BY <1>1, <1>5 DEF Quiet, Prepares
<1>6. CASE Onboards \/ Rotates \/ Withdraws \/ Closes
  BY <1>6 DEF Onboards, Rotates, Withdraws, Closes, Ring!Closed
<1>7. ASSUME NEW b \in Nat, b <= now, Activates(b)
      PROVE  FALSE
  BY <1>1, <1>2, <1>3, <1>7 DEF Activates, KeyAssumptions, Ring!TimesAssumption,
     Ring!WindowsAssumption
<1>8. ASSUME NEW b \in Nat, TurnsBack(b) \/ Retires(b) \/ Revokes(b)
      PROVE  rec'.lifecycle = "ready"
  BY <1>1, <1>8 DEF TurnsBack, Retires, Revokes
<1> QED
  BY <1>4, <1>5, <1>6, <1>7, <1>8 DEF Moves

\* One worker turns into k; what the others have read may become out of date.
LEMMA WorkKept ==
    ASSUME WindowInv, KeyAssumptions, Ring!Observe, now' = now, rec' \in Records, Moves, Workplace,
           NEW w \in Workers, NEW k \in Locals, Fit(k, now), Timely(k, rec'),
           \/ work' = [work EXCEPT ![w] = k]
           \/ work' = [v \in Workers |-> IF v = w THEN k ELSE [work[v] EXCEPT !.fresh = FALSE]]
    PROVE  WindowInv' /\ Ring!KnownBeforeSigning
<1>1. KeysAfter
  BY BeforeIs, Moved
<1>2. \A v \in Workers : v # w => \/ work'[v] = work[v]
                                  \/ work'[v] = [work[v] EXCEPT !.fresh = FALSE]
  BY DEF WindowInv, KeyTypes
<1>3. work'[w] = k
  BY DEF WindowInv, KeyTypes
<1>4. \A v \in Workers : work'[v] \in Locals
  <2> SUFFICES ASSUME NEW v \in Workers
               PROVE  work'[v] \in Locals
    OBVIOUS
  <2>1. work[v] \in Locals
    BY DEF WindowInv, KeyTypes
  <2>2. [work[v] EXCEPT !.fresh = FALSE] \in Locals
    BY <2>1 DEF Locals
  <2> QED
    BY <1>2, <1>3, <2>1, <2>2
<1>5. work' \in [Workers -> Locals]
  BY <1>4 DEF WindowInv, KeyTypes
<1>6. KeyTypes'
  BY <1>5, Observed DEF Workplace, WindowInv, KeyTypes
<1>7. ASSUME NEW v \in Workers
      PROVE  Fit(work'[v], now') /\ Timely(work'[v], rec')
  <2>1. CASE v = w
    BY <1>3, <2>1
  <2>2. CASE v # w
    <3>1. work'[v] = work[v] \/ work'[v] = [work[v] EXCEPT !.fresh = FALSE]
      BY <1>2, <2>2
    <3>2. work[v] \in Locals /\ Fit(work[v], now)
      BY DEF WindowInv, KeyTypes
    <3>3. /\ work'[v].pc = work[v].pc /\ work'[v].op = work[v].op
          /\ work'[v].start = work[v].start /\ work'[v].after = work[v].after
          /\ work'[v].alg = work[v].alg /\ work'[v].key = work[v].key
      BY <3>1, <3>2 DEF Locals
    <3>4. OnGeneration(work'[v]) <=> OnGeneration(work[v])
      BY <3>3 DEF OnGeneration
    <3>5. Fit(work'[v], now')
      BY <3>2, <3>3, <3>4 DEF Fit, OnGeneration
    <3> QED
      BY <3>3, <3>4, <3>5, TimelyKept
  <2> QED
    BY <2>1, <2>2
<1> QED
  BY <1>1, <1>6, <1>7 DEF WindowInv, KeysAfter

\* A worker's step, with or without a write.
LEMMA StepKept ==
    ASSUME NEW w, Busy(w), Ring!Observe, now' = now, rec' \in Records, Moves, Workplace,
           NEW k, Goes(w, k),
           \/ work' = [work EXCEPT ![w] = k]
           \/ work' = [v \in Workers |-> IF v = w THEN k ELSE [work[v] EXCEPT !.fresh = FALSE]]
    PROVE  WindowInv' /\ Ring!KnownBeforeSigning
<1>0. w \in Workers /\ WindowInv /\ KeyAssumptions
  BY DEF Busy
<1>1. Fit(work[w], now) /\ work[w].pc # "idle"
  BY <1>0 DEF WindowInv, Busy, Ring!At
<1>2. Fit(k, now) /\ k \in Locals
  BY <1>1 DEF Goes, Fit, OnGeneration
<1>3. Timely(k, rec')
  <2>1. CASE OnGeneration(k) /\ ~OnGeneration(work[w])
    BY <2>1 DEF Goes, Timely
  <2>2. CASE ~OnGeneration(k) \/ OnGeneration(work[w])
    <3>1. OnGeneration(k) => k.pc # "idle"
      BY DEF OnGeneration
    <3> QED
      BY <1>0, <2>2, <3>1, TimelyKept DEF Goes
  <2> QED
    BY <2>1, <2>2
<1> QED
  BY <1>0, <1>2, <1>3, WorkKept

LEMMA BusyIs ==
    ASSUME NEW w, Busy(w)
    PROVE  /\ w \in Workers /\ KeyAssumptions /\ WindowInv /\ KeysBefore /\ rec \in Records
           /\ Staged(rec) /\ now \in Nat
           /\ work[w] \in Locals /\ Fit(work[w], now) /\ Timely(work[w], rec)
           /\ work[w].op \in Ops /\ work[w].start \in Nat /\ work[w].start <= now
           /\ work[w].gen \in Nat /\ work[w].todo \subseteq Keys /\ work[w].pc # "idle"
BY BeforeIs DEF Busy, Ring!At, WindowInv, KeyTypes, Fit, Locals

LEMMA StoppedGoes ==
    ASSUME NEW w, Busy(w)
    PROVE  Goes(w, Ring!Stopped)
<1>1. Ring!Stopped \in Locals
  BY BusyIs DEF Ring!Stopped, Locals, OpIds, Places, Afters, KeyAssumptions, Ring!AlgsAssumption
<1> QED
  BY <1>1 DEF Goes, Ring!Stopped, OnGeneration

\* A step that does not write the record.
LEMMA ReadStep ==
    ASSUME NEW w, Busy(w), Ring!Observe, now' = now, Workplace, NEW k, Ring!Step(w, k), Goes(w, k)
    PROVE  WindowInv' /\ Ring!KnownBeforeSigning
<1>1. rec' = rec /\ work' = [work EXCEPT ![w] = k]
  BY DEF Ring!Step
<1>2. rec' \in Records
  BY <1>1, BusyIs
<1>3. Moves
  BY <1>1 DEF Moves, Quiet
<1> QED
  BY <1>1, <1>2, <1>3, StepKept

LEMMA StopStep ==
    ASSUME NEW w, Busy(w), Ring!Observe, now' = now, Workplace, Ring!Stop(w)
    PROVE  WindowInv' /\ Ring!KnownBeforeSigning
BY StoppedGoes, ReadStep DEF Ring!Stop

LEMMA WriteStep ==
    ASSUME NEW w, Busy(w), Ring!Observe, now' = now, Workplace, NEW r \in Records, NEW k,
           Ring!Commit(w, r, k), Moves, Goes(w, k)
    PROVE  WindowInv' /\ Ring!KnownBeforeSigning
<1>1. /\ rec' = r
      /\ work' = [v \in Workers |-> IF v = w THEN k ELSE [work[v] EXCEPT !.fresh = FALSE]]
  BY DEF Ring!Commit
<1> QED
  BY <1>1, StepKept

LEMMA KmsKept ==
    ASSUME NEW w, Busy(w), UNCHANGED <<kms, indexed>>
    PROVE  Workplace
BY DEF Busy, WindowInv, KeyTypes, Workplace

LEMMA DeletingGoes ==
    ASSUME NEW w, Busy(w), NEW ks \in SUBSET Keys, NEW after \in {"idle", "rotate", "ensure"}
    PROVE  /\ Goes(w, Ring!Deleting(w, ks, after)) /\ Goes(w, Ring!Compensating(w, ks, after))
<1>1. work[w] \in Locals /\ work[w].op \in Ops
  BY BusyIs
<1>2. Ring!Deleting(w, ks, after) \in Locals /\ Ring!Compensating(w, ks, after) \in Locals
  BY <1>1 DEF Ring!Deleting, Ring!Compensating, Locals, Ring!Steps, Afters
<1> QED
  BY <1>1, <1>2 DEF Goes, Ring!Deleting, Ring!Compensating, OnGeneration, Locals

LEMMA CleanUpStep ==
    ASSUME NEW w, Busy(w), Ring!Observe, now' = now, Workplace, Ring!CleanUp(w)
    PROVE  WindowInv' /\ Ring!KnownBeforeSigning
<1>1. CASE rec.pending = {}
  BY <1>1, StopStep DEF Ring!CleanUp
<1>2. CASE rec.pending # {}
  <2>1. rec.pending \in SUBSET Keys
    BY BusyIs, RecordFields
  <2> QED
    BY <1>2, <2>1, DeletingGoes, ReadStep DEF Ring!CleanUp
<1> QED
  BY <1>1, <1>2

LEMMA CommitAndCleanUpStep ==
    ASSUME NEW w, Busy(w), Ring!Observe, now' = now, Workplace, NEW r \in Records,
           Ring!CommitAndCleanUp(w, r), rec' = r => Moves
    PROVE  WindowInv' /\ Ring!KnownBeforeSigning
<1>1. CASE r.pending = {}
  <2>1. Ring!Commit(w, r, Ring!Stopped)
    BY <1>1 DEF Ring!CommitAndCleanUp
  <2> QED
    BY <2>1, StoppedGoes, WriteStep DEF Ring!Commit
<1>2. CASE r.pending # {}
  <2>1. r.pending \in SUBSET Keys
    BY RecordFields
  <2>2. Ring!Commit(w, r, Ring!Deleting(w, r.pending, "idle"))
    BY <1>2 DEF Ring!CommitAndCleanUp
  <2> QED
    BY <2>1, <2>2, DeletingGoes, WriteStep DEF Ring!Commit
<1> QED
  BY <1>1, <1>2

\* A worker goes on to the generation of a provisioning record.
LEMMA ProvisioningGoes ==
    ASSUME NEW w, Busy(w), rec'.lifecycle = "provisioning"
    PROVE  Goes(w, Ring!Provisioning(w))
<1>1. work[w] \in Locals /\ work[w].op \in Ops /\ NumAlgs \in Nat \ {0}
  BY BusyIs DEF KeyAssumptions, Ring!AlgsAssumption
<1>2. Ring!Provisioning(w) \in Locals
  <2>1. 1 \in 1..(NumAlgs + 1)
    BY <1>1
  <2> QED
    BY <1>1, <2>1 DEF Ring!Provisioning, Locals, Ring!Steps, Afters
<1> QED
  BY <1>1, <1>2 DEF Goes, Ring!Provisioning, OnGeneration, Locals

LEMMA RunsIs ==
    ASSUME NEW w, Busy(w), NEW id, Ring!OpRuns(rec, id)
    PROVE  rec.op.id \in Ops /\ rec.op.kind \in {"onboard", "rotate"} /\ rec.lifecycle \in Running
BY BusyIs, NoSnapshotIs DEF Ring!OpRuns, Staged

\* The record of a worker on its generation is still being prepared.
LEMMA Generating ==
    ASSUME NEW w, Busy(w), OnGeneration(work[w]), NEW id, Ring!OpRuns(rec, id)
    PROVE  Preparing
BY RunsIs, BusyIs DEF Timely, Running, Preparing

-----------------------------------------------------------------------------
(* The commands. *)

LEMMA EnsureStep ==
    ASSUME NEW w, Busy(w), Ring!Observe, Ring!EnsureTenant(w)
    PROVE  WindowInv' /\ Ring!KnownBeforeSigning
<1>0. now' = now /\ Workplace /\ KeyAssumptions /\ rec \in Records /\ work[w].op \in Ops
  BY KmsKept, BusyIs DEF Ring!EnsureTenant
<1>1. CASE rec = Ring!NoRecord /\ Ring!Commit(w, Ring!BeginOnboarding(work[w].op), Ring!Provisioning(w))
  <2> DEFINE r == Ring!BeginOnboarding(work[w].op)
  <2>1. /\ r \in Records /\ r.lifecycle = "provisioning" /\ r.served = Ring!NoSnapshot
        /\ r.op = Ring!Operation(work[w].op, "onboard", 1, Ring!NoSnapshot)
    BY <1>0, BeginOnboardingIs DEF OpIds
  <2>2. rec' = r
    BY <1>1 DEF Ring!Commit
  <2>3. rec.served = Ring!NoSnapshot
    BY <1>1 DEF Ring!NoRecord, Ring!BeginOnboarding
  <2> HIDE DEF r
  <2>4. Moves
    BY <1>0, <2>1, <2>2, <2>3 DEF Moves, Onboards
  <2>5. Goes(w, Ring!Provisioning(w))
    BY <2>1, <2>2, ProvisioningGoes
  <2> QED
    BY <1>0, <1>1, <2>1, <2>4, <2>5, WriteStep DEF r
<1>2. CASE Ring!Step(w, Ring!Compensating(w, rec.failure.cleanup, "ensure"))
  BY <1>0, <1>2, RecordFields, DeletingGoes, ReadStep
<1>3. CASE Ring!CanRetryOnboarding(rec) /\ Ring!Commit(w, Ring!RetryOnboarding(rec, work[w].op), Ring!Provisioning(w))
  <2> DEFINE r == Ring!RetryOnboarding(rec, work[w].op)
  <2>1. /\ r \in Records /\ r.lifecycle = "provisioning" /\ r.served = rec.served
        /\ r.op = Ring!Operation(work[w].op, "onboard", 1, Ring!NoSnapshot)
    BY <1>0, RetryIs DEF OpIds
  <2>2. rec' = r
    BY <1>3 DEF Ring!Commit
  <2>3. rec.served = Ring!NoSnapshot
    BY <1>3 DEF Ring!CanRetryOnboarding, Ring!Served
  <2> HIDE DEF r
  <2>4. Moves
    BY <1>0, <2>1, <2>2, <2>3 DEF Moves, Onboards
  <2>5. Goes(w, Ring!Provisioning(w))
    BY <2>1, <2>2, ProvisioningGoes
  <2> QED
    BY <1>0, <1>3, <2>1, <2>4, <2>5, WriteStep DEF r
<1>4. CASE rec.lifecycle = "provisioning" /\ Ring!Step(w, Ring!Provisioning(w))
  <2>1. rec'.lifecycle = "provisioning"
    BY <1>4 DEF Ring!Step
  <2> QED
    BY <1>0, <1>4, <2>1, ProvisioningGoes, ReadStep
<1>5. CASE Ring!Stop(w)
  BY <1>0, <1>5, StopStep
<1> QED
  BY <1>1, <1>2, <1>3, <1>4, <1>5, Zenon DEF Ring!EnsureTenant

LEMMA RotateStep ==
    ASSUME NEW w, Busy(w), Ring!Observe, Ring!RotateTenant(w)
    PROVE  WindowInv' /\ Ring!KnownBeforeSigning
<1>0. now' = now /\ Workplace /\ KeyAssumptions /\ rec \in Records /\ work[w].op \in Ops
  BY KmsKept, BusyIs DEF Ring!RotateTenant
<1>1. CASE Ring!Step(w, Ring!Deleting(w, rec.pending, "rotate"))
  BY <1>0, <1>1, RecordFields, DeletingGoes, ReadStep
<1>2. CASE Ring!Step(w, Ring!Compensating(w, rec.failure.cleanup, "rotate"))
  BY <1>0, <1>2, RecordFields, DeletingGoes, ReadStep
<1>3. CASE Ring!Commit(w, Ring!BeginRotation(rec, work[w].op), Ring!Provisioning(w))
  <2> DEFINE r == Ring!BeginRotation(rec, work[w].op)
  <2>1. /\ r \in Records /\ r.lifecycle = "provisioning" /\ r.served = rec.served
        /\ r.op = Ring!Operation(work[w].op, "rotate", rec.served.gen + 1, rec.served)
        /\ r.revoked = NoOp
    BY <1>0, BeginRotationIs DEF OpIds
  <2>2. rec' = r
    BY <1>3 DEF Ring!Commit
  <2>3. rec.served.gen + 1 \in Nat
    BY <1>0, RecordFields
  <2> HIDE DEF r
  <2>4. Moves
    BY <1>0, <2>1, <2>2, <2>3 DEF Moves, Rotates
  <2>5. Goes(w, Ring!Provisioning(w))
    BY <2>1, <2>2, ProvisioningGoes
  <2> QED
    BY <1>0, <1>3, <2>1, <2>4, <2>5, WriteStep DEF r
<1>4. CASE rec.lifecycle = "provisioning" /\ Ring!Step(w, Ring!Provisioning(w))
  <2>1. rec'.lifecycle = "provisioning"
    BY <1>4 DEF Ring!Step
  <2> QED
    BY <1>0, <1>4, <2>1, ProvisioningGoes, ReadStep
<1>5. CASE Ring!Stop(w)
  BY <1>0, <1>5, StopStep
<1> QED
  BY <1>1, <1>2, <1>3, <1>4, <1>5, Zenon DEF Ring!RotateTenant

LEMMA ActivateStep ==
    ASSUME NEW w, Busy(w), Ring!Observe, Ring!ActivateTenant(w)
    PROVE  WindowInv' /\ Ring!KnownBeforeSigning
<1> DEFINE b == work[w].start
           r == Ring!ActivateCandidate(rec, b, b + Overlap)
<1>0. /\ now' = now /\ Workplace /\ KeyAssumptions /\ rec \in Records
      /\ b \in Nat /\ b <= now /\ b + Overlap \in Nat /\ now <= b + CommitDelay
  BY KmsKept, BusyIs DEF Ring!ActivateTenant, Ring!At, Fit, KeyAssumptions, Ring!TimesAssumption
<1>1. CASE Ring!Stop(w)
  BY <1>0, <1>1, StopStep
<1>2. CASE Ring!CanActivate(rec, work[w].op) /\ b >= rec.served.committed + PublishAhead
           /\ Ring!Commit(w, r, Ring!Stopped)
  <2>1. /\ r \in Records /\ r.revoked = rec.revoked /\ r.lifecycle = "active_overlap"
        /\ r.op = [rec.op EXCEPT !.retireAfter = b + Overlap]
        /\ r.served.active = rec.op.cand /\ r.served.committed = b
        /\ r.served.published = rec.op.previous.published \cup Ring!KeysOf(rec.op.cand)
    BY <1>0, ActivateIs
  <2>2. rec' = r /\ rec.lifecycle = "publishing" /\ rec.served.committed + PublishAhead <= b
    BY <1>0, <1>2, RecordFields DEF Ring!Commit, Ring!CanActivate, Snapshots, KeyAssumptions,
       Ring!TimesAssumption
  <2> HIDE DEF r
  <2>3. Activates(b)
    BY <1>0, <2>1, <2>2, RecordFields DEF Activates, Overlapped, Operations
  <2>4. Moves
    BY <1>0, <2>3 DEF Moves
  <2> QED
    BY <1>0, <1>2, <2>1, <2>4, StoppedGoes, WriteStep
<1> QED
  BY <1>1, <1>2, Zenon DEF Ring!ActivateTenant

\* A rollback undoes a publication, or turns an activation back.
LEMMA RollbackMoves ==
    ASSUME NEW w, Busy(w), rec' = Ring!Rollback(rec, work[w].start, work[w].start + Overlap),
           \/ rec.lifecycle = "publishing"
           \/ rec.lifecycle = "active_overlap" /\ now <= work[w].start + CommitDelay
    PROVE  Moves /\ rec' \in Records
<1> DEFINE b == work[w].start
           r == Ring!Rollback(rec, b, b + Overlap)
<1>0. KeyAssumptions /\ rec \in Records /\ b \in Nat /\ b <= now /\ b + Overlap \in Nat
  BY BusyIs DEF KeyAssumptions, Ring!TimesAssumption
<1>1. /\ r \in Records /\ r.revoked = rec.revoked
      /\ rec.lifecycle = "publishing" =>
           /\ r.lifecycle = "ready" /\ r.op = Ring!NoOperation /\ r.served = rec.op.previous
      /\ rec.lifecycle # "publishing" =>
           /\ r.lifecycle = "rollback_overlap"
           /\ r.op = [rec.op EXCEPT !.retireAfter = b + Overlap]
           /\ r.served.active = rec.op.previous.active /\ r.served.committed = b
           /\ r.served.published = rec.op.previous.published \cup Ring!KeysOf(rec.op.cand)
  BY <1>0, RollbackIs
<1> HIDE DEF r
<1>2. CASE rec.lifecycle = "publishing"
  BY <1>1, <1>2 DEF r, Moves, Withdraws, Preparing
<1>3. CASE rec.lifecycle = "active_overlap" /\ now <= work[w].start + CommitDelay
  <2>1. TurnsBack(b)
    BY <1>0, <1>1, <1>3, RecordFields DEF r, TurnsBack, Overlapped, Operations
  <2> QED
    BY <1>0, <1>1, <2>1 DEF r, Moves
<1> QED
  BY <1>2, <1>3

LEMMA RollbackStep ==
    ASSUME NEW w, Busy(w), Ring!Observe, Ring!RollbackTenant(w)
    PROVE  WindowInv' /\ Ring!KnownBeforeSigning
<1> DEFINE r == Ring!Rollback(rec, work[w].start, work[w].start + Overlap)
<1>0. now' = now /\ Workplace /\ now <= work[w].start + CommitDelay
  BY KmsKept, BusyIs DEF Ring!RollbackTenant, Ring!At, Fit
<1>1. CASE Ring!CleanUp(w)
  BY <1>0, <1>1, CleanUpStep
<1>2. CASE Ring!Stop(w)
  BY <1>0, <1>2, StopStep
<1>3. CASE Ring!CanRollback(rec, work[w].op) /\ Ring!CommitAndCleanUp(w, r)
  <2>1. rec.lifecycle \in {"publishing", "active_overlap"}
    BY <1>3 DEF Ring!CanRollback
  <2>2. rec' = r
    BY <1>3 DEF Ring!CommitAndCleanUp, Ring!Commit
  <2>3. Moves /\ rec' \in Records
    BY <1>0, <2>1, <2>2, RollbackMoves
  <2> HIDE DEF r
  <2> QED
    BY <1>0, <1>3, <2>2, <2>3, CommitAndCleanUpStep
<1> QED
  BY <1>1, <1>2, <1>3, Zenon DEF Ring!RollbackTenant

\* A retirement is not early by the worker's clock.
LEMMA RetireMoves ==
    ASSUME NEW w, Busy(w), rec' = Ring!Retire(rec, work[w].start), work[w].start >= rec.op.retireAfter,
           rec.lifecycle \in {"active_overlap", "rollback_overlap"}
    PROVE  Moves /\ rec' \in Records
<1> DEFINE b == work[w].start
           r == Ring!Retire(rec, b)
<1>0. KeyAssumptions /\ rec \in Records /\ b \in Nat /\ b <= now /\ rec.op.retireAfter <= b
  BY BusyIs, RecordFields DEF Operations
<1>1. /\ r \in Records /\ r.revoked = rec.revoked /\ r.lifecycle = "ready"
      /\ r.op = Ring!NoOperation
      /\ r.served = IF rec.lifecycle = "active_overlap" THEN Ring!Generation(rec.op, b)
                                                       ELSE rec.op.previous
  BY <1>0, RetireIs
<1>2. rec' = r
  OBVIOUS
<1> HIDE DEF r
<1>3. Retires(b)
  BY <1>0, <1>1, <1>2 DEF Retires
<1> QED
  BY <1>0, <1>1, <1>2, <1>3 DEF Moves

LEMMA RetireStep ==
    ASSUME NEW w, Busy(w), Ring!Observe, Ring!RetireTenant(w)
    PROVE  WindowInv' /\ Ring!KnownBeforeSigning
<1> DEFINE r == Ring!Retire(rec, work[w].start)
<1>0. now' = now /\ Workplace
  BY KmsKept DEF Ring!RetireTenant
<1>1. CASE Ring!CleanUp(w)
  BY <1>0, <1>1, CleanUpStep
<1>2. CASE Ring!Stop(w)
  BY <1>0, <1>2, StopStep
<1>3. CASE Ring!CanRetire(rec, work[w].op, work[w].start) /\ Ring!CommitAndCleanUp(w, r)
  <2>1. rec' = r
    BY <1>3 DEF Ring!CommitAndCleanUp, Ring!Commit
  <2>2. Moves /\ rec' \in Records
    BY <1>3, <2>1, RetireMoves DEF Ring!CanRetire
  <2> HIDE DEF r
  <2> QED
    BY <1>0, <1>3, <2>1, <2>2, CommitAndCleanUpStep
<1> QED
  BY <1>1, <1>2, <1>3, Zenon DEF Ring!RetireTenant

LEMMA RevokeStep ==
    ASSUME NEW w, Busy(w), Ring!Observe, Ring!EmergencyRevokeTenant(w)
    PROVE  WindowInv' /\ Ring!KnownBeforeSigning
<1> DEFINE b == work[w].start
           r == Ring!EmergencyRevoke(rec, b)
<1>0. /\ now' = now /\ Workplace /\ KeyAssumptions /\ rec \in Records /\ b \in Nat /\ b <= now
  BY KmsKept, BusyIs DEF Ring!EmergencyRevokeTenant
<1>1. CASE Ring!CleanUp(w)
  BY <1>0, <1>1, CleanUpStep
<1>2. CASE Ring!Stop(w)
  BY <1>0, <1>2, StopStep
<1>3. CASE Ring!CanEmergencyRevoke(rec, work[w].op) /\ Ring!CommitAndCleanUp(w, r)
  <2>1. rec' = r
    BY <1>3 DEF Ring!CommitAndCleanUp, Ring!Commit
  <2>2. /\ r \in Records /\ r.revoked = rec.op.id /\ r.lifecycle = "ready"
        /\ r.op = Ring!NoOperation /\ r.served = Ring!Generation(rec.op, b)
    BY <1>0, RevokeIs
  <2> HIDE DEF r
  <2>3. Revokes(b)
    BY <1>3, <2>1, <2>2 DEF Revokes, Ring!CanEmergencyRevoke
  <2>4. Moves
    BY <1>0, <2>3 DEF Moves
  <2> QED
    BY <1>0, <1>3, <2>1, <2>2, <2>4, CommitAndCleanUpStep
<1> QED
  BY <1>1, <1>2, <1>3, Zenon DEF Ring!EmergencyRevokeTenant

LEMMA OffboardStep ==
    ASSUME NEW w, Busy(w), Ring!Observe, Ring!OffboardTenant(w)
    PROVE  WindowInv' /\ Ring!KnownBeforeSigning
<1> DEFINE r == IF rec = Ring!NoRecord THEN Ring!BeginOnboarding(work[w].op) ELSE rec
           closed == Ring!BeginOffboarding(r, work[w].op)
           discovering(pending) ==
               [work[w] EXCEPT !.pc = "discover", !.todo = pending, !.fresh = TRUE]
<1>0. /\ now' = now /\ Workplace /\ KeyAssumptions /\ rec \in Records /\ work[w].op \in Ops
      /\ work[w] \in Locals
  BY KmsKept, BusyIs DEF Ring!OffboardTenant
<1>1. CASE Ring!Stop(w)
  BY <1>0, <1>1, StopStep
<1>2. ASSUME NEW ks \in SUBSET Keys
      PROVE  Goes(w, discovering(ks))
  <2>1. discovering(ks) \in Locals
    BY <1>0 DEF Locals, Ring!Steps
  <2> QED
    BY <1>0, <2>1 DEF Goes, OnGeneration, Locals
<1>3. CASE Ring!Step(w, discovering(rec.pending))
  BY <1>0, <1>2, <1>3, RecordFields, ReadStep
<1>4. CASE Ring!Commit(w, closed, discovering(closed.pending))
  <2>1. r \in Records
    BY <1>0, BeginOnboardingIs DEF OpIds
  <2> HIDE DEF r
  <2>2. /\ closed \in Records /\ Ring!Closed(closed) /\ closed.served = Ring!NoSnapshot
        /\ closed.op = Ring!NoOperation
    BY <1>0, <2>1, BeginOffboardingIs DEF OpIds
  <2>3. rec' = closed
    BY <1>4 DEF Ring!Commit
  <2> HIDE DEF closed
  <2>4. Moves
    BY <2>2, <2>3 DEF Moves, Closes
  <2>5. closed.pending \in SUBSET Keys
    BY <2>2, RecordFields
  <2>6. Goes(w, discovering(closed.pending))
    BY <1>2, <2>5
  <2> HIDE DEF discovering
  <2> QED
    BY <1>0, <1>4, <2>2, <2>4, <2>6, WriteStep
<1> QED
  BY <1>1, <1>3, <1>4, Zenon DEF Ring!OffboardTenant

LEMMA ReconcileStep ==
    ASSUME NEW w, Busy(w), Ring!Observe, Ring!ReconcileTenant(w)
    PROVE  WindowInv' /\ Ring!KnownBeforeSigning
<1> DEFINE ensuring == [work[w] EXCEPT !.pc = "ensure", !.op = OnboardOp]
           turned == Ring!Rollback(rec, work[w].start, work[w].start + Overlap)
           retired == Ring!Retire(rec, work[w].start)
<1>0. /\ now' = now /\ Workplace /\ KeyAssumptions /\ rec \in Records /\ work[w].op \in Ops
      /\ work[w] \in Locals
  BY KmsKept, BusyIs DEF Ring!ReconcileTenant
<1>1. CASE Ring!Step(w, ensuring)
  <2>1. Goes(w, ensuring)
    BY <1>0 DEF Goes, Locals, OnGeneration, Ring!AllCommands, OpIds, KeyAssumptions,
       Ring!CommandsAssumption
  <2> HIDE DEF ensuring
  <2> QED
    BY <1>0, <1>1, <2>1, ReadStep
<1>2. CASE Ring!Stop(w)
  BY <1>0, <1>2, StopStep
<1>3. CASE Ring!CleanUp(w)
  BY <1>0, <1>3, CleanUpStep
<1>4. CASE Ring!Step(w, Ring!Compensating(w, rec.failure.cleanup, "idle"))
  BY <1>0, <1>4, RecordFields, DeletingGoes, ReadStep
<1>5. CASE rec.lifecycle = "provisioning" /\ Ring!Step(w, Ring!Provisioning(w))
  <2>1. rec'.lifecycle = "provisioning"
    BY <1>5 DEF Ring!Step
  <2> QED
    BY <1>0, <1>5, <2>1, ProvisioningGoes, ReadStep
<1>6. CASE rec.lifecycle = "publishing" /\ Ring!CommitAndCleanUp(w, turned)
  <2>1. rec' = turned
    BY <1>6 DEF Ring!CommitAndCleanUp, Ring!Commit
  <2>2. Moves /\ rec' \in Records
    BY <1>6, <2>1, RollbackMoves
  <2> HIDE DEF turned
  <2> QED
    BY <1>0, <1>6, <2>1, <2>2, CommitAndCleanUpStep
<1>7. CASE /\ rec.lifecycle \in {"active_overlap", "rollback_overlap"} /\ Ring!Expired(w)
           /\ Ring!CommitAndCleanUp(w, retired)
  <2>1. rec' = retired
    BY <1>7 DEF Ring!CommitAndCleanUp, Ring!Commit
  <2>2. Moves /\ rec' \in Records
    BY <1>7, <2>1, RetireMoves DEF Ring!Expired
  <2> HIDE DEF retired
  <2> QED
    BY <1>0, <1>7, <2>1, <2>2, CommitAndCleanUpStep
<1>8. CASE Ring!Goto(w, "sweep")
  <2> DEFINE k == [work[w] EXCEPT !.pc = "sweep"]
  <2>1. Goes(w, k)
    BY <1>0 DEF Goes, Locals, OnGeneration, Ring!Steps
  <2>2. Ring!Step(w, k)
    BY <1>8 DEF Ring!Goto
  <2> HIDE DEF k
  <2> QED
    BY <1>0, <2>1, <2>2, ReadStep
<1> QED
  BY <1>1, <1>2, <1>3, <1>4, <1>5, <1>6, <1>7, <1>8, Zenon DEF Ring!ReconcileTenant

-----------------------------------------------------------------------------
(* Provisioning. *)

LEMMA GetStep ==
    ASSUME NEW w, Busy(w), Ring!Observe, Ring!ProvisionGet(w)
    PROVE  WindowInv' /\ Ring!KnownBeforeSigning
<1> DEFINE l == work[w]
           got == IF l.alg = 1
                  THEN [l EXCEPT !.op = rec.op.id, !.gen = rec.op.gen, !.fresh = TRUE]
                  ELSE [l EXCEPT !.fresh = TRUE]
           k == [got EXCEPT !.pc = IF rec.op.cand[l.alg] = NoKey THEN "find" ELSE "reget"]
<1>0. /\ now' = now /\ Workplace /\ KeyAssumptions /\ rec \in Records /\ l.op \in Ops
      /\ l \in Locals /\ l.pc = "get" /\ l.alg \in Ring!Algs
  BY KmsKept, BusyIs DEF Ring!ProvisionGet, Ring!At
<1>1. CASE Ring!Stop(w)
  BY <1>0, <1>1, StopStep
<1>2. CASE ~Ring!Idle(rec) /\ Ring!Step(w, k)
  <2>1. rec.op.id \in Ops /\ rec.op.gen \in Nat
    BY <1>0, <1>2, BusyIs, RecordFields DEF Ring!Idle, Staged
  <2>2. got \in Locals /\ got.op \in Ops /\ got.start = l.start /\ got.alg = l.alg
    BY <1>0, <2>1 DEF Locals, OpIds
  <2> HIDE DEF got
  <2>3. k \in Locals /\ k.pc \in {"find", "reget"} /\ k.op \in Ops /\ k.start = l.start
        /\ k.alg = l.alg
    BY <2>2 DEF Locals, Ring!Steps
  <2> HIDE DEF k
  <2>4. Goes(w, k)
    BY <1>0, <2>3 DEF Goes, OnGeneration
  <2> QED
    BY <1>0, <1>2, <2>4, ReadStep
<1> QED
  BY <1>1, <1>2, Zenon DEF Ring!ProvisionGet

\* The operation fails: what the tenant was served before is served again.
LEMMA FailStep ==
    ASSUME NEW w, Busy(w), Ring!Observe, now' = now, Workplace, OnGeneration(work[w]),
           NEW d \in SUBSET Keys, Ring!FailCurrent(w, d)
    PROVE  WindowInv' /\ Ring!KnownBeforeSigning
<1> DEFINE r == Ring!FailOperation(rec, d)
<1>0. KeyAssumptions /\ rec \in Records
  BY BusyIs
<1>1. /\ r \in Records /\ r.served = rec.op.previous /\ r.op = Ring!NoOperation
      /\ r.lifecycle \in {"failed", "ready"} /\ r.revoked = rec.revoked
      /\ r.failure.cleanup \in SUBSET Keys
  BY <1>0, FailIs
<1>2. CASE Ring!Stop(w)
  BY <1>2, StopStep
<1>3. CASE /\ Ring!OpRuns(rec, work[w].op)
           /\ \/ Ring!Commit(w, r, Ring!Compensating(w, r.failure.cleanup, "idle"))
              \/ Ring!Commit(w, r, Ring!Stopped)
  <2>1. rec' = r
    BY <1>3 DEF Ring!Commit
  <2>2. Moves
    BY <1>1, <1>3, <2>1, Generating DEF Moves, Withdraws
  <2>3. Goes(w, Ring!Stopped) /\ Goes(w, Ring!Compensating(w, r.failure.cleanup, "idle"))
    BY <1>1, StoppedGoes, DeletingGoes
  <2> HIDE DEF r
  <2> QED
    BY <1>1, <1>3, <2>2, <2>3, WriteStep
<1> QED
  BY <1>2, <1>3, Zenon DEF Ring!FailCurrent

LEMMA FindStep ==
    ASSUME NEW w, Busy(w), Ring!Observe, Ring!FindKey(w)
    PROVE  WindowInv' /\ Ring!KnownBeforeSigning
<1> DEFINE l == work[w]
           found == Ring!Tagged(l.op, l.gen, l.alg)
<1>0. /\ now' = now /\ Workplace /\ l.op \in Ops /\ l \in Locals /\ l.pc = "find"
      /\ OnGeneration(l) /\ l.alg \in Ring!Algs /\ found \subseteq Keys
  <2>1. /\ now' = now /\ Workplace /\ l.op \in Ops /\ l \in Locals /\ l.pc = "find"
    BY KmsKept, BusyIs DEF Ring!FindKey, Ring!At
  <2>2. OnGeneration(l)
    BY <2>1 DEF OnGeneration
  <2>3. l.alg \in Ring!Algs
    BY <2>1, <2>2, BusyIs DEF Fit
  <2>4. found \subseteq Keys
    BY BusyIs DEF Ring!Tagged, WindowInv, KeyTypes
  <2> QED
    BY <2>1, <2>2, <2>3, <2>4
<1>1. CASE Ring!Goto(w, "create")
  <2> DEFINE k == [l EXCEPT !.pc = "create"]
  <2>1. Goes(w, k)
    BY <1>0 DEF Goes, Locals, OnGeneration, Ring!Steps
  <2>2. Ring!Step(w, k)
    BY <1>1 DEF Ring!Goto
  <2> HIDE DEF k
  <2> QED
    BY <1>0, <2>1, <2>2, ReadStep
<1>2. ASSUME NEW key \in found, Ring!Step(w, [l EXCEPT !.pc = "record", !.key = key])
      PROVE  WindowInv' /\ Ring!KnownBeforeSigning
  <2> DEFINE k == [l EXCEPT !.pc = "record", !.key = key]
  <2>0. key \in Keys
    BY <1>0
  <2>1. Goes(w, k)
    BY <1>0, <2>0 DEF Goes, Locals, OnGeneration, Ring!Steps, Places
  <2> HIDE DEF k
  <2> QED
    BY <1>0, <1>2, <2>1, ReadStep DEF k
<1>3. CASE Ring!FailCurrent(w, found)
  BY <1>0, <1>3, FailStep
<1> QED
  BY <1>1, <1>2, <1>3, Zenon DEF Ring!FindKey

LEMMA CreateStep ==
    ASSUME NEW w, Busy(w), Ring!Observe, Ring!CreateKey(w)
    PROVE  WindowInv' /\ Ring!KnownBeforeSigning
<1> DEFINE l == work[w]
           fresh == CHOOSE k \in Ring!Unused : TRUE
           k == [l EXCEPT !.pc = "record", !.key = fresh]
<1>0. /\ now' = now /\ UNCHANGED indexed /\ l.op \in Ops /\ l \in Locals /\ l.pc = "create"
      /\ OnGeneration(l) /\ l.alg \in Ring!Algs /\ l.gen \in Nat /\ KeyTypes /\ KeyAssumptions
  <2>1. /\ now' = now /\ UNCHANGED indexed /\ l.op \in Ops /\ l \in Locals /\ l.pc = "create"
        /\ l.gen \in Nat /\ KeyTypes /\ KeyAssumptions
    BY BusyIs DEF Ring!CreateKey, Ring!At, WindowInv
  <2>2. OnGeneration(l)
    BY <2>1 DEF OnGeneration
  <2>3. l.alg \in Ring!Algs
    BY <2>1, <2>2, BusyIs DEF Fit
  <2> QED
    BY <2>1, <2>2, <2>3
<1>1. CASE Ring!Stop(w) /\ UNCHANGED kms
  <2>1. Workplace
    BY <1>0, <1>1, KmsKept
  <2> QED
    BY <1>0, <1>1, <2>1, StopStep
<1>2. CASE /\ Ring!Unused # {} /\ Ring!Step(w, k)
           /\ kms' = [kms EXCEPT ![fresh] = [state |-> "enabled", op |-> l.op, gen |-> l.gen,
                                             alg |-> l.alg]]
  <2>1. fresh \in Keys
    BY <1>2 DEF Ring!Unused
  <2> HIDE DEF fresh
  <2>2. Workplace
    <3>1. [state |-> "enabled", op |-> l.op, gen |-> l.gen, alg |-> l.alg] \in
              [state : {"absent", "enabled", "deleting"}, op : OpIds, gen : Nat, alg : Nat]
      BY <1>0 DEF OpIds, Ring!Algs
    <3> QED
      BY <1>0, <1>2, <2>1, <3>1 DEF Workplace, KeyTypes
  <2>3. Goes(w, k)
    BY <1>0, <2>1 DEF Goes, Locals, OnGeneration, Ring!Steps, Places
  <2> HIDE DEF k
  <2> QED
    BY <1>0, <1>2, <2>2, <2>3, ReadStep
<1> QED
  BY <1>1, <1>2, Zenon DEF Ring!CreateKey

\* A key is recorded for a record that lacks it, so while it is provisioning.
LEMMA RecordStep ==
    ASSUME NEW w, Busy(w), Ring!Observe, Ring!RecordKey(w)
    PROVE  WindowInv' /\ Ring!KnownBeforeSigning
<1> DEFINE l == work[w]
           r == Ring!RecordCreatedKey(rec, l.alg, l.key)
           k == [l EXCEPT !.pc = "reget", !.fresh = FALSE]
           j == [l EXCEPT !.pc = "lost"]
<1>0. /\ now' = now /\ Workplace /\ l.op \in Ops /\ l \in Locals /\ l.pc = "record"
      /\ OnGeneration(l) /\ l.alg \in Ring!Algs /\ l.key \in Keys /\ KeyAssumptions
      /\ rec \in Records /\ Staged(rec)
  <2>1. /\ now' = now /\ Workplace /\ l.op \in Ops /\ l \in Locals /\ l.pc = "record"
        /\ KeyAssumptions /\ rec \in Records /\ Staged(rec)
    BY KmsKept, BusyIs DEF Ring!RecordKey, Ring!At
  <2>2. OnGeneration(l)
    BY <2>1 DEF OnGeneration
  <2>3. l.alg \in Ring!Algs /\ l.key \in Keys
    BY <2>1, <2>2, BusyIs DEF Fit
  <2> QED
    BY <2>1, <2>2, <2>3
<1>1. CASE Ring!Stop(w)
  BY <1>0, <1>1, StopStep
<1>2. CASE Ring!Goto(w, "lost")
  <2>1. Goes(w, j)
    BY <1>0 DEF Goes, Locals, OnGeneration, Ring!Steps
  <2>2. Ring!Step(w, j)
    BY <1>2 DEF Ring!Goto
  <2> HIDE DEF j
  <2> QED
    BY <1>0, <2>1, <2>2, ReadStep
<1>3. CASE Ring!CanRecordCreatedKey(rec, l.op, l.alg) /\ Ring!Commit(w, r, k)
  <2>1. Ring!OpRuns(rec, l.op) /\ rec.op.cand[l.alg] = NoKey
    BY <1>3 DEF Ring!CanRecordCreatedKey
  <2>2. Preparing
    BY <1>0, <2>1, Generating
  <2>3. rec.lifecycle = "provisioning"
    BY <1>0, <2>1, <2>2 DEF Staged, Preparing, Published, Running
  <2>4. Prepared(r, rec)
    BY <1>0, PreparedIs
  <2>5. r.op.verified = rec.op.verified /\ r.op.cand = [rec.op.cand EXCEPT ![l.alg] = l.key]
    BY <1>0, RecordFields DEF Ring!RecordCreatedKey, Records, Operations
  <2>6. \A a \in r.op.verified : r.op.cand[a] # NoKey
    BY <1>0, <2>5, RecordFields DEF Staged, KeyAssumptions, Ring!NamesAssumption, Operations
  <2>7. rec' = r
    BY <1>3 DEF Ring!Commit
  <2> HIDE DEF r
  <2>8. Moves
    BY <2>2, <2>3, <2>4, <2>6, <2>7 DEF Moves, Prepares, Prepared
  <2>9. Goes(w, k)
    BY <1>0 DEF Goes, Locals, OnGeneration, Ring!Steps
  <2> HIDE DEF k
  <2> QED
    BY <1>0, <1>3, <2>4, <2>8, <2>9, WriteStep DEF Prepared
<1> QED
  BY <1>1, <1>2, <1>3, Zenon DEF Ring!RecordKey

LEMMA UnmovedMoves ==
    ASSUME Unmoved(rec', rec)
    PROVE  Moves /\ rec' \in Records
BY DEF Unmoved, Moves, Quiet

LEMMA LostStep ==
    ASSUME NEW w, Busy(w), Ring!Observe, Ring!HandleCasLosingKey(w)
    PROVE  WindowInv' /\ Ring!KnownBeforeSigning
<1> DEFINE r == Ring!TrackPendingDeletion(rec, {work[w].key})
<1>0. /\ now' = now /\ Workplace /\ work[w].key \in Keys /\ rec \in Records
  BY KmsKept, BusyIs DEF Ring!HandleCasLosingKey, Ring!At, Fit
<1>1. CASE Ring!Stop(w)
  BY <1>0, <1>1, StopStep
<1>2. CASE Ring!CleanUp(w)
  BY <1>0, <1>2, CleanUpStep
<1>3. CASE Ring!CommitAndCleanUp(w, r)
  <2>1. Unmoved(r, rec)
    BY <1>0, TrackIs
  <2>2. rec' = r
    BY <1>3 DEF Ring!CommitAndCleanUp, Ring!Commit
  <2> HIDE DEF r
  <2>3. Moves /\ rec' \in Records
    BY <2>1, <2>2, UnmovedMoves
  <2> QED
    BY <1>0, <1>3, <2>2, <2>3, CommitAndCleanUpStep
<1> QED
  BY <1>1, <1>2, <1>3, Zenon DEF Ring!HandleCasLosingKey

LEMMA RegetStep ==
    ASSUME NEW w, Busy(w), Ring!Observe, Ring!ProvisionReget(w)
    PROVE  WindowInv' /\ Ring!KnownBeforeSigning
<1> DEFINE l == work[w]
           after == IF l.alg \in rec.op.verified THEN "get" ELSE "probe"
           k == [l EXCEPT !.pc = "orphans", !.key = rec.op.cand[l.alg], !.fresh = TRUE,
                          !.after = after]
<1>0. /\ now' = now /\ Workplace /\ l.op \in Ops /\ l \in Locals /\ l.pc = "reget"
      /\ OnGeneration(l) /\ l.alg \in Ring!Algs /\ rec.op.cand[l.alg] \in Places
  <2>1. /\ now' = now /\ Workplace /\ l.op \in Ops /\ l \in Locals /\ l.pc = "reget"
        /\ rec \in Records
    BY KmsKept, BusyIs DEF Ring!ProvisionReget, Ring!At
  <2>2. OnGeneration(l)
    BY <2>1 DEF OnGeneration
  <2>3. l.alg \in Ring!Algs
    BY <2>1, <2>2, BusyIs DEF Fit
  <2> QED
    BY <2>1, <2>2, <2>3, RecordFields
<1>1. CASE Ring!Stop(w)
  BY <1>0, <1>1, StopStep
<1>2. CASE Ring!Step(w, k)
  <2>1. after \in {"get", "probe"}
    OBVIOUS
  <2> HIDE DEF after
  <2>2. Goes(w, k)
    BY <1>0, <2>1 DEF Goes, Locals, OnGeneration, Ring!Steps, Afters
  <2> HIDE DEF k
  <2> QED
    BY <1>0, <1>2, <2>2, ReadStep
<1> QED
  BY <1>1, <1>2, Zenon DEF Ring!ProvisionReget

\* On to the next algorithm, or back to where the worker was.
LEMMA WorkerResumedIs ==
    ASSUME NEW l \in Locals, l.after = "get" => l.alg \in Ring!Algs, KeyAssumptions,
           l.after \in {"get", "probe", "ensure", "rotate"}
    PROVE  LET k == Ring!Resumed(l) IN
           /\ k \in Locals /\ k.pc = l.after /\ k.op = l.op /\ k.start = l.start
           /\ k.after = l.after /\ k.alg = (IF l.after = "get" THEN l.alg + 1 ELSE l.alg)
<1>1. (IF l.after = "get" THEN l.alg + 1 ELSE l.alg) \in 1..(NumAlgs + 1)
  BY DEF Locals, Ring!Algs, KeyAssumptions, Ring!AlgsAssumption
<1>2. l.after \in {"idle"} \cup Ring!AllCommands \cup Ring!Steps
  BY DEF Ring!AllCommands, Ring!Steps
<1> QED
  BY <1>1, <1>2 DEF Ring!Resumed, Locals, Places

LEMMA OrphansStep ==
    ASSUME NEW w, Busy(w), Ring!Observe, Ring!FindOrphans(w)
    PROVE  WindowInv' /\ Ring!KnownBeforeSigning
<1> DEFINE l == work[w]
           k == [l EXCEPT !.pc = "persist", !.todo = Ring!Tagged(l.op, l.gen, l.alg) \ {l.key}]
<1>0. /\ now' = now /\ Workplace /\ l.op \in Ops /\ l \in Locals /\ l.pc = "orphans"
      /\ l.after \in {"get", "probe"} /\ Ring!Tagged(l.op, l.gen, l.alg) \subseteq Keys
  BY KmsKept, BusyIs DEF Ring!FindOrphans, Ring!At, Fit, Ring!Tagged, WindowInv, KeyTypes
<1>1. OnGeneration(l)
  BY <1>0 DEF OnGeneration
<1>2. l.alg \in Ring!Algs
  BY <1>0, <1>1, BusyIs DEF Fit
<1>3. Goes(w, k)
  BY <1>0, <1>1, <1>2 DEF Goes, Locals, OnGeneration, Ring!Steps
<1>4. Ring!Step(w, k)
  BY DEF Ring!FindOrphans
<1> HIDE DEF k
<1> QED
  BY <1>0, <1>3, <1>4, ReadStep

LEMMA SweepStep ==
    ASSUME NEW w, Busy(w), Ring!Observe, Ring!Sweep(w)
    PROVE  WindowInv' /\ Ring!KnownBeforeSigning
<1> DEFINE k == [work[w] EXCEPT !.pc = "persist", !.todo = indexed, !.after = "idle"]
<1>0. /\ now' = now /\ Workplace /\ work[w].op \in Ops /\ work[w] \in Locals
      /\ indexed \subseteq Keys
  BY KmsKept, BusyIs DEF Ring!Sweep, WindowInv, KeyTypes
<1>1. Goes(w, k)
  BY <1>0 DEF Goes, Locals, OnGeneration, Ring!Steps, Afters
<1>2. Ring!Step(w, k)
  BY DEF Ring!Sweep
<1> HIDE DEF k
<1> QED
  BY <1>0, <1>1, <1>2, ReadStep

\* A write that leaves the record where it is.
LEMMA UnmovedStep ==
    ASSUME NEW w, Busy(w), Ring!Observe, now' = now, Workplace, NEW r, Unmoved(r, rec), NEW k,
           Ring!Commit(w, r, k), Goes(w, k)
    PROVE  WindowInv' /\ Ring!KnownBeforeSigning
<1>1. rec' = r /\ r \in Records
  BY DEF Ring!Commit, Unmoved
<1>2. Moves
  BY <1>1, UnmovedMoves
<1> QED
  BY <1>1, <1>2, WriteStep

LEMMA PersistStep ==
    ASSUME NEW w, Busy(w), Ring!Observe, Ring!PersistOrphans(w)
    PROVE  WindowInv' /\ Ring!KnownBeforeSigning
<1> DEFINE l == work[w]
           unknown == l.todo \ Ring!Tracks(rec)
           r == Ring!TrackPendingDeletion(rec, unknown)
           j == [l EXCEPT !.pc = "probe", !.todo = {}]
           k == Ring!Deleting(w, r.pending, l.after)
<1>0. /\ now' = now /\ Workplace /\ l.op \in Ops /\ l \in Locals /\ l.pc = "persist"
      /\ l.after \in {"idle", "get", "probe"} /\ unknown \subseteq Keys /\ KeyAssumptions
      /\ rec \in Records
  BY KmsKept, BusyIs DEF Ring!PersistOrphans, Ring!At, Fit
<1>1. l.after \in {"get", "probe"} => OnGeneration(l) /\ l.alg \in Ring!Algs
  <2>1. l.after \in {"get", "probe"} => OnGeneration(l)
    BY <1>0 DEF OnGeneration
  <2> QED
    BY <1>0, <2>1, BusyIs DEF Fit
<1>2. CASE Ring!Stop(w)
  BY <1>0, <1>2, StopStep
<1>3. CASE l.after = "probe" /\ Ring!Step(w, j)
  <2>1. Goes(w, j)
    BY <1>0, <1>1, <1>3 DEF Goes, Locals, OnGeneration, Ring!Steps
  <2> HIDE DEF j
  <2> QED
    BY <1>0, <1>3, <2>1, ReadStep
<1>4. CASE l.after # "idle" /\ l.after # "probe" /\ Ring!Step(w, Ring!Resumed(l))
  <2>1. l.after = "get" /\ l.alg \in Ring!Algs /\ OnGeneration(l)
    BY <1>0, <1>1, <1>4
  <2>2. /\ Ring!Resumed(l) \in Locals /\ Ring!Resumed(l).pc = "get" /\ Ring!Resumed(l).op = l.op
        /\ Ring!Resumed(l).start = l.start
    BY <1>0, <2>1, WorkerResumedIs
  <2>3. Goes(w, Ring!Resumed(l))
    BY <1>0, <2>1, <2>2 DEF Goes, OnGeneration
  <2> QED
    BY <1>0, <1>4, <2>3, ReadStep
<1>5. CASE Ring!Commit(w, r, k)
  <2>1. Unmoved(r, rec) /\ r \in Records
    BY <1>0, TrackIs DEF Unmoved
  <2>2. r.pending \subseteq Keys
    BY <2>1, RecordFields
  <2> HIDE DEF r
  <2>3. Goes(w, k)
    BY <1>0, <1>1, <2>2 DEF Goes, Ring!Deleting, Locals, OnGeneration, Ring!Steps, Afters
  <2> HIDE DEF k
  <2> QED
    BY <1>0, <1>5, <2>1, <2>3, UnmovedStep
<1> QED
  BY <1>2, <1>3, <1>4, <1>5, Zenon DEF Ring!PersistOrphans

\* What a worker at its probe or its verification is known to be.
LEMMA ProbingIs ==
    ASSUME NEW w, Busy(w), work[w].pc \in {"probe", "verify"}
    PROVE  OnGeneration(work[w]) /\ work[w].alg \in Ring!Algs
<1>1. OnGeneration(work[w])
  BY DEF OnGeneration
<1> QED
  BY <1>1, BusyIs DEF Fit

LEMMA ProbeStep ==
    ASSUME NEW w, Busy(w), Ring!Observe, Ring!ProbeSucceeds(w)
    PROVE  WindowInv' /\ Ring!KnownBeforeSigning
<1> DEFINE k == [work[w] EXCEPT !.pc = "verify"]
<1>0. /\ now' = now /\ Workplace /\ work[w].op \in Ops /\ work[w] \in Locals
      /\ OnGeneration(work[w]) /\ work[w].alg \in Ring!Algs
  BY KmsKept, BusyIs, ProbingIs DEF Ring!ProbeSucceeds, Ring!At
<1>1. Goes(w, k)
  BY <1>0 DEF Goes, Locals, OnGeneration, Ring!Steps
<1>2. Ring!Step(w, k)
  BY DEF Ring!ProbeSucceeds, Ring!Goto
<1> HIDE DEF k
<1> QED
  BY <1>0, <1>1, <1>2, ReadStep

LEMMA ProbeFailsStep ==
    ASSUME NEW w, Busy(w), Ring!Observe, Ring!ProbeFails(w)
    PROVE  WindowInv' /\ Ring!KnownBeforeSigning
<1>0. now' = now /\ Workplace /\ OnGeneration(work[w]) /\ Ring!FailCurrent(w, {})
  BY KmsKept, ProbingIs DEF Ring!ProbeFails, Ring!At
<1> QED
  BY <1>0, FailStep

LEMMA ReplicaStep ==
    ASSUME NEW w, Busy(w), Ring!Observe, Ring!ProbeReplicaPending(w)
    PROVE  WindowInv' /\ Ring!KnownBeforeSigning
<1> DEFINE r == Ring!RecordReadiness(rec, work[w].alg)
<1>0. /\ now' = now /\ Workplace /\ OnGeneration(work[w]) /\ work[w].alg \in Ring!Algs
      /\ Ring!OpRuns(rec, work[w].op) /\ Ring!Commit(w, r, Ring!Stopped)
      /\ KeyAssumptions /\ rec \in Records /\ Staged(rec)
  BY KmsKept, ProbingIs, BusyIs DEF Ring!ProbeReplicaPending, Ring!At, Ring!CanRecordReadiness
<1>1. Prepared(r, rec)
  BY <1>0, PreparedIs
<1>2. r.op.verified = rec.op.verified /\ r.op.cand = rec.op.cand
  BY <1>0, RecordFields DEF Ring!RecordReadiness, Records, Operations
<1>3. rec' = r /\ Preparing
  BY <1>0, Generating DEF Ring!Commit
<1>4. /\ \A a \in rec.op.verified : rec.op.cand[a] # NoKey
      /\ rec.lifecycle = "publishing" => rec.op.verified = Ring!Algs
  BY <1>0 DEF Staged, Published, Running
<1> HIDE DEF r
<1>5. Moves
  BY <1>1, <1>2, <1>3, <1>4 DEF Moves, Prepares, Prepared
<1> QED
  BY <1>0, <1>1, <1>5, StoppedGoes, WriteStep DEF Prepared

LEMMA VerifyStep ==
    ASSUME NEW w, Busy(w), Ring!Observe, Ring!RecordVerifiedKey(w)
    PROVE  WindowInv' /\ Ring!KnownBeforeSigning
<1> DEFINE l == work[w]
           r == Ring!RecordVerified(rec, l.alg)
           j == [l EXCEPT !.after = "get"]
<1>0. /\ now' = now /\ Workplace /\ OnGeneration(l) /\ l.alg \in Ring!Algs /\ l \in Locals
      /\ l.op \in Ops /\ KeyAssumptions /\ rec \in Records /\ Staged(rec)
  BY KmsKept, ProbingIs, BusyIs DEF Ring!RecordVerifiedKey, Ring!At
<1>1. CASE Ring!Stop(w)
  BY <1>0, <1>1, StopStep
<1>2. CASE Ring!CanRecordVerified(rec, l.op, l.alg) /\ Ring!Commit(w, r, Ring!Resumed(j))
  <2>1. Ring!OpRuns(rec, l.op) /\ rec.op.cand[l.alg] # NoKey
    BY <1>2 DEF Ring!CanRecordVerified
  <2>2. Prepared(r, rec)
    BY <1>0, PreparedIs
  <2>3. r.op.verified = rec.op.verified \cup {l.alg} /\ r.op.cand = rec.op.cand
    BY <1>0, RecordFields DEF Ring!RecordVerified, Records, Operations
  <2>4. rec' = r /\ Preparing
    BY <1>0, <1>2, <2>1, Generating DEF Ring!Commit
  <2>5. /\ \A a \in rec.op.verified : rec.op.cand[a] # NoKey
        /\ rec.lifecycle = "publishing" => rec.op.verified = Ring!Algs
    BY <1>0 DEF Staged, Published, Running
  <2> HIDE DEF r
  <2>6. Moves
    BY <1>0, <2>1, <2>2, <2>3, <2>4, <2>5 DEF Moves, Prepares, Prepared
  <2>7. j \in Locals /\ j.after = "get" /\ j.alg = l.alg /\ j.op = l.op /\ j.start = l.start
    BY <1>0 DEF Locals, Afters
  <2> HIDE DEF j
  <2>8. /\ Ring!Resumed(j) \in Locals /\ Ring!Resumed(j).pc = "get" /\ Ring!Resumed(j).op = l.op
        /\ Ring!Resumed(j).start = l.start
    BY <1>0, <2>7, WorkerResumedIs
  <2>9. Goes(w, Ring!Resumed(j))
    BY <1>0, <2>8 DEF Goes, OnGeneration
  <2> QED
    BY <1>0, <1>2, <2>2, <2>6, <2>9, WriteStep DEF Prepared
<1> QED
  BY <1>1, <1>2, Zenon DEF Ring!RecordVerifiedKey

LEMMA PublishStep ==
    ASSUME NEW w, Busy(w), Ring!Observe, Ring!PublishGeneration(w)
    PROVE  WindowInv' /\ Ring!KnownBeforeSigning
<1> DEFINE r == Ring!PublishCandidate(rec, now)
<1>0. /\ now' = now /\ Workplace /\ work[w].pc = "get" /\ KeyAssumptions /\ rec \in Records
      /\ now \in Nat
  BY KmsKept, BusyIs DEF Ring!PublishGeneration, Ring!At
<1>1. CASE Ring!Stop(w)
  BY <1>0, <1>1, StopStep
<1>2. CASE Ring!CanPublish(rec, work[w].op) /\ Ring!Commit(w, r, Ring!Stopped)
  <2>1. /\ r \in Records /\ r.revoked = rec.revoked
        /\ rec.op.kind = "onboard" =>
             /\ r.lifecycle = "ready" /\ r.op = Ring!NoOperation /\ r.served = Ring!Generation(rec.op, now)
        /\ rec.op.kind # "onboard" =>
             /\ r.lifecycle = "publishing" /\ r.op = rec.op
             /\ r.served = Ring!Overlapping(rec.op, FALSE, now)
    BY <1>0, PublishIs, Zenon
  <2>2. Ring!OpRuns(rec, work[w].op) /\ rec.op.verified = Ring!Algs
    BY <1>2 DEF Ring!CanPublish, Ring!Complete
  <2>3. OnGeneration(work[w])
    BY <1>0 DEF OnGeneration
  <2>4. Preparing /\ rec.op.kind \in {"onboard", "rotate"}
    BY <2>2, <2>3, Generating, RunsIs
  <2>5. rec' = r
    BY <1>2 DEF Ring!Commit
  <2> HIDE DEF r
  <2>6. rec.op.kind # "onboard" => rec.op.kind = "rotate"
    BY <2>4
  <2>7. Publishes
    BY <2>1, <2>2, <2>4, <2>5, <2>6, Zenon DEF Publishes
  <2>8. Moves
    BY <2>7 DEF Moves
  <2> QED
    BY <1>0, <1>2, <2>1, <2>8, StoppedGoes, WriteStep, Zenon
<1> QED
  BY <1>1, <1>2, Zenon DEF Ring!PublishGeneration

-----------------------------------------------------------------------------
(* Deletions. *)

LEMMA ScheduleStep ==
    ASSUME NEW w, Busy(w), Ring!Observe, NEW key \in Keys, Ring!ScheduleDeletion(w, key)
    PROVE  WindowInv' /\ Ring!KnownBeforeSigning
<1> DEFINE l == work[w]
           k == [l EXCEPT !.todo = @ \ {key}]
<1>0. /\ now' = now /\ UNCHANGED indexed /\ l.op \in Ops /\ l \in Locals /\ KeyTypes
      /\ l.pc \in {"delete", "compensate"} /\ Fit(l, now)
      /\ kms' = [kms EXCEPT ![key].state = "deleting"]
  BY BusyIs DEF Ring!ScheduleDeletion, WindowInv
<1>1. Workplace
  <2>1. [kms[key] EXCEPT !.state = "deleting"] \in
            [state : {"absent", "enabled", "deleting"}, op : OpIds, gen : Nat, alg : Nat]
    BY <1>0 DEF KeyTypes
  <2> QED
    BY <1>0, <2>1 DEF Workplace, KeyTypes
<1>2. /\ k \in Locals /\ k.pc = l.pc /\ k.op = l.op /\ k.start = l.start /\ k.after = l.after
      /\ k.alg = l.alg
  BY <1>0 DEF Locals
<1>3. Ring!Step(w, k)
  BY DEF Ring!ScheduleDeletion
<1> HIDE DEF k
<1>4. Goes(w, k)
  BY <1>0, <1>2 DEF Goes, Fit, OnGeneration
<1> QED
  BY <1>0, <1>1, <1>3, <1>4, ReadStep

LEMMA CleanedGoes ==
    ASSUME NEW w, Busy(w), work[w].pc \in {"delete", "compensate"}
    PROVE  Goes(w, Ring!Cleaned(w))
<1> DEFINE l == work[w]
<1>0. l \in Locals /\ l.op \in Ops /\ Fit(l, now) /\ KeyAssumptions
  BY BusyIs
<1>1. l.after \in {"get", "probe"} => OnGeneration(l) /\ l.alg \in Ring!Algs
  BY <1>0 DEF Fit, OnGeneration
<1>2. CASE l.after = "idle"
  BY <1>2, StoppedGoes DEF Ring!Cleaned
<1>3. CASE l.after = "probe"
  <2>1. Ring!Cleaned(w) = [l EXCEPT !.pc = "probe", !.fresh = FALSE]
    BY <1>3 DEF Ring!Cleaned
  <2> QED
    BY <1>0, <1>1, <1>3, <2>1 DEF Goes, Locals, OnGeneration, Ring!Steps
<1>4. CASE l.after = "finish"
  <2>1. Ring!Cleaned(w) = [l EXCEPT !.pc = "finish", !.fresh = TRUE]
    BY <1>4 DEF Ring!Cleaned
  <2> QED
    BY <1>0, <1>4, <2>1 DEF Goes, Locals, OnGeneration, Ring!Steps
<1>5. CASE l.after \in {"get", "ensure", "rotate"}
  <2> DEFINE m == Ring!Resumed(l)
  <2>1. Ring!Cleaned(w) = [m EXCEPT !.fresh = FALSE]
    BY <1>5 DEF Ring!Cleaned
  <2>2. /\ m \in Locals /\ m.pc = l.after /\ m.op = l.op /\ m.start = l.start
        /\ m.after = l.after
    BY <1>0, <1>1, <1>5, WorkerResumedIs
  <2> HIDE DEF m
  <2>3. /\ Ring!Cleaned(w) \in Locals /\ Ring!Cleaned(w).pc = l.after /\ Ring!Cleaned(w).op = l.op
        /\ Ring!Cleaned(w).start = l.start /\ Ring!Cleaned(w).after = l.after
    BY <2>1, <2>2 DEF Locals
  <2> QED
    BY <1>0, <1>1, <1>5, <2>3 DEF Goes, OnGeneration
<1> QED
  BY <1>0, <1>2, <1>3, <1>4, <1>5 DEF Locals, Afters

LEMMA DeletedStep ==
    ASSUME NEW w, Busy(w), Ring!Observe, Ring!DeletionsDone(w) \/ Ring!CompensationDone(w)
    PROVE  WindowInv' /\ Ring!KnownBeforeSigning
<1>0. /\ now' = now /\ Workplace /\ rec \in Records /\ Goes(w, Ring!Cleaned(w))
  BY KmsKept, BusyIs, CleanedGoes DEF Ring!DeletionsDone, Ring!CompensationDone, Ring!At
<1>1. CASE Ring!Stop(w)
  BY <1>0, <1>1, StopStep
<1>2. CASE Ring!Commit(w, Ring!PendingDeletionsComplete(rec), Ring!Cleaned(w))
  BY <1>0, <1>2, TrackIs, UnmovedStep
<1>3. CASE Ring!Commit(w, Ring!CleanupComplete(rec), Ring!Cleaned(w))
  BY <1>0, <1>3, TrackIs, UnmovedStep
<1> QED
  BY <1>1, <1>2, <1>3, Zenon DEF Ring!DeletionsDone, Ring!CompensationDone

LEMMA DiscoverStep ==
    ASSUME NEW w, Busy(w), Ring!Observe, Ring!OffboardDiscover(w)
    PROVE  WindowInv' /\ Ring!KnownBeforeSigning
<1> DEFINE l == work[w]
           unknown == indexed \ (Ring!Tracks(rec) \cup l.todo)
           r == Ring!TrackPendingDeletion(rec, unknown)
           deleting == [l EXCEPT !.pc = "delete", !.todo = @ \cup unknown, !.after = "finish"]
           k == IF deleting.todo = {} THEN [l EXCEPT !.pc = "finish"] ELSE deleting
<1>0. /\ now' = now /\ Workplace /\ rec \in Records /\ l \in Locals /\ l.op \in Ops
      /\ unknown \subseteq Keys
  BY KmsKept, BusyIs DEF Ring!OffboardDiscover, WindowInv, KeyTypes
<1>1. Goes(w, [l EXCEPT !.pc = "finish"])
  BY <1>0 DEF Goes, Locals, OnGeneration, Ring!Steps
<1>2. Goes(w, deleting)
  BY <1>0 DEF Goes, Locals, OnGeneration, Ring!Steps, Afters
<1>3. Goes(w, k)
  BY <1>1, <1>2
<1>4. Unmoved(r, rec)
  BY <1>0, TrackIs
<1>5. Ring!Stop(w) \/ Ring!Step(w, k) \/ Ring!Commit(w, r, k)
  BY Zenon DEF Ring!OffboardDiscover
<1> HIDE DEF k, r
<1> QED
  BY <1>0, <1>3, <1>4, <1>5, StopStep, ReadStep, UnmovedStep

LEMMA FinishStep ==
    ASSUME NEW w, Busy(w), Ring!Observe, Ring!OffboardFinish(w)
    PROVE  WindowInv' /\ Ring!KnownBeforeSigning
<1> DEFINE r == Ring!FinishOffboarding(rec)
<1>0. /\ now' = now /\ Workplace /\ rec \in Records /\ Staged(rec)
  BY KmsKept, BusyIs DEF Ring!OffboardFinish
<1>1. CASE Ring!Stop(w)
  BY <1>0, <1>1, StopStep
<1>2. CASE rec.lifecycle = "offboarding" /\ Ring!Commit(w, r, Ring!Stopped)
  <2>1. /\ r \in Records /\ r.lifecycle = "offboarded" /\ r.op = rec.op
        /\ r.served = rec.served
    BY <1>0 DEF Ring!FinishOffboarding, Records, Ring!Lifecycles
  <2>2. rec' = r
    BY <1>2 DEF Ring!Commit
  <2>3. rec.op = Ring!NoOperation
    BY <1>0, <1>2 DEF Staged, Running
  <2> HIDE DEF r
  <2>4. Moves
    BY <2>1, <2>2, <2>3 DEF Moves, Closes, Ring!Closed
  <2> QED
    BY <1>0, <1>2, <2>1, <2>4, StoppedGoes, WriteStep
<1> QED
  BY <1>1, <1>2, Zenon DEF Ring!OffboardFinish, Ring!CanFinishOffboarding

-----------------------------------------------------------------------------
(* The rest of the steps. *)

\* Time passes, or the index learns of a key.
LEMMA RestKept ==
    ASSUME WindowInv, KeyAssumptions, Ring!Observe, now' \in Nat, now <= now', rec' = rec,
           work' = work, Workplace, \A v \in Workers : Fit(work[v], now')
    PROVE  WindowInv' /\ Ring!KnownBeforeSigning
<1>0. KeysBefore /\ rec' \in Records /\ Quiet
  BY BeforeIs DEF WindowInv, KeyTypes, Quiet
<1>1. KeysAfter
  BY <1>0, QuietMove
<1>2. KeyTypes'
  BY Observed DEF WindowInv, KeyTypes, Workplace
<1>3. \A v \in Workers : Fit(work'[v], now') /\ Timely(work'[v], rec')
  BY DEF WindowInv
<1> QED
  BY <1>1, <1>2, <1>3 DEF WindowInv, KeysAfter

LEMMA IndexStep ==
    ASSUME WindowInv, KeyAssumptions, Ring!Observe, NEW k \in Keys, Ring!Index(k)
    PROVE  WindowInv' /\ Ring!KnownBeforeSigning
<1>1. now' = now /\ rec' = rec /\ work' = work /\ Workplace /\ now \in Nat
  BY DEF Ring!Index, WindowInv, KeyTypes, Workplace
<1>2. \A v \in Workers : Fit(work[v], now')
  BY <1>1 DEF WindowInv
<1> QED
  BY <1>1, <1>2, RestKept

\* The clock waits for a worker whose invocation is about to end.
LEMMA TickStep ==
    ASSUME WindowInv, KeyAssumptions, Ring!Observe, Ring!Tick
    PROVE  WindowInv' /\ Ring!KnownBeforeSigning
<1>1. /\ now' = now + 1 /\ rec' = rec /\ work' = work /\ Workplace /\ now \in Nat
      /\ CommitDelay \in Nat /\ WorkerTimeout \in Nat /\ CommitDelay <= WorkerTimeout
  BY DEF Ring!Tick, WindowInv, KeyTypes, Workplace, KeyAssumptions, Ring!TimesAssumption,
     Ring!WindowsAssumption
<1>2. ASSUME NEW v \in Workers
      PROVE  Fit(work[v], now')
  <2> DEFINE l == work[v]
  <2>1. Fit(l, now) /\ l.start \in Nat
    BY DEF WindowInv, KeyTypes, Locals
  <2>2. l.pc = "idle" \/ now < Ring!Limit(v)
    BY DEF Ring!Tick, Ring!At
  <2>3. l.pc # "idle" => now + 1 <= l.start + WorkerTimeout
    BY <1>1, <2>1, <2>2 DEF Ring!Limit
  <2>4. l.pc \in {"activate", "rollback"} => now + 1 <= l.start + CommitDelay
    BY <1>1, <2>1, <2>2 DEF Ring!Limit, Ring!AllCommands
  <2> HIDE DEF l
  <2>5. Fit(l, now + 1)
    BY <1>1, <2>1, <2>3, <2>4 DEF Fit
  <2> QED
    BY <1>1, <2>5 DEF l
<1> QED
  BY <1>1, <1>2, RestKept

LEMMA ReceiveStep ==
    ASSUME WindowInv, KeyAssumptions, Ring!Observe, NEW w \in Workers, NEW c \in Commands,
           Ring!Receive(w, c.cmd, c.op)
    PROVE  WindowInv' /\ Ring!KnownBeforeSigning
<1> DEFINE k == [Ring!Stopped EXCEPT !.pc = c.cmd, !.op = c.op, !.start = now]
<1>1. /\ now' = now /\ rec' = rec /\ work' = [work EXCEPT ![w] = k] /\ Workplace
      /\ rec \in Records /\ now \in Nat
  BY DEF Ring!Receive, Ring!Step, WindowInv, KeyTypes, Workplace
<1>2. c.cmd \in Ring!AllCommands /\ c.op \in Ops
  BY DEF KeyAssumptions, Ring!CommandsAssumption
<1>3. /\ k \in Locals /\ k.pc = c.cmd /\ k.op = c.op /\ k.start = now
  <2>1. Ring!Stopped \in Locals
    BY DEF Ring!Stopped, Locals, OpIds, Places, Afters, KeyAssumptions, Ring!AlgsAssumption
  <2> QED
    BY <1>1, <1>2, <2>1 DEF Locals, OpIds
<1> HIDE DEF k
<1>4. ~OnGeneration(k) /\ k.pc \notin {"compensate", "persist", "orphans", "record", "lost"}
  BY <1>2, <1>3 DEF OnGeneration, Ring!AllCommands
<1>5. Fit(k, now) /\ Timely(k, rec')
  BY <1>1, <1>2, <1>3, <1>4 DEF Fit, Timely, KeyAssumptions, Ring!TimesAssumption
<1>6. Moves
  BY <1>1 DEF Moves, Quiet
<1> QED
  BY <1>1, <1>3, <1>5, <1>6, WorkKept

LEMMA WorkStep ==
    ASSUME NEW w, Busy(w), Ring!Observe, Ring!Work(w)
    PROVE  WindowInv' /\ Ring!KnownBeforeSigning
<1>1. CASE Ring!Command(w)
  BY <1>1, EnsureStep, RotateStep, ActivateStep, RollbackStep, RetireStep, RevokeStep,
     OffboardStep, ReconcileStep, Zenon DEF Ring!Command
<1>2. CASE Ring!Provision(w)
  BY <1>2, GetStep, FindStep, CreateStep, RecordStep, LostStep, RegetStep, OrphansStep, ProbeStep,
     ProbeFailsStep, ReplicaStep, VerifyStep, PublishStep, Zenon DEF Ring!Provision
<1>3. CASE Ring!Delete(w)
  BY <1>3, SweepStep, PersistStep, ScheduleStep, DeletedStep, DiscoverStep, FinishStep, Zenon
     DEF Ring!Delete
<1> QED
  BY <1>1, <1>2, <1>3, Zenon DEF Ring!Work

LEMMA Working ==
    ASSUME NEW w, Ring!Work(w)
    PROVE  ~Ring!At(w, "idle")
BY DEF Ring!Work, Ring!Command, Ring!Provision, Ring!Delete, Ring!At, Ring!EnsureTenant,
   Ring!RotateTenant, Ring!ActivateTenant,
       Ring!RollbackTenant, Ring!RetireTenant, Ring!EmergencyRevokeTenant, Ring!OffboardTenant,
       Ring!ReconcileTenant,
       Ring!ProvisionGet, Ring!FindKey, Ring!CreateKey, Ring!RecordKey, Ring!HandleCasLosingKey,
       Ring!ProvisionReget,
       Ring!FindOrphans, Ring!ProbeSucceeds, Ring!ProbeFails, Ring!ProbeReplicaPending,
       Ring!RecordVerifiedKey,
       Ring!PublishGeneration, Ring!Sweep, Ring!PersistOrphans, Ring!ScheduleDeletion,
       Ring!DeletionsDone,
       Ring!CompensationDone, Ring!OffboardDiscover, Ring!OffboardFinish

LEMMA WindowStep ==
    ASSUME KeyAssumptions, WindowInv, [Ring!Next]_Ring!vars
    PROVE  WindowInv' /\ [Ring!KnownBeforeSigning]_Ring!vars
<1>1. CASE UNCHANGED Ring!vars
  <2>1. WindowInv'
    BY <1>1 DEF Ring!vars, WindowInv, KeyTypes, Ring!SignaturesVerify, Outlived, Announcement,
       Lapsed
  <2> QED
    BY <1>1, <2>1
<1>2. CASE Ring!Next
  <2>1. Ring!Observe
    BY <1>2 DEF Ring!Next
  <2>2. ASSUME NEW w \in Workers, NEW c \in Commands, Ring!Receive(w, c.cmd, c.op)
        PROVE  WindowInv' /\ Ring!KnownBeforeSigning
    BY <2>1, <2>2, ReceiveStep
  <2>3. ASSUME NEW w \in Workers, Ring!Work(w)
        PROVE  WindowInv' /\ Ring!KnownBeforeSigning
    BY <2>1, <2>3, Working, WorkStep DEF Busy
  <2>4. ASSUME NEW w \in Workers, Ring!Abandon(w)
        PROVE  WindowInv' /\ Ring!KnownBeforeSigning
    BY <2>1, <2>4, KmsKept, StopStep DEF Busy, Ring!Abandon
  <2>5. CASE Ring!Tick
    BY <2>1, <2>5, TickStep
  <2>6. ASSUME NEW k \in Keys, Ring!Index(k)
        PROVE  WindowInv' /\ Ring!KnownBeforeSigning
    BY <2>1, <2>6, IndexStep
  <2> QED
    BY <1>2, <2>2, <2>3, <2>4, <2>5, <2>6, Zenon DEF Ring!Next
<1> QED
  BY <1>1, <1>2

LEMMA WindowInit ==
    ASSUME KeyAssumptions, Ring!Init
    PROVE  WindowInv
<1> DEFINE b == Ring!BeginOnboarding(NoOp)
<1>1. b \in Records /\ b.served = Ring!NoSnapshot
  BY BeginOnboardingIs DEF OpIds
<1>2. rec = [b EXCEPT !.lifecycle = "none", !.op = Ring!NoOperation]
  BY DEF Ring!Init, Ring!NoRecord
<1> HIDE DEF b
<1>3. /\ rec \in Records /\ rec.lifecycle = "none" /\ rec.op = Ring!NoOperation
      /\ rec.served = Ring!NoSnapshot
  BY <1>1, <1>2, NoSnapshotIs DEF Records
<1>4. Ring!KeysOf(rec.served.active) = {} /\ rec.served.published = {} /\ rec.served.committed = 0
      /\ rec.op.previous.committed = 0
  BY <1>3, NoSnapshotIs
<1>5. Staged(rec)
  BY <1>3, <1>4, Unstaged DEF Running
<1>6. Ring!Stopped \in Locals /\ Ring!Stopped.pc = "idle"
  BY DEF Ring!Stopped, Locals, OpIds, Places, Afters, KeyAssumptions, Ring!AlgsAssumption
<1>7. Ring!NoTag \in [state : {"absent", "enabled", "deleting"}, op : OpIds, gen : Nat, alg : Nat]
  BY DEF Ring!NoTag, OpIds
<1>8. KeyTypes
  BY <1>3, <1>6, <1>7 DEF Ring!Init, KeyTypes
<1>9. Ring!SignaturesVerify
  BY DEF Ring!Init, Ring!SignaturesVerify
<1>10. Outlived /\ Announcement
  BY <1>3, <1>4 DEF Ring!Init, Outlived, Announcement
<1>11. \A w \in Workers : Fit(work[w], now) /\ Timely(work[w], rec)
  BY <1>6 DEF Ring!Init, Fit, Timely, OnGeneration
<1> QED
  BY <1>5, <1>8, <1>9, <1>10, <1>11 DEF WindowInv

\* The invariant of the windows.
LEMMA WindowInvariance ==
    ASSUME KeyAssumptions
    PROVE  Ring!Spec => []WindowInv
<1>1. Ring!Init => WindowInv
  BY WindowInit
<1>2. WindowInv /\ [Ring!Next]_Ring!vars => WindowInv'
  BY WindowStep
<1> QED
  BY <1>1, <1>2, PTL DEF Ring!Spec

\* A key that signed stays published as long as its last signature lives, through activation,
\* rollback, retirement and a publication that times out: activate and rollback keep it for
\* TOKEN_OVERLAP_SECS after their clock reading. Only emergency revocation and offboarding end
\* signatures that are alive, and they are not counted.
THEOREM SignaturesStayVerifiable ==
    ASSUME KeyAssumptions
    PROVE  Ring!Spec => []Ring!SignaturesVerify
<1>1. WindowInv => Ring!SignaturesVerify
  BY DEF WindowInv
<1> QED
  BY <1>1, WindowInvariance, PTL

\* A key that starts to sign has been published for as long as verifiers keep the key set
\* (activate_tenant: PUBLISH_AHEAD_SECS after its publication), whichever workers overlap and
\* however late they are within their invocations. The first generation, which no verifier
\* has cached, and what an emergency revocation puts into use are excepted.
THEOREM KeysAreAnnounced ==
    ASSUME KeyAssumptions
    PROVE  Ring!Spec => [][Ring!KnownBeforeSigning]_Ring!vars
<1>1. WindowInv /\ [Ring!Next]_Ring!vars => [Ring!KnownBeforeSigning]_Ring!vars
  BY WindowStep
<1> QED
  BY <1>1, WindowInvariance, PTL DEF Ring!Spec

-----------------------------------------------------------------------------
(***************************************************************************)
(* The keys themselves: nothing that is in use or on its way in is on its  *)
(* way out (SafeInv). A worker that deletes has its list from the record   *)
(* (Taking, Doomed), a generation consists of keys that were made for it   *)
(* (Whole), and generations follow one another (InTurn), so that a         *)
(* duplicate of a candidate is never a key of the generation before it.    *)
(***************************************************************************)

\* What a key was made for.
Made(k, g, a) ==
    k \in Keys /\ kms[k].state # "absent" /\ kms[k].gen = g /\ kms[k].alg = a
Filled(s) ==
    /\ \A a \in Ring!Algs : s.active[a] # NoKey => Made(s.active[a], s.gen, a)
    /\ s # Ring!NoSnapshot => \A a \in Ring!Algs : s.active[a] # NoKey
Whole(r) ==
    /\ \A a \in Ring!Algs : r.op.cand[a] # NoKey => Made(r.op.cand[a], r.op.gen, a)
    /\ Filled(r.served) /\ Filled(r.op.previous)

\* Generations follow one another, and only an overlap publishes two.
InTurn(r) ==
    /\ r.op.previous.published = Ring!KeysOf(r.op.previous.active)
    /\ r.lifecycle \notin Published => r.served.published = Ring!KeysOf(r.served.active)
    /\ r.lifecycle = "ready" => r.served # Ring!NoSnapshot
    /\ r.op.kind = "rotate" =>
         r.op.gen = r.op.previous.gen + 1 /\ r.op.previous # Ring!NoSnapshot
    /\ r.op.kind = "onboard" => r.op.gen = 1

\* The keys in use or on their way in, and those on their way out.
Live(r) == r.served.published \cup r.op.previous.published \cup Ring!KeysOf(r.op.cand)
Doomed(r) == r.pending \cup r.scheduled \cup r.failure.cleanup
Taking(l) == IF l.pc \in {"delete", "compensate", "discover"} THEN l.todo ELSE {}
Gone == {k \in Keys : kms[k].state = "deleting"}
Spared(k) ==
    k \notin Doomed(rec) \cup Gone /\ \A w \in Workers : k \notin Taking(work[w])

\* What a worker is about to record was made for its operation.
Holding(l) ==
    l.pc = "record" =>
        Made(l.key, l.gen, l.alg) /\ kms[l.key].op = l.op

SafeInv ==
    /\ Whole(rec) /\ InTurn(rec) /\ \A k \in Live(rec) : Spared(k)
    /\ \A w \in Workers : Holding(work[w])
    /\ \A k \in indexed : kms[k].state # "absent"

\* The key that a worker is about to record is not one that another gives up
\* (handle_cas_losing_key, compensate_failure). The code does not see to that: MCKeyAdoption
\* shows a worker that finds such a key by its tags, which find_created_keys does not
\* compare with pending_deletion_arns or scheduled_deletion_arns.
RecordsSpared ==
    \A w \in Workers :
        /\ Ring!At(w, "record") /\ work[w].fresh
        /\ Ring!CanRecordCreatedKey(rec, work[w].op, work[w].alg)
        => Spared(work[w].key)
\* The id of the running operation, where a worker still looks for its keys, is not that of
\* an earlier rotation: who sends a command draws a new id.
OneRun ==
    \A w \in Workers :
        /\ Ring!At(w, "find") \/ Ring!At(w, "record")
        /\ Ring!OpRuns(rec, work[w].op)
        => work[w].gen = rec.op.gen

\* A record that a step may leave behind: nothing new is in use, and nothing in use is to go.
Keeps(r) ==
    /\ Whole(r) /\ InTurn(r) /\ Live(r) \subseteq Live(rec)
    /\ \A k \in Live(r) : k \notin Doomed(r)

\* What worker w may do to the keys themselves.
Handles(w) ==
    /\ \A k \in Keys : kms[k].state # "absent" =>
         /\ kms'[k].state # "absent" /\ kms'[k].op = kms[k].op
         /\ kms'[k].gen = kms[k].gen /\ kms'[k].alg = kms[k].alg
    /\ \A k \in Keys : kms'[k].state = "deleting" => k \in Gone \/ k \in Taking(work[w])
    /\ \A k \in indexed' : kms'[k].state # "absent"

\* What worker w may turn into: it takes nothing that is not to go.
Tamed(w, l, r) ==
    /\ \A k \in Taking(l) : k \in Taking(work[w]) \/ k \in Doomed(r)
    /\ l.pc = "record" =>
         /\ l.key \in Keys /\ kms'[l.key].state # "absent" /\ kms'[l.key].op = l.op
         /\ kms'[l.key].gen = l.gen /\ kms'[l.key].alg = l.alg

-----------------------------------------------------------------------------
LEMMA SafeKept ==
    ASSUME KeyAssumptions, WindowInv, WindowInv', SafeInv, NEW w \in Workers, Handles(w),
           Whole(rec'), InTurn(rec'), \A k \in Live(rec') : k \notin Doomed(rec') /\ Spared(k),
           Tamed(w, work'[w], rec'),
           \A v \in Workers : v # w => \/ work'[v] = work[v]
                                       \/ work'[v] = [work[v] EXCEPT !.fresh = FALSE]
    PROVE  SafeInv'
<1>1. \A k, g, a : Made(k, g, a) => Made(k, g, a)'
  BY DEF Made, Handles
<1>2. Whole(rec)'
  BY <1>1 DEF Whole, Filled
<1>3. InTurn(rec)'
  BY DEF InTurn
<1>4. ASSUME NEW v \in Workers, v # w
      PROVE  /\ Taking(work'[v]) = Taking(work[v])
             /\ work'[v].pc = work[v].pc /\ work'[v].key = work[v].key
             /\ work'[v].gen = work[v].gen /\ work'[v].alg = work[v].alg
             /\ work'[v].op = work[v].op
  <2>1. work[v] \in Locals
    BY DEF WindowInv, KeyTypes
  <2> QED
    BY <1>4, <2>1 DEF Taking, Locals
<1>5. ASSUME NEW k \in Live(rec')
      PROVE  Spared(k)'
  <2>1. k \in Keys
    BY RecordFields, KeysOfPlaces DEF Live, WindowInv, KeyTypes, KeyAssumptions
  <2>2. Spared(k) /\ k \notin Doomed(rec')
    OBVIOUS
  <2>3. k \notin Gone'
    BY <2>1, <2>2 DEF Gone, Spared, Handles
  <2>4. ASSUME NEW v \in Workers
        PROVE  k \notin Taking(work'[v])
    <3>1. CASE v = w
      BY <2>2, <3>1 DEF Tamed, Spared
    <3>2. CASE v # w
      BY <1>4, <2>2, <3>2 DEF Spared
    <3> QED
      BY <3>1, <3>2
  <2> QED
    BY <2>2, <2>3, <2>4 DEF Spared
<1>6. ASSUME NEW v \in Workers
      PROVE  Holding(work[v])'
  <2>1. CASE v = w
    BY <2>1 DEF Holding, Made, Tamed
  <2>2. CASE v # w
    <3>1. Holding(work[v])
      BY DEF SafeInv
    <3> QED
      BY <1>4, <2>2, <3>1 DEF Holding, Made, Handles
  <2> QED
    BY <2>1, <2>2
<1>7. (\A k \in indexed : kms[k].state # "absent")'
  BY DEF Handles
<1> QED
  BY <1>2, <1>3, <1>5, <1>6, <1>7 DEF SafeInv, Live

LEMMA KeepsRecord ==
    ASSUME SafeInv
    PROVE  Keeps(rec)
BY DEF SafeInv, Keeps, Spared

\* A worker at work, in an invocation that stays in its windows.
Sound(w) == Busy(w) /\ SafeInv /\ WindowInv'

LEMMA SoundIs ==
    ASSUME NEW w, Sound(w)
    PROVE  /\ Busy(w) /\ SafeInv /\ WindowInv' /\ w \in Workers /\ KeyAssumptions /\ WindowInv
           /\ rec \in Records /\ Staged(rec) /\ work[w] \in Locals /\ Whole(rec) /\ InTurn(rec)
           /\ now \in Nat /\ Fit(work[w], now)
BY BusyIs DEF Sound, SafeInv

LEMMA SafeRead ==
    ASSUME NEW w, Sound(w), Handles(w), NEW l, Ring!Step(w, l), Tamed(w, l, rec)
    PROVE  SafeInv'
<1>1. rec' = rec /\ work' = [work EXCEPT ![w] = l]
  BY DEF Ring!Step
<1>2. work' = [v \in Workers |-> IF v = w THEN l ELSE work[v]]
  BY <1>1, SoundIs DEF WindowInv, KeyTypes
<1>3. Whole(rec') /\ InTurn(rec') /\ \A k \in Live(rec') : k \notin Doomed(rec') /\ Spared(k)
  BY <1>1, SoundIs DEF SafeInv, Spared
<1>4. Tamed(w, work'[w], rec')
  BY <1>1, <1>2, SoundIs
<1> QED
  BY <1>2, <1>3, <1>4, SoundIs, SafeKept

LEMMA SafeWrite ==
    ASSUME NEW w, Sound(w), Handles(w), NEW l, NEW r, Ring!Commit(w, r, l), Keeps(r), Tamed(w, l, r)
    PROVE  SafeInv'
<1>1. /\ rec' = r
      /\ work' = [v \in Workers |-> IF v = w THEN l ELSE [work[v] EXCEPT !.fresh = FALSE]]
  BY DEF Ring!Commit
<1>2. Whole(rec') /\ InTurn(rec') /\ \A k \in Live(rec') : k \notin Doomed(rec') /\ Spared(k)
  BY <1>1, SoundIs DEF SafeInv, Keeps
<1>3. Tamed(w, work'[w], rec')
  BY <1>1, SoundIs
<1> QED
  BY <1>1, <1>2, <1>3, SoundIs, SafeKept

LEMMA HandlesNothing ==
    ASSUME NEW w, SafeInv, UNCHANGED <<kms, indexed>>
    PROVE  Handles(w)
BY DEF SafeInv, Handles, Gone

LEMMA TamedIdle ==
    ASSUME NEW w, NEW l, NEW r, l.pc \notin {"delete", "compensate", "discover", "record"}
    PROVE  Tamed(w, l, r)
BY DEF Tamed, Taking

LEMMA TamedDeleting ==
    ASSUME NEW w, Sound(w), NEW r, NEW ks, NEW after, ks \subseteq Doomed(r)
    PROVE  /\ Tamed(w, Ring!Deleting(w, ks, after), r)
              /\ Tamed(w, Ring!Compensating(w, ks, after), r)
<1>1. work[w] \in Locals
  BY SoundIs
<1> QED
  BY <1>1 DEF Tamed, Taking, Ring!Deleting, Ring!Compensating, Locals

LEMMA SafeStop ==
    ASSUME NEW w, Sound(w), Handles(w), Ring!Stop(w)
    PROVE  SafeInv'
<1>1. Ring!Stopped.pc = "idle"
  BY DEF Ring!Stopped
<1> QED
  BY <1>1, TamedIdle, SafeRead DEF Ring!Stop

LEMMA SafeCleanUp ==
    ASSUME NEW w, Sound(w), Handles(w), Ring!CleanUp(w)
    PROVE  SafeInv'
<1>1. CASE Ring!Stop(w)
  BY <1>1, SafeStop
<1>2. CASE Ring!Step(w, Ring!Deleting(w, rec.pending, "idle"))
  <2>1. Tamed(w, Ring!Deleting(w, rec.pending, "idle"), rec)
    BY TamedDeleting DEF Doomed
  <2> QED
    BY <1>2, <2>1, SafeRead
<1> QED
  BY <1>1, <1>2, Zenon DEF Ring!CleanUp

LEMMA SafeCommitAndCleanUp ==
    ASSUME NEW w, Sound(w), Handles(w), NEW r, Ring!CommitAndCleanUp(w, r), Keeps(r)
    PROVE  SafeInv'
<1>1. CASE Ring!Commit(w, r, Ring!Stopped)
  <2>1. Tamed(w, Ring!Stopped, r)
    BY TamedIdle DEF Ring!Stopped
  <2> QED
    BY <1>1, <2>1, SafeWrite
<1>2. CASE Ring!Commit(w, r, Ring!Deleting(w, r.pending, "idle"))
  <2>1. Tamed(w, Ring!Deleting(w, r.pending, "idle"), r)
    BY TamedDeleting DEF Doomed
  <2> QED
    BY <1>2, <2>1, SafeWrite
<1>3. Ring!Commit(w, r, Ring!Stopped) \/ Ring!Commit(w, r, Ring!Deleting(w, r.pending, "idle"))
  BY DEF Ring!CommitAndCleanUp
<1> QED
  BY <1>1, <1>2, <1>3

-----------------------------------------------------------------------------
(* What the transitions keep. *)

LEMMA NothingFilled ==
    ASSUME KeyAssumptions
    PROVE  /\ Filled(Ring!NoSnapshot) /\ Ring!NoSnapshot.published = {}
              /\ Ring!KeysOf(Ring!NoSnapshot.active) = {}
           /\ Ring!NoOperation.kind = "none" /\ Ring!NoOperation.previous = Ring!NoSnapshot
           /\ Ring!KeysOf(Ring!NoOperation.cand) = {}
              /\ \A a \in Ring!Algs : Ring!NoOperation.cand[a] = NoKey
<1>1. \A a \in Ring!Algs : Ring!NoSnapshot.active[a] = NoKey
  BY DEF Ring!NoSnapshot
<1>2. Filled(Ring!NoSnapshot)
  BY <1>1 DEF Filled
<1>3. \A a \in Ring!Algs : Ring!NoOperation.cand[a] = NoKey
  BY <1>1, NoSnapshotIs
<1> QED
  BY <1>2, <1>3, NoSnapshotIs

\* A key of this generation is not one of the generation before.
LEMMA ApartIs ==
    ASSUME NEW w, Sound(w), NEW k, kms[k].gen = rec.op.gen
    PROVE  k \notin rec.op.previous.published
<1> SUFFICES ASSUME k \in rec.op.previous.published
             PROVE  FALSE
  OBVIOUS
<1>1. k \in Ring!KeysOf(rec.op.previous.active)
  BY SoundIs DEF InTurn
<1>2. PICK b \in Ring!Algs : k = rec.op.previous.active[b] /\ k # NoKey
  BY <1>1 DEF Ring!KeysOf
<1>3. Made(k, rec.op.previous.gen, b)
  BY <1>2, SoundIs DEF Whole, Filled
<1>4. rec.op.gen = rec.op.previous.gen
  BY <1>3 DEF Made
<1>5. rec.op.previous.gen \in Nat
  BY SoundIs, RecordFields DEF Snapshots
<1>6. rec.op.kind # "rotate"
  BY <1>4, <1>5, SoundIs DEF InTurn
<1>7. rec.op.previous = Ring!NoSnapshot
  BY <1>6, SoundIs, NothingFilled DEF Staged
<1> QED
  BY <1>7, SoundIs, NothingFilled

\* What is live is referenced, and a candidate is not among the keys it follows.
LEMMA LiveIs ==
    ASSUME NEW w, Sound(w)
    PROVE  /\ Live(rec) \subseteq Ring!References(rec)
           /\ \A k \in Ring!KeysOf(rec.op.cand) : k \notin rec.op.previous.published
<1>1. rec.op.previous.published \subseteq rec.served.published
  <2>1. rec.lifecycle \notin Running => rec.op.previous.published = {}
    BY SoundIs, NothingFilled DEF Staged
  <2>2. rec.lifecycle = "provisioning" => rec.op.previous = rec.served
    BY SoundIs DEF Staged
  <2>3. rec.lifecycle \in Published => rec.op.previous.published \subseteq rec.served.published
    BY SoundIs DEF Staged
  <2> QED
    BY <2>1, <2>2, <2>3 DEF Running, Published
<1>2. Live(rec) \subseteq Ring!References(rec)
  BY <1>1 DEF Live, Ring!References
<1>3. ASSUME NEW k \in Ring!KeysOf(rec.op.cand)
      PROVE  k \notin rec.op.previous.published
  <2>1. PICK a \in Ring!Algs : k = rec.op.cand[a] /\ k # NoKey
    BY DEF Ring!KeysOf
  <2>2. Made(k, rec.op.gen, a)
    BY <2>1, SoundIs DEF Whole
  <2> QED
    BY <2>2, ApartIs DEF Made
<1> QED
  BY <1>2, <1>3

LEMMA CandidateIs ==
    ASSUME NEW w, Sound(w), rec.op.verified = Ring!Algs
    PROVE  \A a \in Ring!Algs : rec.op.cand[a] # NoKey /\ Made(rec.op.cand[a], rec.op.gen, a)
BY SoundIs DEF Staged, Whole

\* The same keys, for the same operation.
LEMMA KeepsSame ==
    ASSUME NEW w, Sound(w), NEW r, r.lifecycle = rec.lifecycle, r.served = rec.served,
           r.op.cand = rec.op.cand, r.op.previous = rec.op.previous, r.op.gen = rec.op.gen,
           r.op.kind = rec.op.kind, \A k \in Doomed(r) : k \in Doomed(rec) \/ k \notin Live(rec)
    PROVE  Keeps(r)
<1>1. Live(r) = Live(rec)
  BY DEF Live
<1>2. Whole(r) /\ InTurn(r)
  BY SoundIs DEF Whole, InTurn
<1>3. \A k \in Live(rec) : k \notin Doomed(rec)
  BY SoundIs DEF SafeInv, Spared
<1> QED
  BY <1>1, <1>2, <1>3 DEF Keeps

\* Nothing is published or prepared.
LEMMA KeepsNothing ==
    ASSUME NEW w, Sound(w), NEW r, r.lifecycle # "ready", r.served = Ring!NoSnapshot,
           \/ r.op = Ring!NoOperation
           \/ \E id : r.op = Ring!Operation(id, "onboard", 1, Ring!NoSnapshot)
    PROVE  Keeps(r)
<1>1. /\ r.op.previous = Ring!NoSnapshot /\ r.op.cand = Ring!NoOperation.cand
         /\ r.op.kind # "rotate"
      /\ r.op.kind = "onboard" => r.op.gen = 1
  BY SoundIs, NothingFilled DEF Ring!Operation, Ring!NoOperation
<1>2. Live(r) = {}
  BY <1>1, SoundIs, NothingFilled DEF Live
<1>3. Whole(r)
  BY <1>1, SoundIs, NothingFilled DEF Whole
<1>4. InTurn(r)
  BY <1>1, SoundIs, NothingFilled DEF InTurn
<1> QED
  BY <1>2, <1>3, <1>4 DEF Keeps

\* The next generation begins.
LEMMA KeepsRotation ==
    ASSUME NEW w, Sound(w), rec.lifecycle = "ready", NEW r, r.lifecycle = "provisioning",
           r.served = rec.served, NEW id,
           r.op = Ring!Operation(id, "rotate", rec.served.gen + 1, rec.served),
           Doomed(r) = Doomed(rec)
    PROVE  Keeps(r)
<1>1. /\ r.op.previous = rec.served /\ r.op.cand = Ring!NoOperation.cand /\ r.op.kind = "rotate"
      /\ r.op.gen = rec.served.gen + 1
  BY DEF Ring!Operation, Ring!NoOperation
<1>2. rec.served.published = Ring!KeysOf(rec.served.active) /\ rec.served # Ring!NoSnapshot
  BY SoundIs DEF InTurn, Published, Running
<1>3. Live(r) = rec.served.published
  BY <1>1, SoundIs, NothingFilled DEF Live
<1>4. Whole(r)
  BY <1>1, SoundIs, NothingFilled DEF Whole
<1>5. InTurn(r)
  BY <1>1, <1>2 DEF InTurn
<1>6. \A k \in rec.served.published : k \in Live(rec) /\ k \notin Doomed(rec)
  BY SoundIs DEF SafeInv, Spared, Live
<1> QED
  BY <1>3, <1>4, <1>5, <1>6 DEF Keeps

\* Both generations are published.
LEMMA KeepsOverlap ==
    ASSUME NEW w, Sound(w), rec.op.verified = Ring!Algs, rec.op.kind = "rotate", NEW r,
           r.lifecycle \in Published,
           r.op.cand = rec.op.cand, r.op.previous = rec.op.previous, r.op.gen = rec.op.gen,
           r.op.kind = rec.op.kind,
           r.served.published = rec.op.previous.published \cup Ring!KeysOf(rec.op.cand),
           \/ r.served.active = rec.op.cand /\ r.served.gen = rec.op.gen
           \/ r.served.active = rec.op.previous.active /\ r.served.gen = rec.op.previous.gen,
           Doomed(r) \subseteq Doomed(rec)
    PROVE  Keeps(r)
<1>1. Live(r) \subseteq Live(rec)
  BY DEF Live
<1>2. Filled(r.served)
  <2>1. CASE r.served.active = rec.op.cand /\ r.served.gen = rec.op.gen
    BY <2>1, CandidateIs DEF Filled
  <2>2. CASE r.served.active = rec.op.previous.active /\ r.served.gen = rec.op.previous.gen
    BY <2>2, SoundIs DEF Whole, Filled, InTurn
  <2> QED
    BY <2>1, <2>2
<1>3. Whole(r)
  BY <1>2, SoundIs DEF Whole
<1>4. InTurn(r)
  BY SoundIs DEF InTurn, Published, Running
<1>5. \A k \in Live(rec) : k \notin Doomed(rec)
  BY SoundIs DEF SafeInv, Spared
<1> QED
  BY <1>1, <1>3, <1>4, <1>5 DEF Keeps

\* The candidate is all that is left, and what it follows goes.
LEMMA KeepsCandidate ==
    ASSUME NEW w, Sound(w), rec.op.verified = Ring!Algs, NEW b, NEW r,
           r.lifecycle = "ready", r.op = Ring!NoOperation, r.served = Ring!Generation(rec.op, b),
           \A k \in Doomed(r) : k \in Doomed(rec) \/ k \in rec.op.previous.published
    PROVE  Keeps(r)
<1>1. /\ r.served.gen = rec.op.gen /\ r.served.active = rec.op.cand
      /\ r.served.published = Ring!KeysOf(rec.op.cand)
  BY DEF Ring!Generation
<1>2. Live(r) = Ring!KeysOf(rec.op.cand)
  BY <1>1, SoundIs, NothingFilled DEF Live
<1>3. r.served # Ring!NoSnapshot
  <2>1. 1 \in Ring!Algs
    BY SoundIs DEF KeyAssumptions, Ring!AlgsAssumption, Ring!Algs
  <2>2. Ring!NoSnapshot.active[1] = NoKey
    BY <2>1 DEF Ring!NoSnapshot
  <2> QED
    BY <1>1, <2>1, <2>2, CandidateIs
<1>4. Whole(r)
  BY <1>1, CandidateIs, SoundIs, NothingFilled DEF Whole, Filled
<1>5. InTurn(r)
  BY <1>1, <1>3, SoundIs, NothingFilled DEF InTurn
<1>6. \A k \in Ring!KeysOf(rec.op.cand) : /\ k \in Live(rec) /\ k \notin Doomed(rec)
                                     /\ k \notin rec.op.previous.published
  BY LiveIs, SoundIs DEF SafeInv, Spared, Live
<1> QED
  BY <1>2, <1>4, <1>5, <1>6 DEF Keeps

\* What was served before is left, and the candidate and its duplicates go.
LEMMA KeepsPrevious ==
    ASSUME NEW w, Sound(w), NEW d, d \cap rec.op.previous.published = {}, NEW r,
           r.lifecycle = "ready" => rec.op.previous # Ring!NoSnapshot,
           r.lifecycle \in {"ready", "failed"}, r.op = Ring!NoOperation, r.served = rec.op.previous,
           \A k \in Doomed(r) : k \in Doomed(rec) \/ k \in Ring!KeysOf(rec.op.cand) \/ k \in d
    PROVE  Keeps(r)
<1>1. Live(r) = rec.op.previous.published
  BY SoundIs, NothingFilled DEF Live
<1>2. Whole(r)
  BY SoundIs, NothingFilled DEF Whole
<1>3. InTurn(r)
  BY SoundIs, NothingFilled DEF InTurn
<1>4. \A k \in rec.op.previous.published : /\ k \in Live(rec) /\ k \notin Doomed(rec)
                                           /\ k \notin Ring!KeysOf(rec.op.cand) /\ k \notin d
  BY LiveIs, SoundIs DEF SafeInv, Spared, Live
<1> QED
  BY <1>1, <1>2, <1>3, <1>4 DEF Keeps

LEMMA KeepsPreviousAlone ==
    ASSUME NEW w, Sound(w), NEW r,
           r.lifecycle = "ready" => rec.op.previous # Ring!NoSnapshot,
           r.lifecycle \in {"ready", "failed"}, r.op = Ring!NoOperation, r.served = rec.op.previous,
           \A k \in Doomed(r) : k \in Doomed(rec) \/ k \in Ring!KeysOf(rec.op.cand)
    PROVE  Keeps(r)
<1>1. {} \cap rec.op.previous.published = {}
  OBVIOUS
<1>2. \A k \in Doomed(r) : k \in Doomed(rec) \/ k \in Ring!KeysOf(rec.op.cand) \/ k \in {}
  OBVIOUS
<1> QED
  BY <1>1, <1>2, KeepsPrevious

-----------------------------------------------------------------------------
LEMMA OverlapIs ==
    ASSUME NEW o, NEW n
    PROVE  /\ Ring!Overlapping(o, TRUE, n).gen = o.gen
              /\ Ring!Overlapping(o, TRUE, n).active = o.cand
           /\ Ring!Overlapping(o, TRUE, n).published = o.previous.published \cup Ring!KeysOf(o.cand)
           /\ Ring!Overlapping(o, FALSE, n).gen = o.previous.gen
           /\ Ring!Overlapping(o, FALSE, n).active = o.previous.active
           /\ Ring!Overlapping(o, FALSE, n).published = o.previous.published \cup Ring!KeysOf(o.cand)
BY DEF Ring!Overlapping

LEMMA FinishedLists ==
    ASSUME NEW r \in Records, NEW o
    PROVE  LET n == Ring!Finished(r, o) IN
           /\ n.lifecycle = "ready" /\ n.op = Ring!NoOperation /\ n.pending = r.pending
           /\ n.scheduled = r.scheduled /\ n.failure = r.failure /\ n.served = r.served
           /\ DOMAIN n = DOMAIN r
BY DEF Ring!Finished, Records

LEMMA OverlapKind ==
    ASSUME NEW w, Sound(w), rec.lifecycle \in Published
    PROVE  rec.op.kind = "rotate" /\ rec.op.verified = Ring!Algs
             /\ rec.op.previous # Ring!NoSnapshot
<1>1. rec.op.kind \in {"onboard", "rotate"} /\ rec.op.kind # "onboard"
        /\ rec.op.verified = Ring!Algs
  BY SoundIs DEF Staged, Published, Running
<1> QED
  BY <1>1, SoundIs DEF InTurn

LEMMA KeepsActivation ==
    ASSUME NEW w, Sound(w), rec.lifecycle = "publishing", NEW b, NEW t
    PROVE  Keeps(Ring!ActivateCandidate(rec, b, t))
<1> DEFINE o == Ring!Overlapping(rec.op, TRUE, b)
           r == Ring!ActivateCandidate(rec, b, t)
<1>1. /\ o.gen = rec.op.gen /\ o.active = rec.op.cand
      /\ o.published = rec.op.previous.published \cup Ring!KeysOf(rec.op.cand)
  BY OverlapIs, Zenon
<1>2. r = [rec EXCEPT !.lifecycle = "active_overlap", !.op.retireAfter = t, !.served = o]
  BY DEF Ring!ActivateCandidate
<1> HIDE DEF o
<1>3. /\ r.lifecycle = "active_overlap" /\ r.served = o /\ r.pending = rec.pending
      /\ r.scheduled = rec.scheduled /\ r.failure = rec.failure /\ r.op.cand = rec.op.cand
      /\ r.op.previous = rec.op.previous /\ r.op.gen = rec.op.gen /\ r.op.kind = rec.op.kind
  BY <1>2, SoundIs, RecordFields DEF Records, Operations
<1>4. Doomed(r) \subseteq Doomed(rec)
  BY <1>3 DEF Doomed
<1> HIDE DEF r
<1>5. rec.op.kind = "rotate" /\ rec.op.verified = Ring!Algs
  BY OverlapKind DEF Published, Running
<1>6. Keeps(r)
  BY <1>1, <1>3, <1>4, <1>5, KeepsOverlap DEF Published, Running
<1> QED
  BY <1>6 DEF r

LEMMA KeepsRollback ==
    ASSUME NEW w, Sound(w), rec.lifecycle \in {"publishing", "active_overlap"}, NEW b, NEW t
    PROVE  Keeps(Ring!Rollback(rec, b, t))
<1> DEFINE r == Ring!Rollback(rec, b, t)
<1>0. rec.op.kind = "rotate" /\ rec.op.verified = Ring!Algs /\ rec.op.previous # Ring!NoSnapshot
  BY OverlapKind DEF Published, Running
<1>1. CASE rec.lifecycle = "publishing"
  <2> DEFINE f == Ring!Finished(rec, "rolled_back")
  <2>1. r = [f EXCEPT !.served = rec.op.previous, !.pending = Ring!KeysOf(rec.op.cand)]
    BY <1>1 DEF Ring!Rollback
  <2>2. /\ f.lifecycle = "ready" /\ f.op = Ring!NoOperation /\ f.scheduled = rec.scheduled
        /\ f.failure = rec.failure /\ DOMAIN f = DOMAIN rec
    BY SoundIs, FinishedLists
  <2> HIDE DEF f
  <2>3. /\ r.lifecycle = "ready" /\ r.op = Ring!NoOperation /\ r.served = rec.op.previous
        /\ r.pending = Ring!KeysOf(rec.op.cand) /\ r.scheduled = rec.scheduled
        /\ r.failure = rec.failure
    BY <2>1, <2>2, SoundIs DEF Records
  <2> HIDE DEF r
  <2>4. \A k \in Doomed(r) : k \in Doomed(rec) \/ k \in Ring!KeysOf(rec.op.cand)
    BY <2>3 DEF Doomed
  <2>5. Keeps(r)
    BY <1>0, <2>3, <2>4, KeepsPreviousAlone
  <2> QED
    BY <2>5 DEF r
<1>2. CASE rec.lifecycle = "active_overlap"
  <2> DEFINE o == Ring!Overlapping(rec.op, FALSE, b)
  <2>1. /\ o.gen = rec.op.previous.gen /\ o.active = rec.op.previous.active
        /\ o.published = rec.op.previous.published \cup Ring!KeysOf(rec.op.cand)
    BY OverlapIs, Zenon
  <2>2. r = [rec EXCEPT !.lifecycle = "rollback_overlap", !.op.retireAfter = t, !.served = o]
    BY <1>2 DEF Ring!Rollback
  <2> HIDE DEF o
  <2>3. /\ r.lifecycle = "rollback_overlap" /\ r.served = o /\ r.pending = rec.pending
        /\ r.scheduled = rec.scheduled /\ r.failure = rec.failure /\ r.op.cand = rec.op.cand
        /\ r.op.previous = rec.op.previous /\ r.op.gen = rec.op.gen /\ r.op.kind = rec.op.kind
    BY <2>2, SoundIs, RecordFields DEF Records, Operations
  <2>4. Doomed(r) \subseteq Doomed(rec)
    BY <2>3 DEF Doomed
  <2> HIDE DEF r
  <2>5. Keeps(r)
    BY <1>0, <2>1, <2>3, <2>4, KeepsOverlap DEF Published, Running
  <2> QED
    BY <2>5 DEF r
<1> QED
  BY <1>1, <1>2

LEMMA KeepsRetirement ==
    ASSUME NEW w, Sound(w), rec.lifecycle \in {"active_overlap", "rollback_overlap"}, NEW b
    PROVE  Keeps(Ring!Retire(rec, b))
<1> DEFINE r == Ring!Retire(rec, b)
           f == Ring!Finished(rec, "retired_forward")
           g == Ring!Finished(rec, "retired_rollback")
<1>0. rec.op.kind = "rotate" /\ rec.op.verified = Ring!Algs /\ rec.op.previous # Ring!NoSnapshot
  BY OverlapKind DEF Published, Running
<1>1. /\ f.lifecycle = "ready" /\ f.op = Ring!NoOperation /\ f.scheduled = rec.scheduled
      /\ f.failure = rec.failure /\ DOMAIN f = DOMAIN rec
      /\ g.lifecycle = "ready" /\ g.op = Ring!NoOperation /\ g.scheduled = rec.scheduled
      /\ g.failure = rec.failure /\ DOMAIN g = DOMAIN rec
  BY SoundIs, FinishedLists
<1>2. r = IF rec.lifecycle = "active_overlap"
          THEN [f EXCEPT !.served = Ring!Generation(rec.op, b),
                         !.pending = Ring!KeysOf(rec.op.previous.active)]
          ELSE [g EXCEPT !.served = rec.op.previous, !.pending = Ring!KeysOf(rec.op.cand)]
  BY DEF Ring!Retire
<1> HIDE DEF f, g
<1>3. /\ r.lifecycle = "ready" /\ r.op = Ring!NoOperation /\ r.scheduled = rec.scheduled
      /\ r.failure = rec.failure
      /\ rec.lifecycle = "active_overlap" =>
           r.served = Ring!Generation(rec.op, b) /\ r.pending = Ring!KeysOf(rec.op.previous.active)
      /\ rec.lifecycle # "active_overlap" =>
           r.served = rec.op.previous /\ r.pending = Ring!KeysOf(rec.op.cand)
  BY <1>1, <1>2, SoundIs DEF Records
<1> HIDE DEF r
<1>4. CASE rec.lifecycle = "active_overlap"
  <2>1. rec.op.previous.published = Ring!KeysOf(rec.op.previous.active)
    BY SoundIs DEF InTurn
  <2>2. \A k \in Doomed(r) : k \in Doomed(rec) \/ k \in rec.op.previous.published
    BY <1>3, <1>4, <2>1 DEF Doomed
  <2>3. Keeps(r)
    BY <1>0, <1>3, <1>4, <2>2, KeepsCandidate
  <2> QED
    BY <2>3 DEF r
<1>5. CASE rec.lifecycle # "active_overlap"
  <2>1. \A k \in Doomed(r) : k \in Doomed(rec) \/ k \in Ring!KeysOf(rec.op.cand)
    BY <1>3, <1>5 DEF Doomed
  <2>2. Keeps(r)
    BY <1>0, <1>3, <1>5, <2>1, KeepsPreviousAlone
  <2> QED
    BY <2>2 DEF r
<1> QED
  BY <1>4, <1>5

LEMMA KeepsRevocation ==
    ASSUME NEW w, Sound(w), rec.lifecycle \in {"publishing", "active_overlap"}, NEW b
    PROVE  Keeps(Ring!EmergencyRevoke(rec, b))
<1> DEFINE r == Ring!EmergencyRevoke(rec, b)
           f == Ring!Finished(rec, "none")
<1>0. rec.op.verified = Ring!Algs
  BY OverlapKind DEF Published, Running
<1>1. /\ f.lifecycle = "ready" /\ f.op = Ring!NoOperation /\ f.scheduled = rec.scheduled
      /\ f.failure = rec.failure /\ DOMAIN f = DOMAIN rec
  BY SoundIs, FinishedLists
<1>2. r = [f EXCEPT !.served = Ring!Generation(rec.op, b), !.pending = rec.op.previous.published,
                    !.revoked = rec.op.id]
  BY DEF Ring!EmergencyRevoke
<1> HIDE DEF f
<1>3. /\ r.lifecycle = "ready" /\ r.op = Ring!NoOperation /\ r.scheduled = rec.scheduled
      /\ r.failure = rec.failure /\ r.served = Ring!Generation(rec.op, b)
      /\ r.pending = rec.op.previous.published
  BY <1>1, <1>2, SoundIs DEF Records
<1> HIDE DEF r
<1>4. \A k \in Doomed(r) : k \in Doomed(rec) \/ k \in rec.op.previous.published
  BY <1>3 DEF Doomed
<1>5. Keeps(r)
  BY <1>0, <1>3, <1>4, KeepsCandidate
<1> QED
  BY <1>5 DEF r

LEMMA KeepsPublication ==
    ASSUME NEW w, Sound(w), Preparing, rec.op.verified = Ring!Algs, NEW b,
           rec.op.kind \in {"onboard", "rotate"}
    PROVE  Keeps(Ring!PublishCandidate(rec, b))
<1> DEFINE r == Ring!PublishCandidate(rec, b)
<1>0. Ring!NoFailure.cleanup = {}
  BY DEF Ring!NoFailure
<1>1. CASE rec.op.kind = "onboard"
  <2> DEFINE f == Ring!Finished(rec, "onboarded")
  <2>1. r = [f EXCEPT !.served = Ring!Generation(rec.op, b), !.failure = Ring!NoFailure]
    BY <1>1 DEF Ring!PublishCandidate
  <2>2. /\ f.lifecycle = "ready" /\ f.op = Ring!NoOperation /\ f.scheduled = rec.scheduled
        /\ f.pending = rec.pending /\ DOMAIN f = DOMAIN rec
    BY SoundIs, FinishedLists
  <2> HIDE DEF f
  <2>3. /\ r.lifecycle = "ready" /\ r.op = Ring!NoOperation /\ r.served = Ring!Generation(rec.op, b)
        /\ r.pending = rec.pending /\ r.scheduled = rec.scheduled /\ r.failure = Ring!NoFailure
    BY <2>1, <2>2, SoundIs DEF Records
  <2> HIDE DEF r
  <2>4. \A k \in Doomed(r) : k \in Doomed(rec)
    BY <1>0, <2>3 DEF Doomed
  <2>5. Keeps(r)
    BY <2>3, <2>4, KeepsCandidate
  <2> QED
    BY <2>5 DEF r
<1>2. CASE rec.op.kind = "rotate"
  <2> DEFINE o == Ring!Overlapping(rec.op, FALSE, b)
  <2>1. /\ o.gen = rec.op.previous.gen /\ o.active = rec.op.previous.active
        /\ o.published = rec.op.previous.published \cup Ring!KeysOf(rec.op.cand)
    BY OverlapIs, Zenon
  <2>2. r = [rec EXCEPT !.lifecycle = "publishing", !.failure = Ring!NoFailure, !.served = o]
    BY <1>2 DEF Ring!PublishCandidate
  <2> HIDE DEF o
  <2>3. /\ r.lifecycle = "publishing" /\ r.served = o /\ r.pending = rec.pending
        /\ r.scheduled = rec.scheduled /\ r.failure = Ring!NoFailure /\ r.op = rec.op
    BY <2>2, SoundIs DEF Records
  <2> HIDE DEF r
  <2>4. Doomed(r) \subseteq Doomed(rec)
    BY <1>0, <2>3 DEF Doomed
  <2>5. Keeps(r)
    BY <1>2, <2>1, <2>3, <2>4, KeepsOverlap DEF Published, Running
  <2> QED
    BY <2>5 DEF r
<1> QED
  BY <1>1, <1>2

LEMMA KeepsFailure ==
    ASSUME NEW w, Sound(w), NEW d, d \cap rec.op.previous.published = {}
    PROVE  Keeps(Ring!FailOperation(rec, d))
<1> DEFINE r == Ring!FailOperation(rec, d)
<1>1. /\ r.lifecycle = IF rec.op.previous = Ring!NoSnapshot THEN "failed" ELSE "ready"
      /\ r.op = Ring!NoOperation /\ r.served = rec.op.previous /\ r.pending = rec.pending
      /\ r.scheduled = rec.scheduled /\ r.failure.cleanup = d \cup Ring!KeysOf(rec.op.cand)
  BY SoundIs DEF Ring!FailOperation, Records
<1> HIDE DEF r
<1>2. \A k \in Doomed(r) : k \in Doomed(rec) \/ k \in Ring!KeysOf(rec.op.cand) \/ k \in d
  BY <1>1 DEF Doomed
<1>3. Keeps(r)
  BY <1>1, <1>2, KeepsPrevious
<1> QED
  BY <1>3 DEF r

LEMMA KeepsTracking ==
    ASSUME NEW w, Sound(w)
    PROVE  /\ \A ks : ks \cap Live(rec) = {} => Keeps(Ring!TrackPendingDeletion(rec, ks))
           /\ Keeps(Ring!CleanupComplete(rec)) /\ Keeps(Ring!PendingDeletionsComplete(rec))
<1>1. ASSUME NEW ks, ks \cap Live(rec) = {}
      PROVE  Keeps(Ring!TrackPendingDeletion(rec, ks))
  <2> DEFINE r == Ring!TrackPendingDeletion(rec, ks)
  <2>1. /\ r.lifecycle = rec.lifecycle /\ r.served = rec.served /\ r.op = rec.op
        /\ r.scheduled = rec.scheduled /\ r.failure = rec.failure
        /\ r.pending = rec.pending \cup ks
    BY SoundIs DEF Ring!TrackPendingDeletion, Records
  <2> HIDE DEF r
  <2>2. \A k \in Doomed(r) : k \in Doomed(rec) \/ k \notin Live(rec)
    BY <1>1, <2>1 DEF Doomed
  <2>3. Keeps(r)
    BY <2>1, <2>2, KeepsSame
  <2> QED
    BY <2>3 DEF r
<1>2. Keeps(Ring!CleanupComplete(rec))
  <2> DEFINE r == Ring!CleanupComplete(rec)
  <2>1. /\ r.lifecycle = rec.lifecycle /\ r.served = rec.served /\ r.op = rec.op
        /\ r.scheduled = rec.scheduled /\ r.failure.cleanup = rec.failure.cleanup
        /\ r.pending = rec.pending
    BY SoundIs DEF Ring!CleanupComplete, Records, Failures
  <2> HIDE DEF r
  <2>2. \A k \in Doomed(r) : k \in Doomed(rec) \/ k \notin Live(rec)
    BY <2>1 DEF Doomed
  <2>3. Keeps(r)
    BY <2>1, <2>2, KeepsSame
  <2> QED
    BY <2>3 DEF r
<1>3. Keeps(Ring!PendingDeletionsComplete(rec))
  <2> DEFINE r == Ring!PendingDeletionsComplete(rec)
  <2>1. /\ r.lifecycle = rec.lifecycle /\ r.served = rec.served /\ r.op = rec.op
        /\ r.scheduled = rec.scheduled \cup rec.pending /\ r.failure = rec.failure
        /\ r.pending = {}
    BY SoundIs DEF Ring!PendingDeletionsComplete, Records
  <2> HIDE DEF r
  <2>2. \A k \in Doomed(r) : k \in Doomed(rec) \/ k \notin Live(rec)
    BY <2>1 DEF Doomed
  <2>3. Keeps(r)
    BY <2>1, <2>2, KeepsSame
  <2> QED
    BY <2>3 DEF r
<1> QED
  BY <1>1, <1>2, <1>3

-----------------------------------------------------------------------------
(* The commands. *)

LEMMA SafeEnsure ==
    ASSUME NEW w, Sound(w), Ring!EnsureTenant(w)
    PROVE  SafeInv'
<1>0. /\ Handles(w) /\ Tamed(w, Ring!Provisioning(w), rec)
      /\ \A r : Tamed(w, Ring!Provisioning(w), r)
  <2>1. Ring!Provisioning(w).pc = "get"
    BY SoundIs DEF Ring!Provisioning, Locals
  <2> QED
    BY <2>1, SoundIs, HandlesNothing, TamedIdle DEF Ring!EnsureTenant
<1>1. CASE rec = Ring!NoRecord
        /\ Ring!Commit(w, Ring!BeginOnboarding(work[w].op), Ring!Provisioning(w))
  <2> DEFINE r == Ring!BeginOnboarding(work[w].op)
  <2>1. /\ r.lifecycle # "ready" /\ r.served = Ring!NoSnapshot
        /\ r.op = Ring!Operation(work[w].op, "onboard", 1, Ring!NoSnapshot)
    BY DEF Ring!BeginOnboarding
  <2> HIDE DEF r
  <2>2. Keeps(r)
    BY <2>1, KeepsNothing
  <2> QED
    BY <1>0, <1>1, <2>2, SafeWrite DEF r
<1>2. CASE Ring!Step(w, Ring!Compensating(w, rec.failure.cleanup, "ensure"))
  <2>1. Tamed(w, Ring!Compensating(w, rec.failure.cleanup, "ensure"), rec)
    BY TamedDeleting DEF Doomed
  <2> QED
    BY <1>0, <1>2, <2>1, SafeRead
<1>3. CASE Ring!CanRetryOnboarding(rec)
        /\ Ring!Commit(w, Ring!RetryOnboarding(rec, work[w].op), Ring!Provisioning(w))
  <2> DEFINE r == Ring!RetryOnboarding(rec, work[w].op)
  <2>1. /\ r.lifecycle # "ready" /\ r.served = rec.served
        /\ r.op = Ring!Operation(work[w].op, "onboard", 1, Ring!NoSnapshot)
    BY SoundIs DEF Ring!RetryOnboarding, Records
  <2>2. rec.served = Ring!NoSnapshot
    BY <1>3 DEF Ring!CanRetryOnboarding, Ring!Served
  <2> HIDE DEF r
  <2>3. Keeps(r)
    BY <2>1, <2>2, KeepsNothing
  <2> QED
    BY <1>0, <1>3, <2>3, SafeWrite DEF r
<1>4. CASE Ring!Step(w, Ring!Provisioning(w))
  BY <1>0, <1>4, SafeRead
<1>5. CASE Ring!Stop(w)
  BY <1>0, <1>5, SafeStop
<1> QED
  BY <1>1, <1>2, <1>3, <1>4, <1>5, Zenon DEF Ring!EnsureTenant

LEMMA SafeRotate ==
    ASSUME NEW w, Sound(w), Ring!RotateTenant(w)
    PROVE  SafeInv'
<1>0. Handles(w) /\ \A r : Tamed(w, Ring!Provisioning(w), r)
  <2>1. Ring!Provisioning(w).pc = "get"
    BY SoundIs DEF Ring!Provisioning, Locals
  <2> QED
    BY <2>1, SoundIs, HandlesNothing, TamedIdle DEF Ring!RotateTenant
<1>1. CASE Ring!Step(w, Ring!Deleting(w, rec.pending, "rotate"))
  <2>1. Tamed(w, Ring!Deleting(w, rec.pending, "rotate"), rec)
    BY TamedDeleting DEF Doomed
  <2> QED
    BY <1>0, <1>1, <2>1, SafeRead
<1>2. CASE Ring!Step(w, Ring!Compensating(w, rec.failure.cleanup, "rotate"))
  <2>1. Tamed(w, Ring!Compensating(w, rec.failure.cleanup, "rotate"), rec)
    BY TamedDeleting DEF Doomed
  <2> QED
    BY <1>0, <1>2, <2>1, SafeRead
<1>3. CASE rec.lifecycle = "ready"
        /\ Ring!Commit(w, Ring!BeginRotation(rec, work[w].op), Ring!Provisioning(w))
  <2> DEFINE r == Ring!BeginRotation(rec, work[w].op)
  <2>1. /\ r.lifecycle = "provisioning" /\ r.served = rec.served
        /\ r.op = Ring!Operation(work[w].op, "rotate", rec.served.gen + 1, rec.served)
        /\ r.pending = rec.pending /\ r.scheduled = rec.scheduled /\ r.failure = rec.failure
    BY SoundIs DEF Ring!BeginRotation, Records
  <2> HIDE DEF r
  <2>2. Doomed(r) = Doomed(rec)
    BY <2>1 DEF Doomed
  <2>3. Keeps(r)
    BY <1>3, <2>1, <2>2, KeepsRotation
  <2> QED
    BY <1>0, <1>3, <2>3, SafeWrite DEF r
<1>4. CASE Ring!Step(w, Ring!Provisioning(w))
  BY <1>0, <1>4, SafeRead
<1>5. CASE Ring!Stop(w)
  BY <1>0, <1>5, SafeStop
<1> QED
  BY <1>1, <1>2, <1>3, <1>4, <1>5, Zenon DEF Ring!RotateTenant

LEMMA SafeActivate ==
    ASSUME NEW w, Sound(w), Ring!ActivateTenant(w)
    PROVE  SafeInv'
<1> DEFINE r == Ring!ActivateCandidate(rec, work[w].start, work[w].start + Overlap)
<1>0. Handles(w) /\ Tamed(w, Ring!Stopped, r)
  BY SoundIs, HandlesNothing, TamedIdle DEF Ring!ActivateTenant, Ring!Stopped
<1>1. CASE Ring!Stop(w)
  BY <1>0, <1>1, SafeStop
<1>2. CASE Ring!CanActivate(rec, work[w].op) /\ Ring!Commit(w, r, Ring!Stopped)
  BY <1>0, <1>2, KeepsActivation, SafeWrite DEF Ring!CanActivate
<1> QED
  BY <1>1, <1>2, Zenon DEF Ring!ActivateTenant

LEMMA SafeRollback ==
    ASSUME NEW w, Sound(w), Ring!RollbackTenant(w)
    PROVE  SafeInv'
<1> DEFINE r == Ring!Rollback(rec, work[w].start, work[w].start + Overlap)
<1>0. Handles(w)
  BY SoundIs, HandlesNothing DEF Ring!RollbackTenant
<1>1. CASE Ring!CleanUp(w)
  BY <1>0, <1>1, SafeCleanUp
<1>2. CASE Ring!Stop(w)
  BY <1>0, <1>2, SafeStop
<1>3. CASE Ring!CanRollback(rec, work[w].op) /\ Ring!CommitAndCleanUp(w, r)
  BY <1>0, <1>3, KeepsRollback, SafeCommitAndCleanUp DEF Ring!CanRollback
<1> QED
  BY <1>1, <1>2, <1>3, Zenon DEF Ring!RollbackTenant

LEMMA SafeRetire ==
    ASSUME NEW w, Sound(w), Ring!RetireTenant(w)
    PROVE  SafeInv'
<1> DEFINE r == Ring!Retire(rec, work[w].start)
<1>0. Handles(w)
  BY SoundIs, HandlesNothing DEF Ring!RetireTenant
<1>1. CASE Ring!CleanUp(w)
  BY <1>0, <1>1, SafeCleanUp
<1>2. CASE Ring!Stop(w)
  BY <1>0, <1>2, SafeStop
<1>3. CASE Ring!CanRetire(rec, work[w].op, work[w].start) /\ Ring!CommitAndCleanUp(w, r)
  BY <1>0, <1>3, KeepsRetirement, SafeCommitAndCleanUp DEF Ring!CanRetire
<1> QED
  BY <1>1, <1>2, <1>3, Zenon DEF Ring!RetireTenant

LEMMA SafeRevoke ==
    ASSUME NEW w, Sound(w), Ring!EmergencyRevokeTenant(w)
    PROVE  SafeInv'
<1> DEFINE r == Ring!EmergencyRevoke(rec, work[w].start)
<1>0. Handles(w)
  BY SoundIs, HandlesNothing DEF Ring!EmergencyRevokeTenant
<1>1. CASE Ring!CleanUp(w)
  BY <1>0, <1>1, SafeCleanUp
<1>2. CASE Ring!Stop(w)
  BY <1>0, <1>2, SafeStop
<1>3. CASE Ring!CanEmergencyRevoke(rec, work[w].op) /\ Ring!CommitAndCleanUp(w, r)
  BY <1>0, <1>3, KeepsRevocation, SafeCommitAndCleanUp DEF Ring!CanEmergencyRevoke
<1> QED
  BY <1>1, <1>2, <1>3, Zenon DEF Ring!EmergencyRevokeTenant

LEMMA SafeOffboard ==
    ASSUME NEW w, Sound(w), Ring!OffboardTenant(w)
    PROVE  SafeInv'
<1> DEFINE r == IF rec = Ring!NoRecord THEN Ring!BeginOnboarding(work[w].op) ELSE rec
           closed == Ring!BeginOffboarding(r, work[w].op)
           discovering(pending) ==
               [work[w] EXCEPT !.pc = "discover", !.todo = pending, !.fresh = TRUE]
<1>0. Handles(w) /\ work[w] \in Locals
  BY SoundIs, HandlesNothing DEF Ring!OffboardTenant
<1>1. ASSUME NEW n
      PROVE  Tamed(w, discovering(n.pending), n)
  BY <1>0 DEF Tamed, Taking, Doomed, Locals
<1>2. CASE Ring!Stop(w)
  BY <1>0, <1>2, SafeStop
<1>3. CASE Ring!Step(w, discovering(rec.pending))
  BY <1>0, <1>1, <1>3, SafeRead
<1>4. CASE Ring!Commit(w, closed, discovering(closed.pending))
  <2>1. r \in Records
    BY SoundIs, BeginOnboardingIs DEF Locals
  <2> HIDE DEF r
  <2>2. closed.lifecycle = "offboarding" /\ closed.served = Ring!NoSnapshot
          /\ closed.op = Ring!NoOperation
    BY <2>1 DEF Ring!BeginOffboarding, Records
  <2> HIDE DEF closed
  <2>3. Keeps(closed)
    BY <2>2, KeepsNothing
  <2>4. Tamed(w, discovering(closed.pending), closed)
    BY <1>1
  <2> HIDE DEF discovering
  <2> QED
    BY <1>0, <1>4, <2>3, <2>4, SafeWrite
<1> QED
  BY <1>2, <1>3, <1>4, Zenon DEF Ring!OffboardTenant

LEMMA SafeReconcile ==
    ASSUME NEW w, Sound(w), Ring!ReconcileTenant(w)
    PROVE  SafeInv'
<1> DEFINE ensuring == [work[w] EXCEPT !.pc = "ensure", !.op = OnboardOp]
           sweeping == [work[w] EXCEPT !.pc = "sweep"]
           turned == Ring!Rollback(rec, work[w].start, work[w].start + Overlap)
           retired == Ring!Retire(rec, work[w].start)
<1>0. /\ Handles(w) /\ Tamed(w, Ring!Provisioning(w), rec)
      /\ Tamed(w, ensuring, rec) /\ Tamed(w, sweeping, rec)
  <2>1. Ring!Provisioning(w).pc = "get" /\ ensuring.pc = "ensure" /\ sweeping.pc = "sweep"
    BY SoundIs DEF Ring!Provisioning, Locals
  <2> HIDE DEF ensuring, sweeping
  <2> QED
    BY <2>1, SoundIs, HandlesNothing, TamedIdle DEF Ring!ReconcileTenant
<1>1. CASE Ring!Step(w, ensuring)
  BY <1>0, <1>1, SafeRead
<1>2. CASE Ring!Stop(w)
  BY <1>0, <1>2, SafeStop
<1>3. CASE Ring!CleanUp(w)
  BY <1>0, <1>3, SafeCleanUp
<1>4. CASE Ring!Step(w, Ring!Compensating(w, rec.failure.cleanup, "idle"))
  <2>1. Tamed(w, Ring!Compensating(w, rec.failure.cleanup, "idle"), rec)
    BY TamedDeleting DEF Doomed
  <2> QED
    BY <1>0, <1>4, <2>1, SafeRead
<1>5. CASE Ring!Step(w, Ring!Provisioning(w))
  BY <1>0, <1>5, SafeRead
<1>6. CASE rec.lifecycle = "publishing" /\ Ring!CommitAndCleanUp(w, turned)
  BY <1>0, <1>6, KeepsRollback, SafeCommitAndCleanUp
<1>7. CASE /\ rec.lifecycle \in {"active_overlap", "rollback_overlap"}
           /\ Ring!CommitAndCleanUp(w, retired)
  BY <1>0, <1>7, KeepsRetirement, SafeCommitAndCleanUp
<1>8. CASE Ring!Goto(w, "sweep")
  <2>1. Ring!Step(w, sweeping)
    BY <1>8 DEF Ring!Goto
  <2> HIDE DEF sweeping
  <2> QED
    BY <1>0, <2>1, SafeRead
<1> QED
  BY <1>1, <1>2, <1>3, <1>4, <1>5, <1>6, <1>7, <1>8, Zenon DEF Ring!ReconcileTenant

-----------------------------------------------------------------------------
(* Provisioning. *)

LEMMA SafeGet ==
    ASSUME NEW w, Sound(w), Ring!ProvisionGet(w)
    PROVE  SafeInv'
<1> DEFINE l == work[w]
           got == IF l.alg = 1
                  THEN [l EXCEPT !.op = rec.op.id, !.gen = rec.op.gen, !.fresh = TRUE]
                  ELSE [l EXCEPT !.fresh = TRUE]
           k == [got EXCEPT !.pc = IF rec.op.cand[l.alg] = NoKey THEN "find" ELSE "reget"]
<1>0. Handles(w) /\ l \in Locals
  BY SoundIs, HandlesNothing DEF Ring!ProvisionGet
<1>1. CASE Ring!Stop(w)
  BY <1>0, <1>1, SafeStop
<1>2. CASE Ring!Step(w, k)
  <2>1. k.pc \in {"find", "reget"}
    BY <1>0 DEF Locals
  <2> HIDE DEF k
  <2>2. Tamed(w, k, rec)
    BY <2>1, TamedIdle
  <2> QED
    BY <1>0, <1>2, <2>2, SafeRead
<1> QED
  BY <1>1, <1>2, Zenon DEF Ring!ProvisionGet

\* The duplicates of a candidate are not keys of the generation before.
LEMMA SafeFail ==
    ASSUME NEW w, Sound(w), Handles(w), NEW d, Ring!FailCurrent(w, d),
           Ring!OpRuns(rec, work[w].op) => d \cap rec.op.previous.published = {}
    PROVE  SafeInv'
<1> DEFINE r == Ring!FailOperation(rec, d)
<1>1. CASE Ring!Stop(w)
  BY <1>1, SafeStop
<1>2. CASE /\ Ring!OpRuns(rec, work[w].op)
           /\ \/ Ring!Commit(w, r, Ring!Compensating(w, r.failure.cleanup, "idle"))
              \/ Ring!Commit(w, r, Ring!Stopped)
  <2>1. Keeps(r)
    BY <1>2, KeepsFailure
  <2>2. Tamed(w, Ring!Stopped, r)
    BY TamedIdle DEF Ring!Stopped
  <2> HIDE DEF r
  <2>3. Tamed(w, Ring!Compensating(w, r.failure.cleanup, "idle"), r)
    BY TamedDeleting DEF Doomed
  <2> QED
    BY <1>2, <2>1, <2>2, <2>3, SafeWrite
<1> QED
  BY <1>1, <1>2, Zenon DEF Ring!FailCurrent

LEMMA SafeFind ==
    ASSUME NEW w, Sound(w), OneRun, Ring!FindKey(w)
    PROVE  SafeInv'
<1> DEFINE l == work[w]
           found == Ring!Tagged(l.op, l.gen, l.alg)
<1>0. /\ Handles(w) /\ l \in Locals /\ kms' = kms /\ Ring!At(w, "find")
      /\ \A k \in found : /\ k \in Keys /\ kms[k].state # "absent" /\ kms[k].op = l.op
                          /\ kms[k].gen = l.gen /\ kms[k].alg = l.alg
  BY SoundIs, HandlesNothing DEF Ring!FindKey, Ring!Tagged, SafeInv, WindowInv, KeyTypes
<1> HIDE DEF found
<1>1. CASE Ring!Goto(w, "create")
  <2> DEFINE k == [l EXCEPT !.pc = "create"]
  <2>1. k.pc = "create" /\ Ring!Step(w, k)
    BY <1>0, <1>1 DEF Locals, Ring!Goto
  <2> HIDE DEF k
  <2>2. Tamed(w, k, rec)
    BY <2>1, TamedIdle
  <2> QED
    BY <1>0, <2>1, <2>2, SafeRead
<1>2. ASSUME NEW key \in found, Ring!Step(w, [l EXCEPT !.pc = "record", !.key = key])
      PROVE  SafeInv'
  <2> DEFINE k == [l EXCEPT !.pc = "record", !.key = key]
  <2>1. /\ k.pc = "record" /\ k.key = key /\ k.op = l.op /\ k.gen = l.gen /\ k.alg = l.alg
    BY <1>0 DEF Locals
  <2> HIDE DEF k
  <2>2. Tamed(w, k, rec)
    BY <1>0, <2>1 DEF Tamed, Taking
  <2> QED
    BY <1>0, <1>2, <2>2, SafeRead DEF k
<1>3. CASE Ring!FailCurrent(w, found)
  <2>1. ASSUME Ring!OpRuns(rec, l.op)
        PROVE  found \cap rec.op.previous.published = {}
    <3>1. l.gen = rec.op.gen
      BY <1>0, <2>1, SoundIs DEF OneRun
    <3> QED
      BY <1>0, <3>1, ApartIs
  <2> QED
    BY <1>0, <1>3, <2>1, SafeFail
<1> QED
  BY <1>1, <1>2, <1>3, Zenon DEF Ring!FindKey, found

LEMMA SafeCreate ==
    ASSUME NEW w, Sound(w), Ring!CreateKey(w)
    PROVE  SafeInv'
<1> DEFINE l == work[w]
           fresh == CHOOSE k \in Ring!Unused : TRUE
           k == [l EXCEPT !.pc = "record", !.key = fresh]
<1>0. /\ l \in Locals /\ indexed' = indexed /\ KeyTypes
      /\ \A j \in indexed : kms[j].state # "absent"
  BY SoundIs DEF Ring!CreateKey, WindowInv, SafeInv
<1>1. CASE Ring!Stop(w) /\ UNCHANGED kms
  BY <1>0, <1>1, SoundIs, HandlesNothing, SafeStop
<1>2. CASE /\ Ring!Unused # {} /\ Ring!Step(w, k)
           /\ kms' = [kms EXCEPT ![fresh] = [state |-> "enabled", op |-> l.op, gen |-> l.gen,
                                             alg |-> l.alg]]
  <2>1. fresh \in Keys /\ kms[fresh].state = "absent"
    BY <1>2 DEF Ring!Unused
  <2> HIDE DEF fresh
  <2>2. Handles(w)
    BY <1>0, <1>2, <2>1 DEF Handles, Gone, KeyTypes
  <2>3. /\ k.pc = "record" /\ k.key = fresh /\ k.op = l.op /\ k.gen = l.gen /\ k.alg = l.alg
    BY <1>0 DEF Locals
  <2> HIDE DEF k
  <2>4. /\ kms'[fresh].state = "enabled" /\ kms'[fresh].op = l.op /\ kms'[fresh].gen = l.gen
        /\ kms'[fresh].alg = l.alg
    BY <1>0, <1>2, <2>1 DEF KeyTypes
  <2>5. Tamed(w, k, rec)
    BY <2>1, <2>3, <2>4 DEF Tamed, Taking
  <2> QED
    BY <1>2, <2>2, <2>5, SafeRead
<1> QED
  BY <1>1, <1>2, Zenon DEF Ring!CreateKey

\* The key that is recorded is nobody's to delete.
LEMMA SafeRecord ==
    ASSUME NEW w, Sound(w), RecordsSpared, OneRun, Ring!RecordKey(w)
    PROVE  SafeInv'
<1> DEFINE l == work[w]
           r == Ring!RecordCreatedKey(rec, l.alg, l.key)
           k == [l EXCEPT !.pc = "reget", !.fresh = FALSE]
           j == [l EXCEPT !.pc = "lost"]
<1>0. /\ Handles(w) /\ l \in Locals /\ Ring!At(w, "record") /\ w \in Workers /\ l.pc = "record"
      /\ UNCHANGED <<kms, indexed>> /\ KeyAssumptions /\ rec \in Records
  BY SoundIs, HandlesNothing DEF Ring!RecordKey, Ring!At
<1>1. CASE Ring!Stop(w)
  BY <1>0, <1>1, SafeStop
<1>2. CASE Ring!Goto(w, "lost")
  <2>1. j.pc = "lost" /\ Ring!Step(w, j)
    BY <1>0, <1>2 DEF Locals, Ring!Goto
  <2> HIDE DEF j
  <2>2. Tamed(w, j, rec)
    BY <2>1, TamedIdle
  <2> QED
    BY <1>0, <2>1, <2>2, SafeRead
<1>3. CASE l.fresh /\ Ring!CanRecordCreatedKey(rec, l.op, l.alg) /\ Ring!Commit(w, r, k)
  <2>1. Ring!OpRuns(rec, l.op) /\ rec.op.cand[l.alg] = NoKey
    BY <1>3 DEF Ring!CanRecordCreatedKey
  <2>2. Spared(l.key)
    BY <1>0, <1>3 DEF RecordsSpared
  <2>3. l.gen = rec.op.gen
    BY <1>0, <2>1 DEF OneRun
  <2>4. Made(l.key, rec.op.gen, l.alg)
    BY <1>0, <2>3, SoundIs DEF SafeInv, Holding
  <2>5. /\ r.lifecycle = rec.lifecycle /\ r.served = rec.served /\ r.pending = rec.pending
        /\ r.scheduled = rec.scheduled /\ r.failure = rec.failure
        /\ r.op.previous = rec.op.previous /\ r.op.gen = rec.op.gen /\ r.op.kind = rec.op.kind
        /\ r.op.cand = [rec.op.cand EXCEPT ![l.alg] = l.key]
    BY <1>0, RecordFields DEF Ring!RecordCreatedKey, Records, Operations
  <2> HIDE DEF r
  <2>6. /\ rec' = r
        /\ work' = [v \in Workers |-> IF v = w THEN k ELSE [work[v] EXCEPT !.fresh = FALSE]]
    BY <1>3 DEF Ring!Commit
  <2>7. \A a \in Ring!Algs : r.op.cand[a] = rec.op.cand[a] \/ (a = l.alg /\ r.op.cand[a] = l.key)
    BY <1>0, <2>5, RecordFields
  <2>8. Whole(r)
    BY <2>4, <2>5, <2>7, SoundIs DEF Whole
  <2>9. InTurn(r)
    BY <2>5, SoundIs DEF InTurn
  <2>10. Live(r) \subseteq Live(rec) \cup {l.key} /\ Doomed(r) = Doomed(rec)
    <3>1. Ring!KeysOf(r.op.cand) \subseteq Ring!KeysOf(rec.op.cand) \cup {l.key}
      BY <2>7 DEF Ring!KeysOf
    <3> QED
      BY <2>5, <3>1 DEF Live, Doomed
  <2>11. \A i \in Live(r) : i \notin Doomed(r) /\ Spared(i)
    BY <2>2, <2>10, SoundIs DEF SafeInv, Spared
  <2>12. k.pc = "reget"
    BY <1>0 DEF Locals
  <2> HIDE DEF k
  <2>13. Tamed(w, k, r)
    BY <2>12, TamedIdle
  <2>14. work'[w] = k
    BY <1>0, <2>6
  <2> QED
    BY <1>0, <2>6, <2>8, <2>9, <2>11, <2>13, <2>14, SoundIs, SafeKept
<1> QED
  BY <1>1, <1>2, <1>3, Zenon DEF Ring!RecordKey

LEMMA SafeLost ==
    ASSUME NEW w, Sound(w), Ring!HandleCasLosingKey(w)
    PROVE  SafeInv'
<1> DEFINE r == Ring!TrackPendingDeletion(rec, {work[w].key})
<1>0. Handles(w)
  BY SoundIs, HandlesNothing DEF Ring!HandleCasLosingKey
<1>1. CASE Ring!Stop(w)
  BY <1>0, <1>1, SafeStop
<1>2. CASE Ring!CleanUp(w)
  BY <1>0, <1>2, SafeCleanUp
<1>3. CASE work[w].key \notin Ring!References(rec) \cup rec.scheduled /\ Ring!CommitAndCleanUp(w, r)
  <2>1. {work[w].key} \cap Live(rec) = {}
    BY <1>3, LiveIs
  <2>2. Keeps(r)
    BY <2>1, KeepsTracking
  <2> QED
    BY <1>0, <1>3, <2>2, SafeCommitAndCleanUp
<1> QED
  BY <1>1, <1>2, <1>3, Zenon DEF Ring!HandleCasLosingKey

\* Steps that only read, and take nothing.
LEMMA SafeReads ==
    ASSUME NEW w, Sound(w), Ring!ProvisionReget(w) \/ Ring!FindOrphans(w) \/ Ring!Sweep(w)
             \/ Ring!ProbeSucceeds(w)
    PROVE  SafeInv'
<1> DEFINE l == work[w]
<1>0. Handles(w) /\ l \in Locals
  BY SoundIs, HandlesNothing DEF Ring!ProvisionReget, Ring!FindOrphans, Ring!Sweep,
  Ring!ProbeSucceeds
<1>1. CASE Ring!Stop(w)
  BY <1>0, <1>1, SafeStop
<1>2. CASE \E k : k.pc \in {"orphans", "persist", "verify"} /\ Ring!Step(w, k)
  BY <1>0, <1>2, TamedIdle, SafeRead
<1>3. ASSUME Ring!ProvisionReget(w)
      PROVE  Ring!Stop(w) \/ \E k : k.pc \in {"orphans", "persist", "verify"} /\ Ring!Step(w, k)
  <2> DEFINE k == [l EXCEPT !.pc = "orphans", !.key = rec.op.cand[l.alg], !.fresh = TRUE,
                            !.after = IF l.alg \in rec.op.verified THEN "get" ELSE "probe"]
  <2>1. Ring!Stop(w) \/ Ring!Step(w, k)
    BY <1>3, Zenon DEF Ring!ProvisionReget
  <2>2. k.pc = "orphans"
    BY <1>0 DEF Locals
  <2> HIDE DEF k
  <2> QED
    BY <2>1, <2>2
<1>4. ASSUME Ring!FindOrphans(w)
      PROVE  \E k : k.pc \in {"orphans", "persist", "verify"} /\ Ring!Step(w, k)
  <2> DEFINE k == [l EXCEPT !.pc = "persist", !.todo = Ring!Tagged(l.op, l.gen, l.alg) \ {l.key}]
  <2>1. k.pc = "persist" /\ Ring!Step(w, k)
    BY <1>0, <1>4 DEF Ring!FindOrphans, Locals
  <2> HIDE DEF k
  <2> QED
    BY <2>1
<1>5. ASSUME Ring!Sweep(w)
      PROVE  \E k : k.pc \in {"orphans", "persist", "verify"} /\ Ring!Step(w, k)
  <2> DEFINE k == [l EXCEPT !.pc = "persist", !.todo = indexed, !.after = "idle"]
  <2>1. k.pc = "persist" /\ Ring!Step(w, k)
    BY <1>0, <1>5 DEF Ring!Sweep, Locals
  <2> HIDE DEF k
  <2> QED
    BY <2>1
<1>6. ASSUME Ring!ProbeSucceeds(w)
      PROVE  \E k : k.pc \in {"orphans", "persist", "verify"} /\ Ring!Step(w, k)
  BY <1>0, <1>6 DEF Ring!ProbeSucceeds, Ring!Goto, Locals
<1> QED
  BY <1>1, <1>2, <1>3, <1>4, <1>5, <1>6

LEMMA SafePersist ==
    ASSUME NEW w, Sound(w), Ring!PersistOrphans(w)
    PROVE  SafeInv'
<1> DEFINE l == work[w]
           unknown == l.todo \ Ring!Tracks(rec)
           r == Ring!TrackPendingDeletion(rec, unknown)
           j == [l EXCEPT !.pc = "probe", !.todo = {}]
<1>0. Handles(w) /\ l \in Locals /\ l.pc = "persist" /\ l.after \in {"idle", "get", "probe"}
  BY SoundIs, HandlesNothing DEF Ring!PersistOrphans, Ring!At, Fit
<1>1. CASE Ring!Stop(w)
  BY <1>0, <1>1, SafeStop
<1>2. CASE Ring!Step(w, j)
  <2>1. j.pc = "probe"
    BY <1>0 DEF Locals
  <2> HIDE DEF j
  <2>2. Tamed(w, j, rec)
    BY <2>1, TamedIdle
  <2> QED
    BY <1>0, <1>2, <2>2, SafeRead
<1>3. CASE Ring!Step(w, Ring!Resumed(l))
  <2>1. Ring!Resumed(l).pc = l.after
    BY <1>0 DEF Ring!Resumed, Locals
  <2>2. Tamed(w, Ring!Resumed(l), rec)
    BY <1>0, <2>1, TamedIdle
  <2> QED
    BY <1>0, <1>3, <2>2, SafeRead
<1>4. CASE Ring!Commit(w, r, Ring!Deleting(w, r.pending, l.after))
  <2>1. unknown \cap Live(rec) = {}
    BY LiveIs DEF Ring!Tracks
  <2>2. Keeps(r)
    BY <2>1, KeepsTracking
  <2> HIDE DEF r
  <2>3. Tamed(w, Ring!Deleting(w, r.pending, l.after), r)
    BY TamedDeleting DEF Doomed
  <2> QED
    BY <1>0, <1>4, <2>2, <2>3, SafeWrite
<1> QED
  BY <1>1, <1>2, <1>3, <1>4, Zenon DEF Ring!PersistOrphans

LEMMA SafeProbeFails ==
    ASSUME NEW w, Sound(w), Ring!ProbeFails(w)
    PROVE  SafeInv'
<1>1. Handles(w) /\ Ring!FailCurrent(w, {})
  BY SoundIs, HandlesNothing DEF Ring!ProbeFails
<1>2. {} \cap rec.op.previous.published = {}
  OBVIOUS
<1> QED
  BY <1>1, <1>2, SafeFail

LEMMA SafeReplica ==
    ASSUME NEW w, Sound(w), Ring!ProbeReplicaPending(w)
    PROVE  SafeInv'
<1> DEFINE r == Ring!RecordReadiness(rec, work[w].alg)
<1>1. Handles(w) /\ Ring!Commit(w, r, Ring!Stopped)
  BY SoundIs, HandlesNothing DEF Ring!ProbeReplicaPending
<1>2. /\ r.lifecycle = rec.lifecycle /\ r.served = rec.served /\ r.pending = rec.pending
      /\ r.scheduled = rec.scheduled /\ r.failure = rec.failure
      /\ r.op.previous = rec.op.previous /\ r.op.gen = rec.op.gen /\ r.op.kind = rec.op.kind
      /\ r.op.cand = rec.op.cand
  BY SoundIs, RecordFields DEF Ring!RecordReadiness, Records, Operations
<1> HIDE DEF r
<1>3. Doomed(r) = Doomed(rec)
  BY <1>2 DEF Doomed
<1>4. Keeps(r)
  BY <1>2, <1>3, KeepsSame
<1>5. Tamed(w, Ring!Stopped, r)
  BY TamedIdle DEF Ring!Stopped
<1> QED
  BY <1>1, <1>4, <1>5, SafeWrite

LEMMA SafeVerify ==
    ASSUME NEW w, Sound(w), Ring!RecordVerifiedKey(w)
    PROVE  SafeInv'
<1> DEFINE l == work[w]
           r == Ring!RecordVerified(rec, l.alg)
           k == Ring!Resumed([l EXCEPT !.after = "get"])
<1>0. Handles(w) /\ l \in Locals
  BY SoundIs, HandlesNothing DEF Ring!RecordVerifiedKey
<1>1. CASE Ring!Stop(w)
  BY <1>0, <1>1, SafeStop
<1>2. CASE Ring!Commit(w, r, k)
  <2>1. /\ r.lifecycle = rec.lifecycle /\ r.served = rec.served /\ r.pending = rec.pending
        /\ r.scheduled = rec.scheduled /\ r.failure = rec.failure
        /\ r.op.previous = rec.op.previous /\ r.op.gen = rec.op.gen /\ r.op.kind = rec.op.kind
        /\ r.op.cand = rec.op.cand
    BY SoundIs, RecordFields DEF Ring!RecordVerified, Records, Operations
  <2>2. k.pc = "get"
    BY <1>0 DEF Ring!Resumed, Locals
  <2> HIDE DEF r, k
  <2>3. Doomed(r) = Doomed(rec)
    BY <2>1 DEF Doomed
  <2>4. Keeps(r)
    BY <2>1, <2>3, KeepsSame
  <2>5. Tamed(w, k, r)
    BY <2>2, TamedIdle
  <2> QED
    BY <1>0, <1>2, <2>4, <2>5, SafeWrite
<1> QED
  BY <1>1, <1>2, Zenon DEF Ring!RecordVerifiedKey

LEMMA SafePublish ==
    ASSUME NEW w, Sound(w), Ring!PublishGeneration(w)
    PROVE  SafeInv'
<1> DEFINE r == Ring!PublishCandidate(rec, now)
<1>0. Handles(w) /\ Ring!At(w, "get") /\ Busy(w)
  BY SoundIs, HandlesNothing DEF Ring!PublishGeneration
<1>1. CASE Ring!Stop(w)
  BY <1>0, <1>1, SafeStop
<1>2. CASE Ring!CanPublish(rec, work[w].op) /\ Ring!Commit(w, r, Ring!Stopped)
  <2>1. Ring!OpRuns(rec, work[w].op) /\ rec.op.verified = Ring!Algs
    BY <1>2 DEF Ring!CanPublish, Ring!Complete
  <2>2. OnGeneration(work[w])
    BY <1>0 DEF OnGeneration, Ring!At
  <2>3. Preparing /\ rec.op.kind \in {"onboard", "rotate"}
    BY <1>0, <2>1, <2>2, Generating, RunsIs
  <2>4. Keeps(r)
    BY <2>1, <2>3, KeepsPublication
  <2>5. Tamed(w, Ring!Stopped, r)
    BY TamedIdle DEF Ring!Stopped
  <2> QED
    BY <1>0, <1>2, <2>4, <2>5, SafeWrite
<1> QED
  BY <1>1, <1>2, Zenon DEF Ring!PublishGeneration

-----------------------------------------------------------------------------
(* Deletions. *)

LEMMA SafeSchedule ==
    ASSUME NEW w, Sound(w), NEW key \in Keys, Ring!ScheduleDeletion(w, key)
    PROVE  SafeInv'
<1> DEFINE l == work[w]
           k == [l EXCEPT !.todo = @ \ {key}]
<1>0. /\ l \in Locals /\ l.pc \in {"delete", "compensate"} /\ key \in l.todo
      /\ kms' = [kms EXCEPT ![key].state = "deleting"] /\ indexed' = indexed /\ KeyTypes
      /\ \A j \in indexed : kms[j].state # "absent"
  BY SoundIs DEF Ring!ScheduleDeletion, WindowInv, SafeInv
<1>1. /\ \A j \in Keys : j # key => kms'[j] = kms[j]
      /\ kms'[key].state = "deleting" /\ kms'[key].op = kms[key].op
      /\ kms'[key].gen = kms[key].gen /\ kms'[key].alg = kms[key].alg
  BY <1>0 DEF KeyTypes
<1>2. Handles(w)
  BY <1>0, <1>1 DEF Handles, Gone, Taking, KeyTypes
<1>3. /\ Ring!Step(w, k) /\ k.pc = l.pc /\ k.todo = l.todo \ {key}
  BY <1>0 DEF Ring!ScheduleDeletion, Locals
<1> HIDE DEF k
<1>4. Tamed(w, k, rec)
  BY <1>0, <1>3 DEF Tamed, Taking
<1> QED
  BY <1>2, <1>3, <1>4, SafeRead

LEMMA SafeDeleted ==
    ASSUME NEW w, Sound(w), Ring!DeletionsDone(w) \/ Ring!CompensationDone(w)
    PROVE  SafeInv'
<1> DEFINE l == work[w]
<1>0. Handles(w) /\ l \in Locals
  BY SoundIs, HandlesNothing DEF Ring!DeletionsDone, Ring!CompensationDone
<1>1. Ring!Cleaned(w).pc \notin {"delete", "compensate", "discover", "record"}
  <2>1. CASE l.after = "idle"
    BY <2>1 DEF Ring!Cleaned, Ring!Stopped
  <2>2. CASE l.after = "probe"
    BY <1>0, <2>2 DEF Ring!Cleaned, Locals
  <2>3. CASE l.after = "finish"
    BY <1>0, <2>3 DEF Ring!Cleaned, Locals
  <2>4. CASE l.after \in {"get", "ensure", "rotate"}
    <3> DEFINE m == Ring!Resumed(l)
    <3>1. Ring!Cleaned(w) = [m EXCEPT !.fresh = FALSE]
      BY <2>4 DEF Ring!Cleaned
    <3>2. m.pc = l.after /\ DOMAIN m = DOMAIN l
      BY <1>0 DEF Ring!Resumed, Locals
    <3> HIDE DEF m
    <3>3. Ring!Cleaned(w).pc = l.after
      BY <1>0, <3>1, <3>2 DEF Locals
    <3> QED
      BY <2>4, <3>3
  <2> QED
    BY <1>0, <2>1, <2>2, <2>3, <2>4 DEF Locals, Afters
<1>2. \A r : Tamed(w, Ring!Cleaned(w), r)
  BY <1>1, TamedIdle
<1>3. CASE Ring!Stop(w)
  BY <1>0, <1>3, SafeStop
<1>4. CASE Ring!Commit(w, Ring!PendingDeletionsComplete(rec), Ring!Cleaned(w))
  BY <1>0, <1>2, <1>4, KeepsTracking, SafeWrite
<1>5. CASE Ring!Commit(w, Ring!CleanupComplete(rec), Ring!Cleaned(w))
  BY <1>0, <1>2, <1>5, KeepsTracking, SafeWrite
<1> QED
  BY <1>3, <1>4, <1>5, Zenon DEF Ring!DeletionsDone, Ring!CompensationDone

LEMMA SafeDiscover ==
    ASSUME NEW w, Sound(w), Ring!OffboardDiscover(w)
    PROVE  SafeInv'
<1> DEFINE l == work[w]
           unknown == indexed \ (Ring!Tracks(rec) \cup l.todo)
           r == Ring!TrackPendingDeletion(rec, unknown)
           deleting == [l EXCEPT !.pc = "delete", !.todo = @ \cup unknown, !.after = "finish"]
           finishing == [l EXCEPT !.pc = "finish"]
           k == IF deleting.todo = {} THEN finishing ELSE deleting
<1>0. Handles(w) /\ l \in Locals /\ l.pc = "discover"
  BY SoundIs, HandlesNothing DEF Ring!OffboardDiscover, Ring!At
<1>1. /\ finishing.pc = "finish" /\ deleting.pc = "delete" /\ deleting.todo = l.todo \cup unknown
  BY <1>0 DEF Locals
<1>2. \/ Ring!Stop(w)
      \/ unknown = {} /\ Ring!Step(w, k)
      \/ Ring!Commit(w, r, k)
  BY Zenon DEF Ring!OffboardDiscover
<1>3. unknown \subseteq r.pending
  BY SoundIs DEF Ring!TrackPendingDeletion, Records
<1>4. unknown \cap Live(rec) = {}
  BY LiveIs DEF Ring!Tracks
<1>5. Keeps(r)
  BY <1>4, KeepsTracking
<1> HIDE DEF unknown, finishing, deleting, r
<1>6. unknown = {} => Tamed(w, k, rec)
  BY <1>0, <1>1 DEF Tamed, Taking
<1>7. Tamed(w, k, r)
  BY <1>0, <1>1, <1>3 DEF Tamed, Taking, Doomed
<1> HIDE DEF k
<1> QED
  BY <1>0, <1>2, <1>5, <1>6, <1>7, SafeStop, SafeRead, SafeWrite

LEMMA SafeFinish ==
    ASSUME NEW w, Sound(w), Ring!OffboardFinish(w)
    PROVE  SafeInv'
<1> DEFINE r == Ring!FinishOffboarding(rec)
<1>0. Handles(w)
  BY SoundIs, HandlesNothing DEF Ring!OffboardFinish
<1>1. CASE Ring!Stop(w)
  BY <1>0, <1>1, SafeStop
<1>2. CASE rec.lifecycle = "offboarding" /\ Ring!Commit(w, r, Ring!Stopped)
  <2>1. /\ r.lifecycle = "offboarded" /\ r.op = rec.op /\ r.served = rec.served
        /\ r.pending = rec.pending /\ r.scheduled = rec.scheduled /\ r.failure = rec.failure
    BY SoundIs DEF Ring!FinishOffboarding, Records
  <2> HIDE DEF r
  <2>2. Live(r) = Live(rec) /\ Doomed(r) = Doomed(rec)
    BY <2>1 DEF Live, Doomed
  <2>3. InTurn(r)
    BY <1>2, <2>1, SoundIs DEF InTurn, Published, Running
  <2>4. Whole(r) /\ \A k \in Live(r) : k \notin Doomed(r)
    BY <2>1, <2>2, SoundIs DEF Whole, SafeInv, Spared
  <2>5. Keeps(r)
    BY <2>2, <2>3, <2>4 DEF Keeps
  <2>6. Tamed(w, Ring!Stopped, r)
    BY TamedIdle DEF Ring!Stopped
  <2> QED
    BY <1>0, <1>2, <2>5, <2>6, SafeWrite
<1> QED
  BY <1>1, <1>2, Zenon DEF Ring!OffboardFinish, Ring!CanFinishOffboarding

-----------------------------------------------------------------------------
(* The rest of the steps. *)

LEMMA SafeWork ==
    ASSUME NEW w, Sound(w), RecordsSpared, OneRun, Ring!Work(w)
    PROVE  SafeInv'
<1>1. CASE Ring!Command(w)
  BY <1>1, SafeEnsure, SafeRotate, SafeActivate, SafeRollback, SafeRetire, SafeRevoke,
     SafeOffboard, SafeReconcile, Zenon DEF Ring!Command
<1>2. CASE Ring!Provision(w)
  BY <1>2, SafeGet, SafeFind, SafeCreate, SafeRecord, SafeLost, SafeReads, SafeProbeFails,
     SafeReplica, SafeVerify, SafePublish, Zenon DEF Ring!Provision
<1>3. CASE Ring!Delete(w)
  BY <1>3, SafeReads, SafePersist, SafeSchedule, SafeDeleted, SafeDiscover, SafeFinish, Zenon
     DEF Ring!Delete
<1> QED
  BY <1>1, <1>2, <1>3, Zenon DEF Ring!Work

\* Time passes, or the index learns of a key.
LEMMA SafeStill ==
    ASSUME SafeInv, UNCHANGED <<rec, work, kms>>, \A k \in indexed' : kms[k].state # "absent"
    PROVE  SafeInv'
BY DEF SafeInv, Whole, Filled, Made, InTurn, Live, Spared, Doomed, Gone, Taking, Holding

LEMMA SafeReceive ==
    ASSUME KeyAssumptions, WindowInv, WindowInv', SafeInv, NEW w \in Workers,
           NEW c \in Commands, Ring!Receive(w, c.cmd, c.op)
    PROVE  SafeInv'
<1> DEFINE k == [Ring!Stopped EXCEPT !.pc = c.cmd, !.op = c.op, !.start = now]
<1>1. /\ rec' = rec /\ work' = [work EXCEPT ![w] = k] /\ UNCHANGED <<kms, indexed>>
  BY DEF Ring!Receive, Ring!Step
<1>2. k.pc = c.cmd /\ c.cmd \in Ring!AllCommands
  BY DEF Ring!Stopped, KeyAssumptions, Ring!CommandsAssumption
<1> HIDE DEF k
<1>3. Tamed(w, k, rec')
  BY <1>2, TamedIdle DEF Ring!AllCommands
<1>4. Handles(w)
  BY <1>1, HandlesNothing
<1>5. work' = [v \in Workers |-> IF v = w THEN k ELSE work[v]]
  BY <1>1 DEF WindowInv, KeyTypes
<1>6. Whole(rec') /\ InTurn(rec') /\ \A i \in Live(rec') : i \notin Doomed(rec') /\ Spared(i)
  BY <1>1 DEF SafeInv, Spared
<1> QED
  BY <1>3, <1>4, <1>5, <1>6, SafeKept

LEMMA SafeNext ==
    ASSUME KeyAssumptions, WindowInv, WindowInv', SafeInv, RecordsSpared, OneRun, [Ring!Next]_Ring!vars
    PROVE  SafeInv'
<1>1. CASE UNCHANGED Ring!vars
  BY <1>1, SafeStill DEF Ring!vars, SafeInv
<1>2. CASE Ring!Next
  <2>1. ASSUME NEW w \in Workers, NEW c \in Commands, Ring!Receive(w, c.cmd, c.op)
        PROVE  SafeInv'
    BY <2>1, SafeReceive
  <2>2. ASSUME NEW w \in Workers, Ring!Work(w)
        PROVE  SafeInv'
    BY <2>2, Working, SafeWork DEF Busy, Sound
  <2>3. ASSUME NEW w \in Workers, Ring!Abandon(w)
        PROVE  SafeInv'
    <3>1. Sound(w) /\ Ring!Stop(w)
      BY <2>3 DEF Ring!Abandon, Busy, Sound
    <3>2. Handles(w)
      BY <2>3, HandlesNothing DEF Ring!Abandon
    <3> QED
      BY <3>1, <3>2, SafeStop
  <2>4. CASE Ring!Tick
    BY <2>4, SafeStill DEF Ring!Tick, SafeInv
  <2>5. ASSUME NEW k \in Keys, Ring!Index(k)
        PROVE  SafeInv'
    BY <2>5, SafeStill DEF Ring!Index, SafeInv
  <2> QED
    BY <1>2, <2>1, <2>2, <2>3, <2>4, <2>5, Zenon DEF Ring!Next
<1> QED
  BY <1>1, <1>2

LEMMA SafeInit ==
    ASSUME KeyAssumptions, Ring!Init
    PROVE  SafeInv
<1> DEFINE b == Ring!BeginOnboarding(NoOp)
<1>1. b \in Records /\ b.served = Ring!NoSnapshot
  BY BeginOnboardingIs DEF OpIds
<1>2. rec = [b EXCEPT !.lifecycle = "none", !.op = Ring!NoOperation]
  BY DEF Ring!Init, Ring!NoRecord
<1> HIDE DEF b
<1>3. rec.lifecycle = "none" /\ rec.op = Ring!NoOperation /\ rec.served = Ring!NoSnapshot
  BY <1>1, <1>2 DEF Records
<1>4. Live(rec) = {}
  BY <1>3, NothingFilled DEF Live
<1>5. Whole(rec) /\ InTurn(rec)
  BY <1>3, NothingFilled DEF Whole, InTurn
<1>6. \A w \in Workers : Holding(work[w])
  BY DEF Ring!Init, Holding, Ring!Stopped
<1>7. \A k \in indexed : kms[k].state # "absent"
  BY DEF Ring!Init
<1> QED
  BY <1>4, <1>5, <1>6, <1>7 DEF SafeInv

LEMMA SafeIs ==
    ASSUME KeyAssumptions, WindowInv, SafeInv
    PROVE  Ring!ServedKeysAlive /\ Ring!WholeGenerationActive
<1>1. ASSUME NEW k \in rec.served.published
      PROVE  kms[k].state = "enabled"
  <2>1. k \in Keys /\ kms[k].state \in {"absent", "enabled", "deleting"} /\ Spared(k)
    BY RecordFields DEF WindowInv, KeyTypes, SafeInv, Live
  <2>2. kms[k].state # "deleting"
    BY <2>1 DEF Spared, Gone
  <2>3. \/ k \in Ring!KeysOf(rec.served.active) \/ k \in Ring!KeysOf(rec.op.previous.active)
        \/ k \in Ring!KeysOf(rec.op.cand)
    BY DEF SafeInv, InTurn, WindowInv, Staged
  <2>4. kms[k].state # "absent"
    BY <2>3 DEF Ring!KeysOf, SafeInv, Whole, Filled, Made
  <2> QED
    BY <2>1, <2>2, <2>4
<1>2. Ring!WholeGenerationActive
  BY DEF Ring!WholeGenerationActive, Ring!Served, SafeInv, Whole, Filled, Made
<1> QED
  BY <1>1, <1>2 DEF Ring!ServedKeysAlive

\* The keys of the served snapshot are enabled, and both algorithms sign with one generation,
\* whatever fails, is delivered again or overlaps, as long as no worker records a key that
\* another has given up: keys leave the snapshot before they are tracked for deletion
\* (rollback, retire, emergency_revoke), a failure is compensated after its candidate is out of
\* the record (compensate_failure), and a sweep tracks only keys that the record does not
\* refer to (persist_discovered_orphans). RecordsSpared is all that is missing.
THEOREM KeysStayAlive ==
    ASSUME KeyAssumptions
    PROVE  Ring!Spec /\ [](RecordsSpared /\ OneRun)
               => [](Ring!ServedKeysAlive /\ Ring!WholeGenerationActive)
<1>1. Ring!Init => WindowInv /\ SafeInv
  BY WindowInit, SafeInit
<1>2. WindowInv /\ [Ring!Next]_Ring!vars => WindowInv'
  BY WindowStep
<1>3. WindowInv /\ WindowInv' /\ SafeInv /\ RecordsSpared /\ OneRun /\ [Ring!Next]_Ring!vars
        => SafeInv'
  BY SafeNext
<1>4. WindowInv /\ SafeInv => Ring!ServedKeysAlive /\ Ring!WholeGenerationActive
  BY SafeIs
<1> QED
  BY <1>1, <1>2, <1>3, <1>4, PTL DEF Ring!Spec

=============================================================================
