------------------------ MODULE RegionFailoverProofs ------------------------
(***************************************************************************)
(* Theorems about the handover between the Regions: every admitted         *)
(* invocation belongs to the newest activation, and nothing of one         *)
(* activation is used in another.                                          *)
(*                                                                         *)
(* WritersAreCurrent is not inductive.  It needs that the standby reads    *)
(* its row in the order of its revisions (Lagging), that what the script   *)
(* observed stays true until the next activation (Observed), and that an   *)
(* activation, even one that lands late, was requested after the window    *)
(* of that observation (Waited, LateWaited).                               *)
(*                                                                         *)
(* ProofOnce needs more: what refuses an assertion that was accepted       *)
(* (Used), and that a window outlasts the assertion (Elapsed).  It holds   *)
(* as long as no replay marker is purged while the standby serves.         *)
(***************************************************************************)
EXTENDS RegionFailover, TLAPS

RowV == [active : BOOLEAN, rev : Nat]
CtlV == [state : {"active", "quiescing"}, region : Regions, rev : Nat,
         run : Operators \cup {None}, purge : Nat]
JobV == [pc : {"read", "run"}, rec : RowV, left : Nat, due : BOOLEAN]
CallV == [kind : {"quiesce", "activate"}, run : Operators, src : Regions, tgt : Regions, q : Nat]
OpV == [pc : {"off", "quiesce", "assert", "wait", "purge", "purge_jti", "record", "activate",
              "serve"},
        mode : Modes, src : Regions, tgt : Regions, q : Nat]
WaitV == [rev : Nat, left : Nat]

\* The standby's row: the revision its replica shows, and what is on the way.
Own == Row(Standby)

RowTypes ==
    /\ table \in [Items -> RowV \cup CtlV] /\ replica \in [Items -> RowV \cup CtlV]
    /\ pend \in [Items -> Seq(RowV \cup CtlV)]
    /\ Ctl \in CtlV /\ Ctl.rev > 0
    /\ \A r \in Regions : table[Row(r)] \in RowV
    /\ replica[Own] \in RowV /\ pend[Own] \in Seq(RowV)
RuntimeTypes ==
    /\ mem \in [Instances -> [obs : RowV, rev : Nat]]
    /\ job \in [Instances -> {None} \cup JobV]
    /\ codes \in [Regions -> SUBSET Nat] /\ seen \subseteq Regions
ScriptTypes ==
    /\ op \in [Operators -> OpV] /\ ctx \in [Operators -> Nat]
    /\ wait \in [Operators -> WaitV]
    /\ late \in {None} \cup CallV

\* The primary reads the coordinator's own table.
PrimaryRow ==
    table[Row(Primary)].active =>
        Ctl.state = "active" /\ Ctl.region = Primary /\ table[Row(Primary)].rev = Ctl.rev

\* The standby sees its row late, but in order, and no activation but the newest.
Shown(x) ==
    /\ x.rev <= Ctl.rev
    /\ x.active => Ctl.region = Standby /\ x.rev = Activation
Lagging ==
    /\ Shown(replica[Own]) /\ \A n \in DOMAIN pend[Own] : Shown(pend[Own][n])
    /\ \A n \in DOMAIN pend[Own] :
         /\ replica[Own].rev < pend[Own][n].rev
         /\ \A m \in 1..(n - 1) : pend[Own][m].rev < pend[Own][n].rev

\* No activation of the standby is on its way.
NoneOnItsWay ==
    ~replica[Own].active /\ \A n \in DOMAIN pend[Own] : ~pend[Own][n].active

Admits(i) == job[i] # None /\ job[i].rec.active

\* Since a run observed the shutdown, nobody is admitted, and who was admitted is
\* stopped at its limit.
Observed(o) ==
    /\ wait[o].rev <= Ctl.rev
    /\ wait[o].rev = Ctl.rev /\ Ctl.state = "quiescing" =>
         /\ NoneOnItsWay
         /\ \A i \in Instances :
              Admits(i) => job[i].left + Quiescence <= wait[o].left + Limit(i)

\* An invocation that is or will be admitted belongs to the newest activation.
Belongs(i) ==
    /\ job[i] # None => job[i].left <= Limit(i)
    /\ Admits(i) => job[i].rec.rev = Activation /\ Home[i] = Ctl.region
    /\ Running(i) => job[i].rec.active /\ mem[i].rev = job[i].rec.rev

\* A run that purges or activates has waited, and what it purged stays empty.
Ready(o, q) == q = 0 \/ (wait[o].rev = q /\ wait[o].left = 0)
Closing(q) == Ctl.state = "quiescing" /\ Ctl.rev = q
WaitedBy(o, c) ==
    /\ c.pc = "wait" => wait[o].rev = c.q
    /\ c.pc \in {"purge", "purge_jti", "record", "activate"} => Ready(o, c.q)
    /\ c.pc # "off" /\ c.mode = "run" /\ c.src = Primary => c.tgt = Standby
    /\ c.tgt = Primary /\ Closing(c.q) =>
         /\ c.pc \in {"purge_jti", "record", "activate"} => codes[Standby] = {}
         /\ c.pc \in {"record", "activate"} => Standby \notin seen
Waited(o) == WaitedBy(o, op[o])

LateWaited ==
    late # None /\ late.kind = "activate" =>
        /\ late.q < Ctl.rev \/ Ready(late.run, late.q)
        /\ late.tgt = Primary /\ Closing(late.q) => codes[Standby] = {} /\ Standby \notin seen

Purged == Ctl.region = Primary => codes[Standby] = {} /\ Standby \notin seen

RInv ==
    /\ RowTypes /\ RuntimeTypes /\ ScriptTypes /\ PrimaryRow /\ Lagging
    /\ \A o \in Operators : Observed(o) /\ Waited(o)
    /\ \A i \in Instances : Belongs(i)
    /\ LateWaited /\ Purged /\ SpentInActivation

Assumptions == TimesAssumption /\ InstancesAssumption /\ Primary # Standby

-----------------------------------------------------------------------------

LEMMA Keys ==
    ASSUME Primary # Standby
    PROVE  /\ Control \in Items /\ Own \in Items
           /\ Primary \in Regions /\ Standby \in Regions
           /\ \A r \in Regions :
                /\ Row(r) \in Items /\ Fence(r) \in Items
                /\ Row(r) # Control /\ Fence(r) # Control
                /\ \A s \in Regions : Row(r) # Fence(s) /\ (r # s => Row(r) # Row(s))
BY DEF Items, Regions, Control, Row, Fence, Own

\* After the window of an observation nobody who was admitted is left.
LEMMA WindowCloses ==
    ASSUME Assumptions, RInv, NEW o \in Operators, Closing(wait[o].rev), wait[o].left = 0,
           NEW i \in Instances
    PROVE  ~Admits(i)
<1> SUFFICES ASSUME Admits(i) PROVE FALSE
  OBVIOUS
<1>1. job[i].left + Quiescence <= 0 + Limit(i)
  BY DEF RInv, Observed, Closing
<1>2. job[i] \in JobV
  BY DEF RInv, RuntimeTypes, Admits
<1>3. job[i].left \in Nat
  BY <1>2 DEF JobV
<1>4. Limit(i) \in Nat /\ Quiescence \in Nat /\ Limit(i) < Quiescence
  BY DEF Assumptions, TimesAssumption, Limit
<1> QED
  BY <1>1, <1>3, <1>4

\* What invocations do keeps the invariant if it admits nobody behind an
\* observation and writes nothing behind a purge.
LEMMA RuntimeInv ==
    ASSUME Assumptions, RInv, UNCHANGED <<rows, script>>, RuntimeTypes', SpentInActivation',
           \A i \in Instances : Belongs(i)',
           \A o \in Operators, i \in Instances :
              Closing(wait[o].rev) /\ Admits(i)' =>
                 job'[i].left + Quiescence <= wait[o].left + Limit(i),
           \/ codes'[Standby] \subseteq codes[Standby] /\ seen' \cap {Standby} \subseteq seen
           \/ /\ Ctl.region = Standby
              /\ \A o \in Operators : ~(Closing(wait[o].rev) /\ wait[o].left = 0)
    PROVE  RInv'
<1>1. RowTypes' /\ ScriptTypes' /\ PrimaryRow' /\ Lagging'
  BY DEF RInv, RowTypes, ScriptTypes, PrimaryRow, Lagging, Shown, Activation, Ctl, rows, script
<1>2. ASSUME NEW o \in Operators PROVE Observed(o)'
  BY DEF RInv, Observed, NoneOnItsWay, Ctl, Closing, rows, script
<1>3. CASE codes'[Standby] \subseteq codes[Standby] /\ seen' \cap {Standby} \subseteq seen
  <2>1. ASSUME NEW o \in Operators PROVE Waited(o)'
    BY <1>3 DEF RInv, Waited, WaitedBy, Ready, Closing, Ctl, rows, script
  <2>2. LateWaited' /\ Purged'
    BY <1>3 DEF RInv, LateWaited, Purged, Ready, Closing, Ctl, rows, script
  <2> QED
    BY <1>1, <1>2, <2>1, <2>2 DEF RInv
<1>4. CASE /\ Ctl.region = Standby
           /\ \A o \in Operators : ~(Closing(wait[o].rev) /\ wait[o].left = 0)
  <2>0. Ctl.rev \in Nat /\ Ctl.rev > 0
    BY DEF RInv, RowTypes, CtlV
  <2>1. ASSUME NEW o \in Operators PROVE Waited(o)'
    BY <1>4, <2>0 DEF RInv, Waited, WaitedBy, Ready, Closing, Ctl, rows, script
  <2>2. late # None => late \in CallV
    BY DEF RInv, ScriptTypes
  <2>3. late # None => late.run \in Operators /\ late.q \in Nat
    BY <2>2 DEF CallV
  <2>4. LateWaited'
    BY <1>4, <2>0, <2>3 DEF RInv, LateWaited, Ready, Closing, Ctl, rows, script
  <2>5. Purged'
    BY <1>4, Keys DEF Purged, Ctl, rows, Assumptions
  <2> QED
    BY <1>1, <1>2, <2>1, <2>4, <2>5 DEF RInv
<1> QED
  BY <1>3, <1>4

-----------------------------------------------------------------------------
(* Invocations *)

LEMMA ReadInv ==
    ASSUME Assumptions, RInv, NEW i \in Instances, Read(i)
    PROVE  RInv'
<1> DEFINE rec == View(Home[i])[Row(Home[i])]
           new == [pc |-> "read", rec |-> rec, left |-> Limit(i),
                   due |-> rec.active /\ age[rec.rev] >= 0]
<1>1. /\ job[i] = None /\ job' = [job EXCEPT ![i] = new]
      /\ UNCHANGED <<rows, script, mem, codes, spent, proof, seen, accepted>>
  BY DEF Read
<1>2. Limit(i) \in Nat /\ Home[i] \in Regions
  BY DEF Assumptions, TimesAssumption, InstancesAssumption, Limit
<1>3. /\ rec \in RowV
      /\ rec.active => rec.rev = Activation /\ Home[i] = Ctl.region
      /\ rec.active /\ Ctl.state = "quiescing" => ~NoneOnItsWay
  <2>1. CASE Home[i] = Primary
    BY <2>1, <1>2 DEF View, RInv, RowTypes, PrimaryRow, Activation
  <2>2. CASE Home[i] = Standby
    BY <2>2, <1>2 DEF View, RInv, RowTypes, Lagging, Shown, NoneOnItsWay, Own, Assumptions
  <2> QED
    BY <1>2, <2>1, <2>2 DEF Regions
<1> HIDE DEF rec
<1>4. new \in JobV
  BY <1>2, <1>3 DEF JobV
<1>5. RuntimeTypes' /\ \A z \in Instances : job'[z] = IF z = i THEN new ELSE job[z]
  BY <1>1, <1>4 DEF RInv, RuntimeTypes
<1>6. new.rec = rec /\ new.left = Limit(i) /\ new.pc = "read"
  OBVIOUS
<1> HIDE DEF new
<1>7. ASSUME NEW z \in Instances PROVE Belongs(z)'
  BY <1>1, <1>2, <1>3, <1>5, <1>6 DEF RInv, Belongs, Admits, Running, Activation, Ctl, rows, Limit
<1>8. ASSUME NEW o \in Operators, NEW z \in Instances, Closing(wait[o].rev), Admits(z)'
      PROVE  job'[z].left + Quiescence <= wait[o].left + Limit(z)
  <2>1. NoneOnItsWay /\ Ctl.state = "quiescing"
    BY <1>8 DEF RInv, Observed, Closing
  <2>2. z # i /\ job'[z] = job[z] /\ Admits(z)
    BY <1>3, <1>5, <1>6, <1>8, <2>1 DEF Admits
  <2> QED
    BY <1>8, <2>2 DEF RInv, Observed, Closing
<1>9. SpentInActivation'
  BY <1>1 DEF RInv, SpentInActivation
<1> QED
  BY <1>1, <1>5, <1>7, <1>8, <1>9, RuntimeInv

LEMMA AdmitInv ==
    ASSUME Assumptions, RInv, NEW i \in Instances, admit(i)
    PROVE  RInv'
<1>1. /\ job[i] # None /\ job[i].pc = "read"
      /\ UNCHANGED <<rows, script, codes, spent, proof, seen, accepted>>
  BY DEF admit
<1>2. job[i] \in JobV /\ mem[i] \in [obs : RowV, rev : Nat]
  BY <1>1 DEF RInv, RuntimeTypes
<1>3. PICK go \in BOOLEAN :
        /\ go => job[i].rec.active
        /\ job' = [job EXCEPT ![i] = IF go THEN [@ EXCEPT !.pc = "run"] ELSE None]
        /\ mem' = [mem EXCEPT ![i] =
             [obs |-> IF job[i].rec.rev > mem[i].obs.rev THEN job[i].rec ELSE mem[i].obs,
              rev |-> IF go THEN job[i].rec.rev ELSE @.rev]]
  BY <1>2 DEF admit, JobV, RowV
<1>4. /\ job'[i] = IF go THEN [job[i] EXCEPT !.pc = "run"] ELSE None
      /\ mem'[i].rev = IF go THEN job[i].rec.rev ELSE mem[i].rev
      /\ \A z \in Instances : z # i => job'[z] = job[z] /\ mem'[z] = mem[z]
  BY <1>3 DEF RInv, RuntimeTypes
<1>5. [job[i] EXCEPT !.pc = "run"] \in JobV
  BY <1>2 DEF JobV
<1>6. RuntimeTypes'
  <2>1. job' \in [Instances -> {None} \cup JobV]
    BY <1>3, <1>5 DEF RInv, RuntimeTypes
  <2>2. [obs |-> IF job[i].rec.rev > mem[i].obs.rev THEN job[i].rec ELSE mem[i].obs,
         rev |-> IF go THEN job[i].rec.rev ELSE mem[i].rev] \in [obs : RowV, rev : Nat]
    BY <1>2 DEF JobV, RowV
  <2>3. mem' \in [Instances -> [obs : RowV, rev : Nat]]
    BY <1>3, <2>2 DEF RInv, RuntimeTypes
  <2> QED
    BY <1>1, <2>1, <2>3 DEF RInv, RuntimeTypes
<1>7. go => job'[i].rec = job[i].rec /\ job'[i].left = job[i].left
  BY <1>2, <1>4 DEF JobV
<1>8. ASSUME NEW z \in Instances PROVE Belongs(z)'
  BY <1>1, <1>3, <1>4, <1>7 DEF RInv, Belongs, Admits, Running, Activation, Ctl, rows, Limit
<1>9. ASSUME NEW o \in Operators, NEW z \in Instances, Closing(wait[o].rev), Admits(z)'
      PROVE  job'[z].left + Quiescence <= wait[o].left + Limit(z)
  <2>1. Admits(z) /\ job'[z].left = job[z].left
    BY <1>1, <1>3, <1>4, <1>7, <1>9 DEF Admits
  <2> QED
    BY <1>9, <2>1 DEF RInv, Observed, Closing
<1>10. SpentInActivation'
  BY <1>1 DEF RInv, SpentInActivation
<1> QED
  BY <1>1, <1>6, <1>8, <1>9, <1>10, RuntimeInv

\* What a request that is served may write.
LEMMA ServingFacts ==
    ASSUME Assumptions, RInv, NEW i \in Instances, Serving(i)
    PROVE  /\ Home[i] = Ctl.region /\ mem[i].rev = Activation
           /\ \A o \in Operators : ~(Closing(wait[o].rev) /\ wait[o].left = 0)
<1>1. Admits(i)
  BY DEF RInv, Belongs, Serving, Running, Admits
<1> QED
  BY <1>1, WindowCloses DEF RInv, Belongs, Serving, Admits

LEMMA ServeInv ==
    ASSUME Assumptions, RInv, NEW i \in Instances, issue_id(i) \/ Redeem(i) \/ Authenticate(i)
    PROVE  RInv'
<1>1. Serving(i) /\ UNCHANGED <<rows, script, mem, job>>
  BY DEF issue_id, Redeem, Authenticate
<1>2. /\ Home[i] = Ctl.region /\ mem[i].rev = Activation /\ Home[i] \in Regions
      /\ \A o \in Operators : ~(Closing(wait[o].rev) /\ wait[o].left = 0)
  BY <1>1, ServingFacts DEF Assumptions, InstancesAssumption
<1>3. RuntimeTypes'
  BY <1>1, <1>2 DEF RInv, RuntimeTypes, issue_id, Redeem, Authenticate
<1>4. SpentInActivation'
  BY <1>2 DEF RInv, SpentInActivation, issue_id, Redeem, Authenticate, owns_id
<1>5. ASSUME NEW z \in Instances PROVE Belongs(z)'
  BY <1>1 DEF RInv, Belongs, Admits, Running, Activation, Ctl, rows
<1>6. ASSUME NEW o \in Operators, NEW z \in Instances, Closing(wait[o].rev), Admits(z)'
      PROVE  job'[z].left + Quiescence <= wait[o].left + Limit(z)
  BY <1>1, <1>6 DEF RInv, Observed, Closing, Admits
<1>7. \/ codes'[Standby] \subseteq codes[Standby] /\ seen' \cap {Standby} \subseteq seen
      \/ Ctl.region = Standby
  BY <1>2, Keys DEF RInv, RuntimeTypes, issue_id, Redeem, Authenticate, Assumptions, Regions
<1> QED
  BY <1>1, <1>2, <1>3, <1>4, <1>5, <1>6, <1>7, RuntimeInv

LEMMA EndInv ==
    ASSUME Assumptions, RInv, NEW i \in Instances, End(i) \/ Recycle(i)
    PROVE  RInv'
<1>1. /\ UNCHANGED <<rows, script, codes, seen, spent>>
      /\ \/ job' = [job EXCEPT ![i] = None] /\ UNCHANGED mem
         \/ job[i] = None /\ mem' = [mem EXCEPT ![i] = Fresh] /\ UNCHANGED job
  BY DEF End, Recycle
<1>2. RuntimeTypes'
  <2>1. Fresh \in [obs : RowV, rev : Nat]
    BY DEF Fresh, NoRow, RowV
  <2>2. job' \in [Instances -> {None} \cup JobV] /\ mem' \in [Instances -> [obs : RowV, rev : Nat]]
    BY <1>1, <2>1 DEF RInv, RuntimeTypes
  <2> QED
    BY <1>1, <2>2 DEF RInv, RuntimeTypes
<1>3. ASSUME NEW z \in Instances
      PROVE  Belongs(z)' /\ (Admits(z)' => Admits(z) /\ job'[z] = job[z])
  BY <1>1 DEF RInv, RuntimeTypes, Belongs, Admits, Running, Activation, Ctl, rows
<1>4. ASSUME NEW o \in Operators, NEW z \in Instances, Closing(wait[o].rev), Admits(z)'
      PROVE  job'[z].left + Quiescence <= wait[o].left + Limit(z)
  BY <1>3, <1>4 DEF RInv, Observed, Closing
<1>5. SpentInActivation'
  BY <1>1 DEF RInv, SpentInActivation
<1> QED
  BY <1>1, <1>2, <1>3, <1>4, <1>5, RuntimeInv

\* A tick passes for the window and for the invocations it waits for.
LEMMA TickInv ==
    ASSUME Assumptions, RInv, Tick
    PROVE  RInv'
<1>1. /\ \A i \in Instances : job[i] # None => job[i].left > 0
      /\ job' = [i \in Instances |->
                   IF job[i] = None THEN None ELSE [job[i] EXCEPT !.left = @ - 1]]
      /\ wait' = [o \in Operators |-> [wait[o] EXCEPT !.left = IF @ > 0 THEN @ - 1 ELSE 0]]
      /\ UNCHANGED <<table, replica, pend, mem, codes, spent, seen, op, ctx, late>>
  BY DEF Tick
<1>2. ASSUME NEW i \in Instances, job[i] # None
      PROVE  job'[i] \in JobV /\ job'[i] = [job[i] EXCEPT !.left = @ - 1]
  BY <1>1, <1>2 DEF RInv, RuntimeTypes, JobV
<1>3. ASSUME NEW i \in Instances, job[i] # None
      PROVE  /\ job'[i].left = job[i].left - 1 /\ job'[i].rec = job[i].rec
             /\ job'[i].pc = job[i].pc /\ job[i].left \in Nat
  BY <1>2, <1>3 DEF RInv, RuntimeTypes, JobV
<1>4. ASSUME NEW i \in Instances, job[i] = None PROVE job'[i] = None
  BY <1>1, <1>4
<1>5. ASSUME NEW o \in Operators
      PROVE  /\ wait'[o] \in WaitV /\ wait'[o].rev = wait[o].rev
             /\ wait'[o].left = IF wait[o].left > 0 THEN wait[o].left - 1 ELSE 0
             /\ wait[o].left \in Nat
  BY <1>1 DEF RInv, ScriptTypes, WaitV
<1>6. RowTypes' /\ PrimaryRow' /\ Lagging'
  BY <1>1 DEF RInv, RowTypes, PrimaryRow, Lagging, Shown, Activation, Ctl
<1>7. RuntimeTypes'
  BY <1>1, <1>2, <1>4 DEF RInv, RuntimeTypes
<1>8. ScriptTypes'
  BY <1>1, <1>5 DEF RInv, ScriptTypes
<1>9. ASSUME NEW i \in Instances PROVE Belongs(i)' /\ (Admits(i)' => Admits(i))
  <2>1. Limit(i) \in Nat /\ Activation' = Activation /\ Ctl' = Ctl /\ Limit(i)' = Limit(i)
    BY <1>1 DEF Assumptions, TimesAssumption, Limit, Activation, Ctl
  <2>2. CASE job[i] = None
    BY <1>4, <2>2 DEF Belongs, Admits, Running
  <2>3. CASE job[i] # None
    <3>1. Belongs(i)
      BY DEF RInv
    <3>2. /\ job'[i].left = job[i].left - 1 /\ job'[i].rec = job[i].rec
          /\ job'[i].pc = job[i].pc /\ job[i].left \in Nat /\ mem' = mem
      BY <1>1, <1>3, <2>3
    <3>3. Admits(i)' => Admits(i)
      BY <2>3, <3>2 DEF Admits
    <3>4. Running(i)' => Running(i)
      BY <2>3, <3>2 DEF Running
    <3>5. job'[i].left <= Limit(i)
      BY <2>1, <2>3, <3>1, <3>2 DEF Belongs
    <3> QED
      BY <2>1, <3>1, <3>2, <3>3, <3>4, <3>5 DEF Belongs
  <2> QED
    BY <2>2, <2>3
<1>10. ASSUME NEW o \in Operators PROVE Observed(o)'
  <2>1. ASSUME Closing(wait[o].rev), NEW i \in Instances, Admits(i)'
        PROVE  job'[i].left + Quiescence <= wait'[o].left + Limit(i)
    <3>1. Admits(i) /\ wait[o].left # 0
      BY <1>9, <2>1, WindowCloses
    <3>2. job[i].left + Quiescence <= wait[o].left + Limit(i)
      BY <2>1, <3>1 DEF RInv, Observed, Closing
    <3>3. Quiescence \in Nat /\ Limit(i) \in Nat
      BY DEF Assumptions, TimesAssumption, Limit
    <3> QED
      BY <1>3, <1>5, <3>1, <3>2, <3>3 DEF Admits
  <2> QED
    BY <1>1, <1>5, <2>1 DEF RInv, Observed, Closing, NoneOnItsWay, Ctl, Limit
<1>11. ASSUME NEW o \in Operators PROVE Waited(o)'
  BY <1>1, <1>5 DEF RInv, Waited, WaitedBy, Ready, Closing, Ctl
<1>12. LateWaited'
  <2>1. ASSUME late # None PROVE late.run \in Operators
    BY <2>1 DEF RInv, ScriptTypes, CallV
  <2> QED
    BY <1>1, <1>5, <2>1 DEF RInv, LateWaited, Ready, Closing, Ctl
<1>13. Purged' /\ SpentInActivation'
  BY <1>1 DEF RInv, Purged, SpentInActivation, Ctl
<1> QED
  BY <1>6, <1>7, <1>8, <1>9, <1>10, <1>11, <1>12, <1>13 DEF RInv

-----------------------------------------------------------------------------
(* Steps of the script that do not touch the rows *)

\* A run moves on, if what its new step claims is so.
LEMMA MoveInv ==
    ASSUME Assumptions, RInv, NEW o \in Operators, NEW c \in OpV, WaitedBy(o, c),
           op' = [op EXCEPT ![o] = c], ctx' \in [Operators -> Nat],
           UNCHANGED <<table, replica, pend, job, mem, codes, seen, spent, wait, late>>
    PROVE  RInv'
<1>1. RowTypes' /\ PrimaryRow' /\ Lagging' /\ RuntimeTypes'
  BY DEF RInv, RowTypes, PrimaryRow, Lagging, Shown, Activation, Ctl, RuntimeTypes
<1>2. ScriptTypes'
  BY DEF RInv, ScriptTypes
<1>3. ASSUME NEW z \in Operators PROVE Observed(z)' /\ Waited(z)'
  <2>1. (op'[z] = c /\ z = o) \/ op'[z] = op[z]
    BY DEF RInv, ScriptTypes
  <2>2. Waited(z)'
    BY <2>1 DEF RInv, Waited, WaitedBy, Ready, Closing, Ctl
  <2> QED
    BY <2>2 DEF RInv, Observed, NoneOnItsWay, Admits, Limit, Ctl
<1>4. ASSUME NEW i \in Instances PROVE Belongs(i)'
  BY DEF RInv, Belongs, Admits, Running, Limit, Activation, Ctl
<1>5. LateWaited' /\ Purged' /\ SpentInActivation'
  BY DEF RInv, LateWaited, Ready, Closing, Purged, SpentInActivation, Ctl
<1> QED
  BY <1>1, <1>2, <1>3, <1>4, <1>5 DEF RInv

\* A run that ends, by an error, a crash or at its goal.
LEMMA OffInv ==
    ASSUME Assumptions, RInv, NEW o \in Operators, op' = [op EXCEPT ![o] = Off],
           UNCHANGED <<ctx, table, replica, pend, job, mem, codes, seen, spent, wait, late>>
    PROVE  RInv'
<1>1. Off \in OpV /\ WaitedBy(o, Off)
  BY DEF Off, OpV, Modes, Regions, WaitedBy
<1> QED
  BY <1>1, MoveInv DEF RInv, ScriptTypes

LEMMA StartRunInv ==
    ASSUME Assumptions, RInv, NEW o \in Operators,
           initialize_context(o) \/ Run(o) \/ rollback_to_primary(o)
    PROVE  RInv'
<1>0. /\ Ctl.rev \in Nat /\ Ctl.rev > 0 /\ Ctl.region \in Regions /\ ctx[o] \in Nat
      /\ op[o] \in OpV /\ Waited(o) /\ ctx \in [Operators -> Nat] /\ op \in [Operators -> OpV]
  BY DEF RInv, RowTypes, ScriptTypes, CtlV
<1>1. CASE initialize_context(o)
  <2>1. /\ op' = [op EXCEPT ![o] = op[o]] /\ ctx' \in [Operators -> Nat]
        /\ UNCHANGED <<table, replica, pend, job, mem, codes, seen, spent, wait, late>>
    BY <1>0, <1>1 DEF initialize_context, rows, runtime
  <2> QED
    BY <1>0, <2>1, MoveInv DEF Waited
<1>2. CASE Run(o) \/ rollback_to_primary(o)
  <2>1. PICK pc \in {"quiesce", "assert", "serve", "purge"}, mode \in Modes, src \in Regions,
             tgt \in Regions, q \in Nat :
          /\ Begin(o, pc, mode, src, tgt, q)
          /\ pc = "purge" => q = 0
          /\ mode = "run" /\ src = Primary => tgt = Standby
    <3>1. "run" \in Modes /\ "rollback" \in Modes /\ Primary \in Regions /\ Standby \in Regions
      BY DEF Modes, Regions
    <3>2. CASE Run(o)
      BY <1>0, <3>1, <3>2 DEF Run, Assumptions
    <3>3. CASE rollback_to_primary(o)
      BY <1>0, <3>1, <3>3 DEF rollback_to_primary, Modes
    <3> QED
      BY <1>2, <3>2, <3>3
  <2>2. PICK c : /\ c = [pc |-> pc, mode |-> mode, src |-> src, tgt |-> tgt, q |-> q]
                 /\ op' = [op EXCEPT ![o] = c]
                 /\ UNCHANGED <<ctx, table, replica, pend, job, mem, codes, seen, spent, wait, late>>
    BY <2>1 DEF Begin, rows, runtime
  <2>3. c \in OpV /\ WaitedBy(o, c)
    BY <2>1, <2>2 DEF OpV, WaitedBy, Ready
  <2> QED
    BY <1>0, <2>2, <2>3, MoveInv
<1> QED
  BY <1>1, <1>2

\* The first look at both replicas, which starts the window.
LEMMA ObserveInv ==
    ASSUME Assumptions, RInv, NEW o \in Operators, Observe(o)
    PROVE  RInv'
<1>1. /\ op[o].pc = "assert" /\ op' = [op EXCEPT ![o].pc = "wait"]
      /\ wait' = [wait EXCEPT ![o] =
                    IF @.rev = op[o].q THEN @ ELSE [rev |-> op[o].q, left |-> Quiescence]]
      /\ UNCHANGED <<rows, runtime, ctx, late>>
  BY DEF Observe, Step
<1>2. /\ Ctl.state = "quiescing" /\ Ctl.region = op[o].src /\ Ctl.rev = op[o].q
      /\ ~replica[Row(op[o].src)].active /\ replica[Row(op[o].src)].rev = op[o].q
  BY DEF Observe, assert_quiesced, QuiescedRows, Ctl
<1>3. /\ op[o] \in OpV /\ wait[o] \in WaitV /\ Quiescence \in Nat
      /\ op \in [Operators -> OpV] /\ wait \in [Operators -> WaitV]
  BY DEF RInv, ScriptTypes, Assumptions, TimesAssumption
<1>4. /\ op'[o].pc = "wait" /\ op'[o].q = op[o].q /\ op'[o].mode = op[o].mode
      /\ op'[o].src = op[o].src /\ op'[o].tgt = op[o].tgt
      /\ \A z \in Operators : z # o => op'[z] = op[z] /\ wait'[z] = wait[z]
      /\ op' \in [Operators -> OpV]
  BY <1>1, <1>3 DEF OpV
<1>5. /\ wait'[o].rev = op[o].q /\ wait' \in [Operators -> WaitV]
      /\ \/ wait'[o] = wait[o] /\ wait[o].rev = op[o].q
         \/ wait[o].rev # op[o].q /\ wait'[o].left = Quiescence
  BY <1>1, <1>3 DEF WaitV, OpV
<1>6. NoneOnItsWay
  <2>1. op[o].src \in Regions /\ \A x : Shown(x) => x.rev <= Ctl.rev
    BY <1>3 DEF OpV, Shown
  <2>2. CASE op[o].src = Primary
    BY <1>2, <2>2 DEF RInv, Lagging, Shown, NoneOnItsWay, Assumptions
  <2>3. CASE op[o].src = Standby
    <3>1. ASSUME NEW n \in DOMAIN pend[Own] PROVE FALSE
      <4>1. pend[Own][n] \in RowV /\ replica[Own] \in RowV
        BY <3>1 DEF RInv, RowTypes
      <4>2. replica[Own].rev < pend[Own][n].rev /\ pend[Own][n].rev <= Ctl.rev
        BY <3>1 DEF RInv, Lagging, Shown
      <4>3. replica[Own].rev = Ctl.rev /\ Ctl.rev \in Nat
        BY <1>2, <2>3 DEF RInv, RowTypes, CtlV, Own
      <4> QED
        BY <4>1, <4>2, <4>3 DEF RowV
    <3> QED
      BY <1>2, <2>3, <3>1 DEF NoneOnItsWay, Own
  <2> QED
    BY <2>1, <2>2, <2>3 DEF Regions
<1>7. RowTypes' /\ RuntimeTypes' /\ ScriptTypes' /\ PrimaryRow' /\ Lagging'
  BY <1>1, <1>4, <1>5 DEF RInv, RowTypes, RuntimeTypes, ScriptTypes, PrimaryRow, Lagging, Shown,
    Activation, Ctl, rows, runtime
<1>8. ASSUME NEW z \in Operators PROVE Observed(z)'
  <2>1. CASE wait'[z] = wait[z]
    BY <1>1, <2>1 DEF RInv, Observed, NoneOnItsWay, Admits, Limit, Ctl, rows, runtime
  <2>2. CASE z = o /\ wait[o].rev # op[o].q /\ wait'[o].left = Quiescence
    <3>1. ASSUME NEW i \in Instances, Admits(i)
          PROVE  job[i].left + Quiescence <= Quiescence + Limit(i)
      <4>1. job[i] \in JobV /\ job[i].left <= Limit(i) /\ Limit(i) \in Nat
        BY <3>1 DEF RInv, RuntimeTypes, Belongs, Admits, Assumptions, TimesAssumption, Limit
      <4> QED
        BY <1>3, <4>1 DEF JobV
    <3>2. wait'[o].rev <= Ctl.rev
      BY <1>2, <1>5 DEF RInv, RowTypes, CtlV
    <3> QED
      BY <1>1, <1>6, <2>2, <3>1, <3>2 DEF Observed, NoneOnItsWay, Admits, Limit, Ctl, rows, runtime
  <2> QED
    BY <1>4, <1>5, <2>1, <2>2
<1>9. ASSUME NEW z \in Operators PROVE Waited(z)'
  <2>1. Waited(z)
    BY DEF RInv
  <2>2. CASE z # o
    BY <1>1, <1>4, <2>1, <2>2 DEF Waited, WaitedBy, Ready, Closing, Ctl, rows, runtime
  <2>3. CASE z = o
    BY <1>1, <1>4, <1>5, <2>1, <2>3 DEF Waited, WaitedBy
  <2> QED
    BY <2>2, <2>3
<1>10. LateWaited'
  <2> SUFFICES ASSUME late # None, late.kind = "activate"
               PROVE  /\ late.q < Ctl.rev \/ Ready(late.run, late.q)'
                      /\ late.tgt = Primary /\ Closing(late.q) =>
                            codes[Standby] = {} /\ Standby \notin seen
    BY <1>1 DEF LateWaited, Closing, Ctl, rows, runtime
  <2>1. late.q \in Nat /\ late.run \in Operators /\ LateWaited /\ Ctl.rev \in Nat
    BY DEF RInv, ScriptTypes, CallV, RowTypes, CtlV
  <2>2. wait[late.run].rev <= Ctl.rev
    BY <2>1 DEF RInv, Observed
  <2>3. late.q < Ctl.rev \/ Ready(late.run, late.q)'
    BY <1>1, <1>2, <1>3, <1>4, <1>5, <2>1, <2>2 DEF LateWaited, Ready, WaitV
  <2> QED
    BY <2>1, <2>3 DEF LateWaited
<1>11. ASSUME NEW i \in Instances PROVE Belongs(i)'
  BY <1>1 DEF RInv, Belongs, Admits, Running, Limit, Activation, Ctl, rows, runtime
<1>12. Purged' /\ SpentInActivation'
  BY <1>1 DEF RInv, Purged, SpentInActivation, Ctl, rows, runtime
<1> QED
  BY <1>7, <1>8, <1>9, <1>10, <1>11, <1>12 DEF RInv

\* The steps that leave the rows alone: the end of the window, the check that the
\* target serves, the script's failures and a second look at what is done already.
LEMMA StepOnInv ==
    ASSUME Assumptions, RInv, NEW o \in Operators,
           \/ wait_quiescence(o) \/ Serve(o) \/ GiveUp(o) \/ Crash(o)
           \/ op[o].pc = "activate" /\ Step(o, "serve") /\ UNCHANGED <<rows, runtime, ctx, wait, late>>
    PROVE  RInv'
<1>0. /\ op[o] \in OpV /\ Waited(o) /\ ctx \in [Operators -> Nat] /\ op \in [Operators -> OpV]
      /\ ctx[o] \in Nat /\ wait[o] \in WaitV
  BY DEF RInv, ScriptTypes
<1>1. UNCHANGED <<ctx, table, replica, pend, job, mem, codes, seen, spent, wait, late>>
  BY DEF wait_quiescence, Serve, GiveUp, Crash, rows, runtime
<1>2. CASE op' = [op EXCEPT ![o] = Off]
  BY <1>1, <1>2, OffInv
<1>3. CASE wait_quiescence(o)
  <2>1. PICK c : c = [op[o] EXCEPT !.pc = AfterWait(o)] /\ op' = [op EXCEPT ![o] = c]
    BY <1>0, <1>3 DEF wait_quiescence, Step
  <2>2. AfterWait(o) \in {"activate", "purge"} /\ op[o].pc = "wait" /\ wait[o].left = 0
    BY <1>3 DEF AfterWait, wait_quiescence
  <2>3. /\ c \in OpV /\ c.pc = AfterWait(o) /\ c.mode = op[o].mode /\ c.src = op[o].src
        /\ c.tgt = op[o].tgt /\ c.q = op[o].q
    BY <1>0, <2>1, <2>2 DEF OpV
  <2>4. c.pc = "activate" => c.tgt = Standby
    BY <1>0, <2>2, <2>3 DEF AfterWait, Waited, WaitedBy
  <2>5. WaitedBy(o, c)
    BY <1>0, <2>2, <2>3, <2>4 DEF Waited, WaitedBy, Ready, Assumptions
  <2> QED
    BY <1>0, <1>1, <2>1, <2>3, <2>5, MoveInv
<1>4. CASE op[o].pc = "activate" /\ Step(o, "serve")
  <2>1. PICK c : c = [op[o] EXCEPT !.pc = "serve"] /\ op' = [op EXCEPT ![o] = c]
    BY <1>0, <1>4 DEF Step
  <2>2. /\ c \in OpV /\ c.pc = "serve" /\ c.mode = op[o].mode /\ c.src = op[o].src
        /\ c.tgt = op[o].tgt /\ c.q = op[o].q
    BY <1>0, <2>1 DEF OpV
  <2>3. WaitedBy(o, c)
    BY <1>0, <1>4, <2>2 DEF Waited, WaitedBy
  <2> QED
    BY <1>0, <1>1, <2>1, <2>2, <2>3, MoveInv
<1>5. CASE op' = [op EXCEPT ![o] = [op[o] EXCEPT !.pc = "quiesce", !.src = Standby, !.tgt = Primary,
                                                 !.q = ctx[o] + 3]]
  <2> DEFINE q == ctx[o] + 3
             c == [op[o] EXCEPT !.pc = "quiesce", !.src = Standby, !.tgt = Primary, !.q = q]
  <2>1. op' = [op EXCEPT ![o] = c] /\ q \in Nat
    BY <1>0, <1>5
  <2> HIDE DEF q
  <2>2. c \in OpV /\ c.pc = "quiesce" /\ c.src = Standby
    BY <1>0, <2>1 DEF OpV, Regions
  <2> HIDE DEF c
  <2>3. WaitedBy(o, c)
    BY <2>2 DEF WaitedBy, Assumptions
  <2> QED
    BY <1>0, <1>1, <2>1, <2>2, <2>3, MoveInv
<1>6. Serve(o) => \/ op' = [op EXCEPT ![o] = Off]
                  \/ op' = [op EXCEPT ![o] = [op[o] EXCEPT !.pc = "quiesce", !.src = Standby,
                                                   !.tgt = Primary, !.q = ctx[o] + 3]]
  BY <1>0 DEF Serve
<1> QED
  BY <1>2, <1>3, <1>4, <1>5, <1>6 DEF GiveUp, Crash

\* A transaction without an answer was sent by a run that had waited.
LEMMA UnansweredInv ==
    ASSUME Assumptions, RInv, NEW o \in Operators, Unanswered(o)
    PROVE  RInv'
<1>1. /\ op[o].pc \in {"quiesce", "activate"}
      /\ late' = IF LateCalls THEN Call(o, op[o].pc) ELSE late
      /\ \/ op' = [op EXCEPT ![o] = Off]
         \/ op' = op
      /\ UNCHANGED <<ctx, table, replica, pend, job, mem, codes, seen, spent, wait>>
  BY DEF Unanswered, rows, runtime
<1>2. op[o] \in OpV /\ Waited(o) /\ op \in [Operators -> OpV]
  BY DEF RInv, ScriptTypes
<1>3. Call(o, op[o].pc) \in CallV
  BY <1>1, <1>2 DEF Call, CallV, OpV
<1>4. ASSUME late' = Call(o, op[o].pc) PROVE LateWaited'
  <2>1. late'.kind = op[o].pc /\ late'.run = o /\ late'.q = op[o].q /\ late'.tgt = op[o].tgt
    BY <1>4 DEF Call
  <2>2. late'.kind = "activate" => op[o].pc = "activate"
    BY <2>1
  <2>3. late'.kind = "activate" => late'.q < Ctl.rev \/ (wait[o].rev = op[o].q /\ wait[o].left = 0)
    BY <1>2, <2>1, <2>2 DEF Waited, WaitedBy, Ready, RInv, RowTypes, CtlV
  <2>4. late'.kind = "activate" /\ late'.tgt = Primary /\ Closing(op[o].q) =>
            codes[Standby] = {} /\ Standby \notin seen
    BY <1>2, <2>1, <2>2 DEF Waited, WaitedBy
  <2> QED
    BY <1>1, <2>1, <2>3, <2>4 DEF LateWaited, Ready, Closing, Ctl
<1>5. ASSUME late' = late PROVE LateWaited'
  BY <1>1, <1>5 DEF RInv, LateWaited, Ready, Closing, Ctl
<1>6. LateWaited'
  BY <1>1, <1>4, <1>5
<1>7. Off \in OpV /\ WaitedBy(o, Off)
  BY DEF Off, OpV, Modes, Regions, WaitedBy
<1>8. ScriptTypes'
  <2>1. late' \in {None} \cup CallV
    BY <1>1, <1>3 DEF RInv, ScriptTypes
  <2> QED
    BY <1>1, <1>7, <2>1 DEF RInv, ScriptTypes
<1>9. ASSUME NEW z \in Operators PROVE Observed(z)' /\ Waited(z)'
  <2>1. (op'[z] = Off /\ z = o) \/ op'[z] = op[z]
    BY <1>1 DEF RInv, ScriptTypes
  <2>2. Waited(z)'
    BY <1>1, <1>7, <2>1 DEF RInv, Waited, WaitedBy, Ready, Closing, Ctl
  <2> QED
    BY <1>1, <2>2 DEF RInv, Observed, NoneOnItsWay, Admits, Limit, Ctl
<1>10. RowTypes' /\ PrimaryRow' /\ Lagging' /\ RuntimeTypes'
  BY <1>1 DEF RInv, RowTypes, PrimaryRow, Lagging, Shown, Activation, Ctl, RuntimeTypes
<1>11. ASSUME NEW i \in Instances PROVE Belongs(i)'
  BY <1>1 DEF RInv, Belongs, Admits, Running, Limit, Activation, Ctl
<1>12. Purged' /\ SpentInActivation'
  BY <1>1 DEF RInv, Purged, SpentInActivation, Ctl
<1> QED
  BY <1>6, <1>8, <1>9, <1>10, <1>11, <1>12 DEF RInv

LEMMA LoseInv ==
    ASSUME Assumptions, RInv, Lose
    PROVE  RInv'
<1>1. late' = None /\ UNCHANGED <<rows, runtime, op, ctx, wait>>
  BY DEF Lose
<1>2. RowTypes' /\ PrimaryRow' /\ Lagging' /\ RuntimeTypes' /\ ScriptTypes'
  BY <1>1 DEF RInv, RowTypes, PrimaryRow, Lagging, Shown, Activation, Ctl, RuntimeTypes, ScriptTypes,
    rows, runtime
<1>3. ASSUME NEW z \in Operators PROVE Observed(z)' /\ Waited(z)'
  BY <1>1 DEF RInv, Observed, NoneOnItsWay, Admits, Limit, Ctl, Waited, WaitedBy, Ready, Closing,
    rows, runtime
<1>4. ASSUME NEW i \in Instances PROVE Belongs(i)'
  BY <1>1 DEF RInv, Belongs, Admits, Running, Limit, Activation, Ctl, rows, runtime
<1>5. LateWaited' /\ Purged' /\ SpentInActivation'
  BY <1>1 DEF RInv, LateWaited, Purged, SpentInActivation, Ctl, rows, runtime
<1> QED
  BY <1>2, <1>3, <1>4, <1>5 DEF RInv

\* The purge leaves nothing for the primary's next activation.
LEMMA PurgeInv ==
    ASSUME Assumptions, RInv, NEW o \in Operators, purge_standby_region_local_tables(o)
    PROVE  RInv'
<1>0. /\ op[o] \in OpV /\ Waited(o) /\ op \in [Operators -> OpV]
      /\ codes \in [Regions -> SUBSET Nat] /\ Standby \in Regions /\ seen \subseteq Regions
  BY Keys DEF RInv, ScriptTypes, RuntimeTypes, Assumptions
<1>1. UNCHANGED <<ctx, table, replica, pend, job, mem, spent, wait, late>>
  BY DEF purge_standby_region_local_tables, rows
<1>2. /\ op[o].pc \in {"purge", "purge_jti"}
      /\ codes' \in [Regions -> SUBSET Nat] /\ seen' \subseteq Regions
      /\ codes[Standby] = {} => codes'[Standby] = {}
      /\ Standby \notin seen => Standby \notin seen'
      /\ op[o].pc = "purge" => codes'[Standby] = {}
      /\ op[o].pc = "purge_jti" => Standby \notin seen' /\ codes' = codes
  BY <1>0 DEF purge_standby_region_local_tables
<1>3. PICK c \in OpV :
        /\ op' = [op EXCEPT ![o] = c]
        /\ \/ c = Off
           \/ /\ c.pc \in {"purge_jti", "record", "activate"}
              /\ op[o].pc = "purge" <=> c.pc = "purge_jti"
              /\ c.mode = op[o].mode /\ c.src = op[o].src /\ c.tgt = op[o].tgt /\ c.q = op[o].q
  <2>1. CASE op[o].pc = "purge"
    <3> DEFINE c == [op[o] EXCEPT !.pc = "purge_jti"]
    <3>1. op' = [op EXCEPT ![o] = c]
      BY <2>1 DEF purge_standby_region_local_tables, Step
    <3>2. /\ c \in OpV /\ c.pc = "purge_jti"
          /\ c.mode = op[o].mode /\ c.src = op[o].src /\ c.tgt = op[o].tgt /\ c.q = op[o].q
      BY <1>0 DEF OpV
    <3> QED
      BY <2>1, <3>1, <3>2
  <2>2. CASE op[o].pc = "purge_jti"
    <3>1. PICK pc \in {"record", "activate"} :
            op' = [op EXCEPT ![o] = IF op[o].q = 0 THEN Off ELSE [op[o] EXCEPT !.pc = pc]]
      BY <2>2 DEF purge_standby_region_local_tables
    <3>2. Off \in OpV
      BY DEF Off, OpV, Modes, Regions
    <3> DEFINE c == [op[o] EXCEPT !.pc = pc]
    <3>3. /\ c \in OpV /\ c.pc = pc
          /\ c.mode = op[o].mode /\ c.src = op[o].src /\ c.tgt = op[o].tgt /\ c.q = op[o].q
      BY <1>0 DEF OpV
    <3>4. op' = [op EXCEPT ![o] = Off] \/ op' = [op EXCEPT ![o] = c]
      BY <3>1
    <3> HIDE DEF c
    <3> QED
      BY <2>2, <3>2, <3>3, <3>4
  <2> QED
    BY <1>2, <2>1, <2>2
<1>4. ASSUME NEW z \in Operators PROVE Observed(z)' /\ Waited(z)'
  <2>1. Waited(z) /\ (z # o => op'[z] = op[z]) /\ op'[o] = c
    BY <1>0, <1>3 DEF RInv
  <2>2. ASSUME z # o PROVE Waited(z)'
    BY <1>1, <1>2, <2>1, <2>2 DEF Waited, WaitedBy, Ready, Closing, Ctl
  <2>3. ASSUME z = o, c = Off PROVE Waited(z)'
    BY <2>1, <2>3 DEF Waited, WaitedBy, Off
  <2>4. ASSUME z = o, c # Off PROVE Waited(z)'
    <3>1. /\ c.pc \in {"purge_jti", "record", "activate"}
          /\ op[o].pc = "purge" <=> c.pc = "purge_jti"
          /\ c.mode = op[o].mode /\ c.src = op[o].src /\ c.tgt = op[o].tgt /\ c.q = op[o].q
      BY <1>3, <2>4
    <3>2. Ready(o, c.q)' /\ (c.mode = "run" /\ c.src = Primary => c.tgt = Standby)
      BY <1>0, <1>1, <1>2, <2>1, <3>1 DEF Waited, WaitedBy, Ready
    <3>3. c.tgt = Primary /\ Closing(c.q)' =>
            /\ codes'[Standby] = {}
            /\ c.pc \in {"record", "activate"} => Standby \notin seen'
      <4>1. CASE op[o].pc = "purge"
        BY <1>2, <3>1, <4>1
      <4>2. CASE op[o].pc = "purge_jti"
        BY <1>0, <1>1, <1>2, <3>1, <4>2 DEF Waited, WaitedBy, Closing, Ctl
      <4> QED
        BY <1>2, <4>1, <4>2
    <3> QED
      BY <2>1, <2>4, <3>1, <3>2, <3>3 DEF Waited, WaitedBy
  <2>5. Waited(z)'
    BY <2>2, <2>3, <2>4
  <2> QED
    BY <1>1, <2>5 DEF RInv, Observed, NoneOnItsWay, Admits, Limit, Ctl
<1>5. RowTypes' /\ PrimaryRow' /\ Lagging' /\ RuntimeTypes'
  BY <1>1, <1>2 DEF RInv, RowTypes, PrimaryRow, Lagging, Shown, Activation, Ctl, RuntimeTypes
<1>6. ScriptTypes'
  BY <1>1, <1>3 DEF RInv, ScriptTypes
<1>7. ASSUME NEW i \in Instances PROVE Belongs(i)'
  BY <1>1 DEF RInv, Belongs, Admits, Running, Limit, Activation, Ctl
<1>8. LateWaited' /\ Purged' /\ SpentInActivation'
  BY <1>1, <1>2 DEF RInv, LateWaited, Ready, Closing, Purged, SpentInActivation, Ctl
<1> QED
  BY <1>4, <1>5, <1>6, <1>7, <1>8 DEF RInv

-----------------------------------------------------------------------------
(* The control rows *)

LEMMA TailOf ==
    ASSUME NEW S, NEW s \in Seq(S), s # <<>>
    PROVE  /\ Head(s) = s[1] /\ s[1] \in S /\ 1 \in DOMAIN s /\ Tail(s) \in Seq(S)
           /\ \A n \in DOMAIN Tail(s) :
                n \in Nat /\ n > 0 /\ n + 1 \in DOMAIN s /\ Tail(s)[n] = s[n + 1]
<1>1. Len(s) \in Nat /\ Len(s) > 0 /\ Len(Tail(s)) = Len(s) - 1 /\ DOMAIN s = 1..Len(s)
  OBVIOUS
<1>2. Head(s) = s[1] /\ s[1] \in S /\ 1 \in DOMAIN s /\ Tail(s) \in Seq(S)
  BY <1>1
<1>3. DOMAIN Tail(s) = 1..(Len(s) - 1)
  BY <1>1, <1>2
<1> QED
  BY <1>1, <1>2, <1>3

\* The standby sees the versions of its row one after the other.
LEMMA ReplicateInv ==
    ASSUME Assumptions, RInv, NEW k \in Items, Replicate(k)
    PROVE  RInv'
<1>0. /\ Own \in Items /\ Control \in Items
      /\ replica \in [Items -> RowV \cup CtlV] /\ pend \in [Items -> Seq(RowV \cup CtlV)]
      /\ replica[Own] \in RowV /\ pend[Own] \in Seq(RowV)
  BY Keys DEF RInv, RowTypes, Assumptions
<1>1. /\ pend[k] # <<>>
      /\ replica' = [replica EXCEPT ![k] = Head(pend[k])]
      /\ pend' = [pend EXCEPT ![k] = Tail(pend[k])]
      /\ UNCHANGED <<table, age, runtime, script>>
  BY DEF Replicate
<1>2. pend[k] \in Seq(RowV \cup CtlV) /\ Head(pend[k]) \in RowV \cup CtlV
      /\ Tail(pend[k]) \in Seq(RowV \cup CtlV)
  BY <1>0, <1>1
<1>3. \/ replica'[Own] = replica[Own] /\ pend'[Own] = pend[Own]
      \/ /\ pend[Own] # <<>> /\ replica'[Own] = Head(pend[Own]) /\ pend'[Own] = Tail(pend[Own])
  BY <1>0, <1>1
<1>4. /\ replica'[Own] \in RowV /\ pend'[Own] \in Seq(RowV)
      /\ \/ replica'[Own] = replica[Own] /\ pend'[Own] = pend[Own]
         \/ /\ 1 \in DOMAIN pend[Own] /\ replica'[Own] = pend[Own][1]
            /\ \A n \in DOMAIN pend'[Own] :
                 /\ n \in Nat /\ n > 0 /\ n + 1 \in DOMAIN pend[Own]
                 /\ pend'[Own][n] = pend[Own][n + 1]
  <2>1. CASE replica'[Own] = replica[Own] /\ pend'[Own] = pend[Own]
    BY <1>0, <2>1
  <2>2. CASE pend[Own] # <<>> /\ replica'[Own] = Head(pend[Own]) /\ pend'[Own] = Tail(pend[Own])
    <3>1. /\ Head(pend[Own]) = pend[Own][1] /\ pend[Own][1] \in RowV /\ 1 \in DOMAIN pend[Own]
          /\ Tail(pend[Own]) \in Seq(RowV)
          /\ \A n \in DOMAIN Tail(pend[Own]) :
               /\ n \in Nat /\ n > 0 /\ n + 1 \in DOMAIN pend[Own]
               /\ Tail(pend[Own])[n] = pend[Own][n + 1]
      BY <1>0, <2>2, TailOf
    <3> QED
      BY <2>2, <3>1
  <2> QED
    BY <1>3, <2>1, <2>2
<1>5. RowTypes'
  <2>1. replica' \in [Items -> RowV \cup CtlV] /\ pend' \in [Items -> Seq(RowV \cup CtlV)]
    BY <1>0, <1>1, <1>2
  <2> QED
    BY <1>1, <1>4, <2>1 DEF RInv, RowTypes, Ctl
<1>6. Ctl' = Ctl /\ Activation' = Activation
  BY <1>1 DEF Ctl, Activation
<1>7. Lagging'
  <2>1. CASE replica'[Own] = replica[Own] /\ pend'[Own] = pend[Own]
    BY <1>6, <2>1 DEF RInv, Lagging, Shown
  <2>2. CASE replica'[Own] # replica[Own] \/ pend'[Own] # pend[Own]
    <3>1. Shown(replica'[Own]) /\ \A n \in DOMAIN pend'[Own] : Shown(pend'[Own][n])
      BY <1>4, <2>2 DEF RInv, Lagging
    <3>2. ASSUME NEW n \in DOMAIN pend'[Own]
          PROVE  /\ replica'[Own].rev < pend'[Own][n].rev
                 /\ \A m \in 1..(n - 1) : pend'[Own][m].rev < pend'[Own][n].rev
      <4>1. /\ n \in Nat /\ n > 0 /\ n + 1 \in DOMAIN pend[Own]
            /\ pend'[Own][n] = pend[Own][n + 1] /\ replica'[Own] = pend[Own][1]
        BY <1>4, <2>2
      <4>2. \A m \in 1..n : pend[Own][m].rev < pend[Own][n + 1].rev
        BY <4>1 DEF RInv, Lagging
      <4>3. ASSUME NEW m \in 1..(n - 1) PROVE pend'[Own][m].rev < pend'[Own][n].rev
        <5>1. m \in DOMAIN pend'[Own] /\ m + 1 \in 1..n
          BY <1>4, <4>1
        <5> QED
          BY <1>4, <2>2, <4>1, <4>2, <5>1
      <4> QED
        BY <4>1, <4>2, <4>3
    <3> QED
      BY <1>6, <3>1, <3>2 DEF Lagging, Shown
  <2> QED
    BY <2>1, <2>2
<1>8. NoneOnItsWay => NoneOnItsWay'
  BY <1>4 DEF NoneOnItsWay
<1>9. ASSUME NEW o \in Operators PROVE Observed(o)' /\ Waited(o)'
  <2>1. Waited(o)'
    BY <1>1, <1>6 DEF RInv, Waited, WaitedBy, Ready, Closing, runtime, script
  <2> QED
    BY <1>1, <1>6, <1>8, <2>1 DEF RInv, Observed, Admits, Limit, runtime, script
<1>10. ASSUME NEW i \in Instances PROVE Belongs(i)'
  BY <1>1, <1>6 DEF RInv, Belongs, Admits, Running, Limit, runtime, script
<1>11. /\ RuntimeTypes' /\ ScriptTypes' /\ PrimaryRow' /\ LateWaited' /\ Purged'
       /\ SpentInActivation'
  BY <1>1, <1>6 DEF RInv, RuntimeTypes, ScriptTypes, PrimaryRow, LateWaited, Ready, Closing,
    Purged, SpentInActivation, runtime, script
<1> QED
  BY <1>5, <1>7, <1>9, <1>10, <1>11 DEF RInv

\* A transaction appends the rows it changes to what is on its way.
LEMMA PutOwn ==
    ASSUME Assumptions, RInv, NEW c \in CtlV, NEW r \in Regions, NEW row \in RowV, c.rev > 0,
           Put(Moved(c, r, row))
    PROVE  /\ RowTypes' /\ replica' = replica
           /\ table'[Control] = c /\ table'[Row(r)] = row
           /\ \A s \in Regions \ {r} : table'[Row(s)] = table[Row(s)]
           /\ \/ pend'[Own] = pend[Own]
              \/ r = Standby /\ pend'[Own] = Append(pend[Own], row)
<1>0. /\ table \in [Items -> RowV \cup CtlV] /\ replica \in [Items -> RowV \cup CtlV]
      /\ pend \in [Items -> Seq(RowV \cup CtlV)]
      /\ \A s \in Regions : table[Row(s)] \in RowV
      /\ replica[Own] \in RowV /\ pend[Own] \in Seq(RowV)
  BY DEF RInv, RowTypes
<1> DEFINE t == Moved(c, r, row)
<1>1. /\ t \in [Items -> RowV \cup CtlV]
      /\ t[Control] = c /\ t[Row(r)] = row
      /\ \A s \in Regions \ {r} : t[Row(s)] = table[Row(s)]
  <2>1. /\ Control \in Items /\ Row(r) \in Items /\ Fence(r) \in Items
        /\ Row(r) # Control /\ Fence(r) # Control /\ Row(r) # Fence(r)
        /\ \A s \in Regions \ {r} :
             Row(s) \in Items /\ Row(s) # Control /\ Row(s) # Row(r) /\ Row(s) # Fence(r)
    BY Keys DEF Assumptions
  <2>2. t = [table EXCEPT ![Control] = c, ![Row(r)] = row, ![Fence(r)] = row]
    BY DEF Moved
  <2> HIDE DEF t
  <2> QED
    BY <1>0, <2>1, <2>2
<1>2. t[Own] # table[Own] => r = Standby /\ t[Own] = row
  <2> HIDE DEF t
  <2> QED
    BY <1>1, Keys DEF Own, Assumptions
<1> HIDE DEF t
<1>3. /\ table' = t /\ replica' = replica
      /\ pend' = [k \in Items |-> IF t[k] # table[k] THEN Append(pend[k], t[k]) ELSE pend[k]]
  BY DEF Put, t
<1>4. pend' \in [Items -> Seq(RowV \cup CtlV)]
  <2>1. ASSUME NEW k \in Items
        PROVE  Append(pend[k], t[k]) \in Seq(RowV \cup CtlV) /\ pend[k] \in Seq(RowV \cup CtlV)
    BY <1>0, <1>1
  <2> QED
    BY <1>3, <2>1
<1>5. \/ pend'[Own] = pend[Own]
      \/ r = Standby /\ pend'[Own] = Append(pend[Own], row)
  <2>1. Own \in Items
    BY Keys DEF Assumptions
  <2>2. pend'[Own] = IF t[Own] # table[Own] THEN Append(pend[Own], t[Own]) ELSE pend[Own]
    BY <1>3, <2>1
  <2> QED
    BY <1>2, <2>2
<1>6. pend'[Own] \in Seq(RowV)
  <2>1. Append(pend[Own], row) \in Seq(RowV)
    BY <1>0
  <2> QED
    BY <1>0, <1>5, <2>1
<1>7. \A s \in Regions : table'[Row(s)] \in RowV
  BY <1>0, <1>1, <1>3
<1>8. Ctl' \in CtlV /\ Ctl'.rev > 0
  BY <1>1, <1>3 DEF Ctl
<1>9. RowTypes'
  BY <1>0, <1>1, <1>3, <1>4, <1>6, <1>7, <1>8 DEF RowTypes
<1> QED
  BY <1>1, <1>3, <1>5, <1>9

\* What is appended is newer than all before it.
LEMMA LaggingKept ==
    ASSUME Assumptions, RInv, NEW row \in RowV, RowTypes', replica' = replica,
           Ctl'.rev > Ctl.rev, row.rev = Ctl'.rev,
           row.active => Ctl'.region = Standby /\ Activation' = row.rev,
           \/ Ctl'.region = Ctl.region /\ Activation' = Activation
           \/ NoneOnItsWay,
           \/ pend'[Own] = pend[Own]
           \/ pend'[Own] = Append(pend[Own], row)
    PROVE  Lagging'
<1>0. /\ replica[Own] \in RowV /\ pend[Own] \in Seq(RowV) /\ Ctl.rev \in Nat /\ Ctl'.rev \in Nat
      /\ Lagging
  BY DEF RInv, RowTypes, CtlV
<1> DEFINE Fits(x) == x.rev <= Ctl'.rev /\ (x.active => Ctl'.region = Standby /\ x.rev = Activation')
<1>1. \A n \in DOMAIN pend[Own] : pend[Own][n] \in RowV
  BY <1>0
<1>2. /\ Fits(replica[Own]) /\ replica[Own].rev < row.rev
      /\ \A n \in DOMAIN pend[Own] : Fits(pend[Own][n]) /\ pend[Own][n].rev < row.rev
  <2>1. ASSUME NEW x \in RowV, Shown(x), NoneOnItsWay => ~x.active PROVE Fits(x) /\ x.rev < row.rev
    BY <1>0, <2>1 DEF Shown, RowV
  <2>2. Shown(replica[Own]) /\ (NoneOnItsWay => ~replica[Own].active)
    BY <1>0 DEF Lagging, NoneOnItsWay
  <2>3. \A n \in DOMAIN pend[Own] : Shown(pend[Own][n]) /\ (NoneOnItsWay => ~pend[Own][n].active)
    BY <1>0 DEF Lagging, NoneOnItsWay
  <2> HIDE DEF Fits
  <2> QED
    BY <1>0, <1>1, <2>1, <2>2, <2>3
<1>3. CASE pend'[Own] = pend[Own]
  BY <1>0, <1>2, <1>3 DEF Lagging, Shown
<1>4. CASE pend'[Own] = Append(pend[Own], row)
  <2>1. /\ Len(pend[Own]) \in Nat /\ DOMAIN pend[Own] = 1..Len(pend[Own])
        /\ DOMAIN pend'[Own] = 1..(Len(pend[Own]) + 1)
    BY <1>0, <1>4
  <2>2. \A n \in DOMAIN pend'[Own] :
             \/ n \in DOMAIN pend[Own] /\ pend'[Own][n] = pend[Own][n]
             \/ n = Len(pend[Own]) + 1 /\ pend'[Own][n] = row
    BY <1>0, <1>4
  <2>3. Fits(replica'[Own]) /\ \A n \in DOMAIN pend'[Own] : Fits(pend'[Own][n])
    <3>1. Fits(row)
      BY <1>0
    <3> HIDE DEF Fits
    <3> QED
      BY <1>2, <2>2, <3>1
  <2>4. ASSUME NEW n \in DOMAIN pend'[Own]
        PROVE  /\ replica'[Own].rev < pend'[Own][n].rev
               /\ \A m \in 1..(n - 1) : pend'[Own][m].rev < pend'[Own][n].rev
    <3>2. \A m \in 1..(n - 1) : m \in DOMAIN pend[Own] /\ pend'[Own][m] = pend[Own][m]
      BY <2>1, <2>2
    <3>3. CASE n \in DOMAIN pend[Own] /\ pend'[Own][n] = pend[Own][n]
      BY <1>0, <3>2, <3>3 DEF Lagging
    <3>4. CASE pend'[Own][n] = row
      BY <1>2, <3>2, <3>4
    <3> QED
      BY <2>2, <3>3, <3>4
  <2> QED
    BY <2>3, <2>4 DEF Lagging, Shown
<1> QED
  BY <1>3, <1>4

\* A quiescence, of a script's call or one that lands late, opens no window.
LEMMA QuiesceInv ==
    ASSUME Assumptions, RInv, NEW c \in CallV, QuiesceAllowed(c), QuiesceWrite(c),
           UNCHANGED <<runtime, ctx, wait>>, ScriptTypes',
           late' = late \/ late' = None,
           \A z \in Operators : op'[z] = op[z] \/ (op[z].pc = "quiesce" /\ op'[z] = [op[z] EXCEPT !.pc = "assert"])
    PROVE  RInv'
<1>0. /\ Ctl.rev \in Nat /\ Ctl.region \in Regions /\ Ctl.rev > 0
      /\ c.src \in Regions /\ c.run \in Operators /\ c.q \in Nat
      /\ op \in [Operators -> OpV] /\ wait \in [Operators -> WaitV]
  BY DEF RInv, RowTypes, CtlV, CallV, ScriptTypes
<1>1. /\ Ctl.state = "active" /\ Ctl.region = c.src /\ Ctl.rev = c.q - 1
  BY DEF QuiesceAllowed
<1> DEFINE new == [state |-> "quiescing", region |-> c.src, rev |-> c.q, run |-> c.run, purge |-> 0]
           row == [active |-> FALSE, rev |-> c.q]
<1>2. /\ new \in CtlV /\ new.rev = c.q /\ new.region = c.src /\ new.state = "quiescing"
      /\ row \in RowV /\ ~row.active /\ row.rev = c.q
  BY <1>0 DEF CtlV, RowV
<1>3. Put(Moved(new, c.src, row)) /\ UNCHANGED age
  BY DEF QuiesceWrite
<1> HIDE DEF new, row
<1>4. /\ RowTypes' /\ replica' = replica
      /\ Ctl' = new /\ table'[Row(c.src)] = row
      /\ \A s \in Regions \ {c.src} : table'[Row(s)] = table[Row(s)]
      /\ pend'[Own] = pend[Own] \/ pend'[Own] = Append(pend[Own], row)
  BY <1>0, <1>1, <1>2, <1>3, PutOwn DEF Ctl
<1>5. Activation' = Activation /\ Ctl'.region = Ctl.region /\ Ctl'.rev > Ctl.rev
      /\ Ctl'.rev = c.q /\ Ctl'.state = "quiescing"
  BY <1>0, <1>1, <1>2, <1>4 DEF Activation
<1>6. Lagging'
  BY <1>2, <1>4, <1>5, LaggingKept
<1>7. PrimaryRow'
  BY <1>1, <1>2, <1>4, Keys DEF RInv, PrimaryRow, Assumptions
<1>8. ASSUME NEW z \in Operators PROVE wait[z].rev \in Nat /\ wait[z].rev < c.q
  BY <1>0, <1>1 DEF RInv, Observed, WaitV
<1>9. ASSUME NEW z \in Operators PROVE Observed(z)'
  <2>1. wait[z].rev \in Nat /\ wait[z].rev < Ctl'.rev /\ wait' = wait
    BY <1>5, <1>8
  <2> QED
    BY <1>0, <1>5, <2>1 DEF Observed
<1>10. ASSUME NEW z \in Operators PROVE Waited(z)'
  <2>1. Waited(z) /\ op[z] \in OpV
    BY <1>0 DEF RInv
  <2>2. CASE op'[z] = [op[z] EXCEPT !.pc = "assert"]
    <3>1. /\ op'[z].pc = "assert" /\ op'[z].mode = op[z].mode /\ op'[z].src = op[z].src
          /\ op'[z].tgt = op[z].tgt /\ (op[z].pc = "quiesce" \/ op'[z] = op[z])
      BY <2>1, <2>2 DEF OpV
    <3> QED
      BY <2>1, <3>1 DEF Waited, WaitedBy
  <2>3. CASE op'[z] = op[z]
    <3>1. Closing(op[z].q)' => op[z].q = c.q
      BY <1>5, <2>3 DEF Closing
    <3>2. op[z].q = c.q => ~Ready(z, op[z].q)
      BY <1>0, <1>1, <1>8 DEF Ready
    <3> QED
      BY <2>1, <2>3, <3>1, <3>2 DEF Waited, WaitedBy, Ready
  <2> QED
    BY <2>2, <2>3
<1>11. LateWaited'
  <2> SUFFICES ASSUME late # None, late.kind = "activate"
               PROVE  /\ late.q < c.q \/ Ready(late.run, late.q)
                      /\ ~(late.q = c.q)
    BY <1>5 DEF LateWaited, Closing, Ready
  <2>1. LateWaited /\ late.run \in Operators /\ late.q \in Nat
    BY DEF RInv, ScriptTypes, CallV
  <2> QED
    BY <1>0, <1>1, <1>8, <2>1 DEF LateWaited, Ready
<1>12. ASSUME NEW i \in Instances PROVE Belongs(i)'
  BY <1>5 DEF RInv, Belongs, Admits, Running, Limit, runtime
<1>13. RuntimeTypes' /\ Purged' /\ SpentInActivation'
  BY <1>5 DEF RInv, RuntimeTypes, Purged, SpentInActivation, runtime
<1> QED
  BY <1>4, <1>6, <1>7, <1>9, <1>10, <1>11, <1>12, <1>13 DEF RInv

\* An activation follows the window of its run, so nobody is left.
LEMMA ActivateInv ==
    ASSUME Assumptions, RInv, NEW c \in CallV, ActivateAllowed(c), ActivateWrite(c),
           Ready(c.run, c.q),
           c.tgt = Primary => codes[Standby] = {} /\ Standby \notin seen,
           UNCHANGED <<runtime, ctx, wait>>, ScriptTypes',
           late' = late \/ late' = None,
           \A z \in Operators : op'[z] = op[z] \/ (op[z].pc = "activate" /\ op'[z] = [op[z] EXCEPT !.pc = "serve"])
    PROVE  RInv'
<1>0. /\ Ctl \in CtlV /\ Ctl.rev \in Nat /\ Ctl.region \in Regions /\ Ctl.rev > 0
      /\ c.src \in Regions /\ c.tgt \in Regions /\ c.run \in Operators /\ c.q \in Nat
      /\ op \in [Operators -> OpV] /\ wait \in [Operators -> WaitV]
  BY DEF RInv, RowTypes, CtlV, CallV, ScriptTypes
<1>1. /\ Ctl.state = "quiescing" /\ Ctl.region = c.src /\ Ctl.rev = c.q
  BY DEF ActivateAllowed
<1>2. Closing(wait[c.run].rev) /\ wait[c.run].left = 0 /\ wait[c.run].rev = Ctl.rev
  BY <1>0, <1>1 DEF Ready, Closing
<1>3. NoneOnItsWay /\ \A i \in Instances : ~Admits(i)
  BY <1>0, <1>1, <1>2, WindowCloses DEF RInv, Observed
<1> DEFINE new == [Ctl EXCEPT !.state = "active", !.region = c.tgt, !.rev = c.q + 1, !.run = c.run]
           row == [active |-> TRUE, rev |-> c.q + 1]
<1>4. /\ new \in CtlV /\ new.rev = c.q + 1 /\ new.region = c.tgt /\ new.state = "active"
      /\ row \in RowV /\ row.rev = c.q + 1
  <2>1. c.q + 1 \in Nat
    BY <1>0
  <2> DEFINE n == c.q + 1
  <2> HIDE DEF n
  <2>2. n \in Nat => /\ [Ctl EXCEPT !.state = "active", !.region = c.tgt, !.rev = n, !.run = c.run] \in CtlV
        /\ [active |-> TRUE, rev |-> n] \in RowV
    BY <1>0 DEF CtlV, RowV
  <2>3. new \in CtlV /\ row \in RowV
    BY <2>1, <2>2 DEF n
  <2> QED
    BY <1>0, <2>3 DEF CtlV
<1>5. Put(Moved(new, c.tgt, row))
  BY DEF ActivateWrite
<1> HIDE DEF new, row
<1>6. /\ RowTypes' /\ replica' = replica
      /\ Ctl' = new /\ table'[Row(c.tgt)] = row
      /\ \A s \in Regions \ {c.tgt} : table'[Row(s)] = table[Row(s)]
      /\ pend'[Own] = pend[Own] \/ (c.tgt = Standby /\ pend'[Own] = Append(pend[Own], row))
  BY <1>0, <1>4, <1>5, PutOwn DEF Ctl
<1>7. /\ Activation' = c.q + 1 /\ Ctl'.region = c.tgt /\ Ctl'.rev > Ctl.rev
      /\ Ctl'.rev = c.q + 1 /\ Ctl'.state = "active"
  BY <1>0, <1>1, <1>4, <1>6 DEF Activation
<1>8. Lagging'
  <2>1. CASE pend'[Own] = pend[Own]
    <3>1. LET r == [active |-> FALSE, rev |-> c.q + 1] IN r \in RowV /\ r.rev = c.q + 1 /\ ~r.active
      BY <1>0 DEF RowV
    <3> QED
      BY <1>3, <1>6, <1>7, <2>1, <3>1, LaggingKept
  <2>2. CASE c.tgt = Standby /\ pend'[Own] = Append(pend[Own], row)
    BY <1>3, <1>4, <1>6, <1>7, <2>2, LaggingKept
  <2> QED
    BY <1>6, <2>1, <2>2
<1>9. PrimaryRow'
  <2>1. CASE c.tgt = Primary
    BY <1>4, <1>6, <1>7, <2>1 DEF PrimaryRow
  <2>2. CASE c.tgt # Primary
    BY <1>1, <1>6, <2>2, Keys DEF RInv, PrimaryRow, Assumptions
  <2> QED
    BY <2>1, <2>2
<1>10. ASSUME NEW z \in Operators PROVE Observed(z)'
  <2>1. wait[z].rev <= Ctl.rev /\ wait[z].rev \in Nat
    BY <1>0 DEF RInv, Observed, WaitV
  <2> QED
    BY <1>0, <1>1, <1>7, <2>1 DEF Observed
<1>11. ASSUME NEW z \in Operators PROVE Waited(z)'
  <2>1. Waited(z) /\ op[z] \in OpV
    BY <1>0 DEF RInv
  <2>2. CASE op'[z] = [op[z] EXCEPT !.pc = "serve"]
    <3>1. /\ op'[z].pc = "serve" /\ op'[z].mode = op[z].mode /\ op'[z].src = op[z].src
          /\ op'[z].tgt = op[z].tgt /\ (op[z].pc = "activate" \/ op'[z] = op[z])
      BY <2>1, <2>2 DEF OpV
    <3> QED
      BY <2>1, <3>1 DEF Waited, WaitedBy
  <2>3. CASE op'[z] = op[z]
    BY <1>7, <2>1, <2>3 DEF Waited, WaitedBy, Ready, Closing
  <2> QED
    BY <2>2, <2>3
<1>12. LateWaited'
  <2>1. late # None => late.run \in Operators /\ late.q \in Nat
    BY DEF RInv, ScriptTypes, CallV
  <2> QED
    BY <1>0, <1>1, <1>7, <2>1 DEF RInv, LateWaited, Closing, Ready
<1>13. ASSUME NEW i \in Instances PROVE Belongs(i)'
  BY <1>3 DEF RInv, Belongs, Admits, Running, Limit, runtime
<1>14. RuntimeTypes' /\ Purged' /\ SpentInActivation'
  BY <1>7 DEF RInv, RuntimeTypes, Purged, SpentInActivation, runtime
<1> QED
  BY <1>6, <1>8, <1>9, <1>10, <1>11, <1>12, <1>13, <1>14 DEF RInv

LEMMA QuiesceRegionInv ==
    ASSUME Assumptions, RInv, NEW o \in Operators, quiesce_region(o)
    PROVE  RInv'
<1>0. op[o] \in OpV /\ op \in [Operators -> OpV]
  BY DEF RInv, ScriptTypes
<1>1. CASE QuiesceAllowed(Call(o, "quiesce"))
  <2>1. PICK c : c = Call(o, "quiesce")
    OBVIOUS
  <2>2. c \in CallV /\ QuiesceAllowed(c) /\ QuiesceWrite(c)
    BY <1>0, <1>1, <2>1 DEF Call, CallV, OpV, quiesce_region
  <2>3. op[o].pc = "quiesce" /\ op' = [op EXCEPT ![o].pc = "assert"]
        /\ UNCHANGED <<runtime, ctx, wait, late>>
    BY <1>1 DEF quiesce_region, Step
  <2>4. op' = [op EXCEPT ![o] = [op[o] EXCEPT !.pc = "assert"]] /\ [op[o] EXCEPT !.pc = "assert"] \in OpV
    BY <1>0, <2>3 DEF OpV
  <2>5. ScriptTypes'
    BY <2>3, <2>4 DEF RInv, ScriptTypes
  <2> QED
    BY <1>0, <2>2, <2>3, <2>4, <2>5, QuiesceInv
<1>2. CASE ~QuiesceAllowed(Call(o, "quiesce"))
  BY <1>2, OffInv DEF quiesce_region, rows, runtime
<1> QED
  BY <1>1, <1>2

LEMMA ActivateRegionInv ==
    ASSUME Assumptions, RInv, NEW o \in Operators, activate_region(o)
    PROVE  RInv'
<1>0. op[o] \in OpV /\ op \in [Operators -> OpV] /\ Waited(o) /\ op[o].pc = "activate"
  BY DEF RInv, ScriptTypes, activate_region
<1>1. CASE /\ ActivateAllowed(Call(o, "activate")) /\ ActivateWrite(Call(o, "activate"))
           /\ Step(o, "serve") /\ UNCHANGED late
  <2>1. PICK c : c = Call(o, "activate")
    OBVIOUS
  <2>2. c \in CallV /\ ActivateAllowed(c) /\ ActivateWrite(c) /\ c.run = o /\ c.q = op[o].q
        /\ c.tgt = op[o].tgt
    BY <1>0, <1>1, <2>1 DEF Call, CallV, OpV
  <2>3. op' = [op EXCEPT ![o].pc = "serve"] /\ UNCHANGED <<runtime, ctx, wait, late>>
    BY <1>1 DEF activate_region, Step
  <2>4. op' = [op EXCEPT ![o] = [op[o] EXCEPT !.pc = "serve"]] /\ [op[o] EXCEPT !.pc = "serve"] \in OpV
    BY <1>0, <2>3 DEF OpV
  <2>5. ScriptTypes'
    BY <2>3, <2>4 DEF RInv, ScriptTypes
  <2>6. Ready(c.run, c.q)
    BY <1>0, <2>2 DEF Waited, WaitedBy
  <2>7. Closing(c.q)
    BY <2>2 DEF ActivateAllowed, Closing
  <2>8. c.tgt = Primary => codes[Standby] = {} /\ Standby \notin seen
    BY <1>0, <2>2, <2>7 DEF Waited, WaitedBy
  <2> QED
    BY <1>0, <2>2, <2>3, <2>4, <2>5, <2>6, <2>8, ActivateInv
<1>2. CASE ActiveRows(table, o) /\ Step(o, "serve") /\ UNCHANGED <<rows, late>>
  BY <1>0, <1>2, StepOnInv DEF activate_region
<1>3. CASE op' = [op EXCEPT ![o] = Off] /\ UNCHANGED <<rows, late>>
  BY <1>3, OffInv DEF activate_region, rows, runtime
<1> QED
  BY <1>1, <1>2, <1>3 DEF activate_region

\* The record of the purge changes only the coordinator's purge revision.
LEMMA RecordInv ==
    ASSUME Assumptions, RInv, NEW o \in Operators, record_standby_region_local_purge(o)
    PROVE  RInv'
<1>0. /\ op[o] \in OpV /\ op \in [Operators -> OpV] /\ Waited(o) /\ op[o].pc = "record"
      /\ table \in [Items -> RowV \cup CtlV] /\ Ctl \in CtlV /\ Control \in Items
      /\ pend \in [Items -> Seq(RowV \cup CtlV)]
  BY Keys DEF RInv, ScriptTypes, RowTypes, record_standby_region_local_purge, Assumptions
<1>1. CASE /\ Put([table EXCEPT ![Control].purge = op[o].q]) /\ Step(o, "activate") /\ UNCHANGED age
  <2>1. PICK new : new = [Ctl EXCEPT !.purge = op[o].q]
    OBVIOUS
  <2>2. /\ new \in CtlV /\ new.state = Ctl.state /\ new.region = Ctl.region /\ new.rev = Ctl.rev
    BY <1>0, <2>1 DEF CtlV, OpV
  <2>3. PICK t : t = [table EXCEPT ![Control] = new]
    OBVIOUS
  <2>4. Put(t)
    BY <1>1, <2>1, <2>3 DEF Ctl
  <2>5. /\ t \in [Items -> RowV \cup CtlV] /\ t[Control] = new
        /\ \A k \in Items \ {Control} : t[k] = table[k]
    BY <1>0, <2>2, <2>3
  <2>6. /\ table' = t /\ replica' = replica
        /\ pend' = [k \in Items |-> IF t[k] # table[k] THEN Append(pend[k], t[k]) ELSE pend[k]]
    BY <2>4 DEF Put
  <2>7. /\ Own \in Items \ {Control} /\ \A r \in Regions : Row(r) \in Items \ {Control}
    BY Keys DEF Assumptions, Own
  <2>8. pend'[Own] = pend[Own] /\ \A r \in Regions : table'[Row(r)] = table[Row(r)]
    BY <2>5, <2>6, <2>7
  <2>9. pend' \in [Items -> Seq(RowV \cup CtlV)]
    <3>1. ASSUME NEW k \in Items
          PROVE  Append(pend[k], t[k]) \in Seq(RowV \cup CtlV) /\ pend[k] \in Seq(RowV \cup CtlV)
      BY <1>0, <2>5
    <3> QED
      BY <2>6, <3>1
  <2>10. Ctl' = new /\ Activation' = Activation
    BY <2>2, <2>5, <2>6 DEF Ctl, Activation
  <2>11. RowTypes'
    <3>1. new.rev > 0 /\ replica'[Own] \in RowV /\ pend'[Own] \in Seq(RowV)
      BY <2>2, <2>6, <2>8 DEF RInv, RowTypes
    <3>2. \A r \in Regions : table'[Row(r)] \in RowV
      BY <2>8 DEF RInv, RowTypes
    <3> QED
      BY <2>2, <2>5, <2>6, <2>9, <2>10, <3>1, <3>2 DEF RInv, RowTypes
  <2>12. PrimaryRow' /\ Lagging'
    <3>1. table'[Row(Primary)] = table[Row(Primary)]
      BY <2>8, Keys DEF Assumptions
    <3>2. PrimaryRow'
      BY <2>2, <2>10, <3>1 DEF RInv, PrimaryRow
    <3> QED
      BY <2>2, <2>6, <2>8, <2>10, <3>2 DEF RInv, Lagging, Shown
  <2>13. UNCHANGED <<runtime, ctx, wait, late>>
    BY <1>1 DEF record_standby_region_local_purge
  <2>14. PICK c : c = [op[o] EXCEPT !.pc = "activate"]
    OBVIOUS
  <2>15. /\ c \in OpV /\ c.pc = "activate" /\ c.mode = op[o].mode /\ c.src = op[o].src
         /\ c.tgt = op[o].tgt /\ c.q = op[o].q
    BY <1>0, <2>14 DEF OpV
  <2>16. op' = [op EXCEPT ![o] = c]
    BY <1>1, <2>14 DEF Step
  <2>17. ASSUME NEW z \in Operators PROVE Observed(z)' /\ Waited(z)'
    <3>1. Waited(z) /\ ((op'[z] = c /\ z = o) \/ op'[z] = op[z])
      BY <1>0, <2>16 DEF RInv
    <3>2. \A q : Closing(q)' <=> Closing(q)
      BY <2>2, <2>10 DEF Closing
    <3>3. Waited(z)'
      BY <1>0, <2>13, <2>15, <3>1, <3>2 DEF Waited, WaitedBy, Ready, runtime
    <3>4. Observed(z)'
      BY <2>2, <2>6, <2>8, <2>10, <2>13 DEF RInv, Observed, NoneOnItsWay, Admits, Limit, runtime
    <3> QED
      BY <3>3, <3>4
  <2>18. ScriptTypes'
    BY <1>0, <2>13, <2>15, <2>16 DEF RInv, ScriptTypes
  <2>19. ASSUME NEW i \in Instances PROVE Belongs(i)'
    BY <2>2, <2>10, <2>13 DEF RInv, Belongs, Admits, Running, Limit, runtime
  <2>20. RuntimeTypes' /\ LateWaited' /\ Purged' /\ SpentInActivation'
    BY <2>2, <2>10, <2>13 DEF RInv, RuntimeTypes, LateWaited, Ready, Closing, Purged,
      SpentInActivation, runtime
  <2> QED
    BY <2>11, <2>12, <2>17, <2>18, <2>19, <2>20 DEF RInv
<1>2. CASE op' = [op EXCEPT ![o] = Off] /\ UNCHANGED rows
  BY <1>2, OffInv DEF record_standby_region_local_purge, rows, runtime
<1> QED
  BY <1>1, <1>2 DEF record_standby_region_local_purge

LEMMA LandInv ==
    ASSUME Assumptions, RInv, Land
    PROVE  RInv'
<1>1. PICK c : c = late
  OBVIOUS
<1>2. /\ late # None /\ late' = None /\ UNCHANGED <<runtime, op, ctx, wait>>
      /\ \/ c.kind = "quiesce" /\ QuiesceAllowed(c) /\ QuiesceWrite(c)
         \/ c.kind = "activate" /\ ActivateAllowed(c) /\ ActivateWrite(c)
  BY <1>1 DEF Land
<1>3. c \in CallV /\ c.run \in Operators /\ c.q \in Nat
  BY <1>1, <1>2 DEF RInv, ScriptTypes, CallV
<1>4. ScriptTypes'
  BY <1>2 DEF RInv, ScriptTypes
<1>5. CASE c.kind = "quiesce" /\ QuiesceAllowed(c) /\ QuiesceWrite(c)
  BY <1>2, <1>3, <1>4, <1>5, QuiesceInv
<1>6. CASE c.kind = "activate" /\ ActivateAllowed(c) /\ ActivateWrite(c)
  <2>1. Ctl.rev = c.q /\ Closing(c.q)
    BY <1>6 DEF ActivateAllowed, Closing
  <2>2. Ready(c.run, c.q) /\ (c.tgt = Primary => codes[Standby] = {} /\ Standby \notin seen)
    BY <1>1, <1>2, <1>3, <1>6, <2>1 DEF RInv, LateWaited
  <2> QED
    BY <1>2, <1>3, <1>4, <1>6, <2>2, ActivateInv
<1> QED
  BY <1>2, <1>5, <1>6

-----------------------------------------------------------------------------
(* The invariant *)

LEMMA InitInv ==
    ASSUME Assumptions, Init
    PROVE  RInv
<1>1. \A k \in Items : Bootstrap[k] \in RowV \cup CtlV
  BY DEF Bootstrap, RowV, CtlV, NoRow, Regions
<1>2. /\ Bootstrap[Control] = [state |-> "active", region |-> Primary, rev |-> 1, run |-> None,
                               purge |-> 0]
      /\ Bootstrap[Row(Primary)] = [active |-> TRUE, rev |-> 1]
      /\ Bootstrap[Own] = NoRow
  <2>1. Own # Control /\ Own \notin {Row(Primary), Fence(Primary)} /\ Row(Primary) # Control
        /\ Own \in Items /\ Control \in Items /\ Row(Primary) \in Items
    BY Keys DEF Assumptions, Own
  <2> QED
    BY <2>1 DEF Bootstrap
<1>3. /\ Bootstrap[Control] \in CtlV /\ Bootstrap[Own] \in RowV
      /\ \A r \in Regions : Bootstrap[Row(r)] \in RowV
  <2>1. Bootstrap[Control] \in CtlV /\ NoRow \in RowV /\ [active |-> TRUE, rev |-> 1] \in RowV
    BY <1>2 DEF CtlV, RowV, NoRow, Regions
  <2> QED
    BY <1>2, <2>1 DEF Regions, Own
<1>4. /\ Ctl.state = "active" /\ Ctl.region = Primary /\ Ctl.rev = 1
      /\ table = Bootstrap /\ replica = Bootstrap /\ pend = [k \in Items |-> <<>>]
  BY <1>2 DEF Init, Ctl
<1>5. RowTypes
  <2>1. table \in [Items -> RowV \cup CtlV]
    <3>1. Bootstrap = [k \in Items |-> Bootstrap[k]]
      BY DEF Bootstrap
    <3> QED
      BY <1>1, <1>4, <3>1
  <2>2. pend \in [Items -> Seq(RowV \cup CtlV)] /\ pend[Own] \in Seq(RowV)
    BY <1>4, Keys DEF Assumptions
  <2> QED
    BY <1>2, <1>3, <1>4, <2>1, <2>2 DEF RowTypes, Ctl
<1>6. RuntimeTypes /\ ScriptTypes
  <2>1. Fresh \in [obs : RowV, rev : Nat] /\ Off \in OpV
    BY DEF Fresh, NoRow, RowV, Off, OpV, Modes, Regions
  <2>2. [rev |-> 0, left |-> 0] \in WaitV
    BY DEF WaitV
  <2> QED
    BY <2>1, <2>2 DEF Init, RuntimeTypes, ScriptTypes
<1>7. PrimaryRow /\ Lagging
  <2>1. pend[Own] = <<>> /\ replica[Own] = NoRow
    BY <1>2, <1>4, Keys DEF Assumptions
  <2> QED
    BY <1>2, <1>4, <2>1 DEF PrimaryRow, Lagging, Shown, NoRow
<1>8. ASSUME NEW o \in Operators PROVE Observed(o) /\ Waited(o)
  BY <1>4 DEF Init, Observed, Waited, WaitedBy, Off
<1>9. ASSUME NEW i \in Instances PROVE Belongs(i)
  BY DEF Init, Belongs, Admits, Running
<1>10. LateWaited /\ Purged /\ SpentInActivation
  BY Keys DEF Init, LateWaited, Purged, SpentInActivation, Assumptions
<1> QED
  BY <1>5, <1>6, <1>7, <1>8, <1>9, <1>10 DEF RInv

LEMMA NextInv ==
    ASSUME Assumptions, RInv, [Next]_vars
    PROVE  RInv'
<1>1. CASE \E i \in Instances : Invocation(i)
  BY <1>1, ReadInv, AdmitInv, ServeInv, EndInv DEF Invocation
<1>2. CASE \E k \in Items : Replicate(k)
  BY <1>2, ReplicateInv
<1>3. ASSUME NEW o \in Operators, Operator(o) PROVE RInv'
  <2>1. CASE Script(o)
    BY <2>1, QuiesceRegionInv, ObserveInv, StepOnInv, PurgeInv, RecordInv, ActivateRegionInv DEF Script
  <2>2. CASE initialize_context(o) \/ Run(o) \/ rollback_to_primary(o)
    BY <2>2, StartRunInv
  <2>3. CASE Crash(o) \/ Unanswered(o)
    BY <2>3, StepOnInv, UnansweredInv
  <2> QED
    BY <1>3, <2>1, <2>2, <2>3 DEF Operator
<1>4. CASE Mint
  <2>1. UNCHANGED <<rows, script, mem, job, codes, spent, seen>>
    BY <1>4 DEF Mint
  <2>2. RuntimeTypes' /\ SpentInActivation' /\ \A i \in Instances : Belongs(i)'
    BY <2>1 DEF RInv, RuntimeTypes, SpentInActivation, Belongs, Admits, Running, Activation, Ctl,
      Limit, rows
  <2>3. ASSUME NEW o \in Operators, NEW i \in Instances, Closing(wait[o].rev), Admits(i)'
        PROVE  job'[i].left + Quiescence <= wait[o].left + Limit(i)
    BY <2>1, <2>3 DEF RInv, Observed, Closing, Admits
  <2> QED
    BY <2>1, <2>2, <2>3, RuntimeInv
<1>5. CASE Land \/ Lose \/ Tick
  BY <1>5, LandInv, LoseInv, TickInv
<1>6. CASE UNCHANGED vars
  <2>1. UNCHANGED <<table, replica, pend, job, mem, codes, seen, spent, wait, late, op, ctx>>
    BY <1>6 DEF vars, rows, runtime, script
  <2>2. RowTypes' /\ RuntimeTypes' /\ ScriptTypes' /\ PrimaryRow' /\ Lagging'
    BY <2>1 DEF RInv, RowTypes, RuntimeTypes, ScriptTypes, PrimaryRow, Lagging, Shown, Activation,
      Ctl
  <2>3. \A o \in Operators : Observed(o)' /\ Waited(o)'
    BY <2>1 DEF RInv, Observed, NoneOnItsWay, Admits, Limit, Waited, WaitedBy, Ready, Closing, Ctl
  <2>4. \A i \in Instances : Belongs(i)'
    BY <2>1 DEF RInv, Belongs, Admits, Running, Limit, Activation, Ctl
  <2>5. LateWaited' /\ Purged' /\ SpentInActivation'
    BY <2>1 DEF RInv, LateWaited, Ready, Closing, Purged, SpentInActivation, Ctl
  <2> QED
    BY <2>2, <2>3, <2>4, <2>5 DEF RInv
<1> QED
  BY <1>1, <1>2, <1>3, <1>4, <1>5, <1>6 DEF Next

LEMMA RInvariance == ASSUME Assumptions PROVE Spec => []RInv
<1>1. RInv /\ [Next]_vars => RInv'
  BY NextInv
<1>2. Init => RInv
  BY InitInv
<1> QED
  BY <1>1, <1>2, PTL DEF Spec

\* "Exactly one Region may admit requests": for any instances, operators, time
\* limits and number of transitions, what runs belongs to the newest activation,
\* whatever the standby's replica shows and however the runs of the script
\* fail, interfere and repeat.
THEOREM OneRegionAdmits == ASSUME Assumptions PROVE Spec => []WritersAreCurrent
<1>1. RInv => WritersAreCurrent
  BY DEF RInv, WritersAreCurrent, Belongs, Running, Admits
<1> QED
  BY <1>1, RInvariance, PTL

\* No identifier is redeemed in another activation than its own, and the primary
\* never serves while the standby holds something of its last activation.
THEOREM NothingIsCarried == ASSUME Assumptions PROVE Spec => []NothingCarriesOver
<1>1. RInv => NothingCarriesOver
  BY DEF RInv, NothingCarriesOver, StandbyPurged, Purged
<1> QED
  BY <1>1, RInvariance, PTL

-----------------------------------------------------------------------------
(* A client's assertion.  ProofOnce rests on what is behind the time of an   *)
(* activation: while a Region still holds the assertion's replay marker, the *)
(* marker refuses it; once the marker is gone, or another Region serves, the *)
(* assertion was signed before the activation, or has expired (Used).  That  *)
(* is so because the window of an observation outlasts every invocation that *)
(* can have accepted it (Elapsed).                                           *)

ProofAssumptions == Assumptions /\ MaxRev \in Nat /\ MaxRev >= 4 /\ None \notin Int

\* The window of the current shutdown is over, so that nobody serves.
WindowOver == \E o \in Operators : Closing(wait[o].rev) /\ wait[o].left = 0

ProofTypes ==
    /\ age \in [1..MaxRev -> Int] /\ Activation \in 1..MaxRev
    /\ proof \in {None} \cup (-Skew..Expired)
    /\ accepted \in Nat /\ (accepted > 0 => proof # None)

\* The revisions of the coordinator, and those a run goes on to, are within the bound.
InBound == Ctl.rev <= MaxRev /\ (Ctl.state = "quiescing" => Ctl.rev < MaxRev)
Planned ==
    /\ \A o \in Operators : op[o].q < MaxRev /\ ctx[o] + 4 <= MaxRev
    /\ late # None => late.q < MaxRev

\* Whoever accepted the assertion was admitted before the observation.
Elapsed(o) ==
    accepted > 0 /\ Closing(wait[o].rev) =>
        proof = Expired \/ Quiescence <= proof + wait[o].left + ApiLimit + Skew

\* What refuses an assertion that was accepted.
Used ==
    accepted > 0 =>
        \/ proof = Expired \/ Ctl.region \in seen \/ proof > age[Activation] \/ WindowOver

PInv ==
    /\ ProofTypes /\ InBound /\ Planned /\ Used /\ ProofOnce
    /\ \A o \in Operators : Elapsed(o)

\* A purge of the replay markers only happens behind a window, or while the primary serves.
PurgesInOrder ==
    \A o \in Operators :
        op[o].pc = "purge_jti" /\ Ctl.region = Standby => Closing(op[o].q)

LEMMA ProofFacts ==
    ASSUME ProofAssumptions, RInv, PInv
    PROVE  /\ Assumptions /\ Ctl \in CtlV /\ Ctl.rev \in 1..MaxRev /\ Ctl.region \in Regions
           /\ {Quiescence, ApiLimit, Lifetime, Skew, ClockError, Expired} \subseteq Nat
           /\ ApiLimit + Skew + ClockError < Quiescence
           /\ age[Activation] \in Int
           /\ proof # None => proof \in Int /\ -Skew <= proof /\ proof <= Expired
           /\ accepted > 0 => proof \in Int
           /\ op \in [Operators -> OpV] /\ ctx \in [Operators -> Nat]
           /\ wait \in [Operators -> WaitV] /\ late \in {None} \cup CallV
<1>1. /\ Assumptions /\ Ctl \in CtlV /\ Ctl.rev > 0 /\ Ctl.rev <= MaxRev /\ MaxRev \in Nat
      /\ op \in [Operators -> OpV] /\ ctx \in [Operators -> Nat]
      /\ wait \in [Operators -> WaitV] /\ late \in {None} \cup CallV
  BY DEF ProofAssumptions, RInv, RowTypes, ScriptTypes, PInv, InBound
<1>2. Ctl.rev \in 1..MaxRev /\ Ctl.region \in Regions
  BY <1>1 DEF CtlV
<1>3. /\ {Quiescence, ApiLimit, Lifetime, Skew, ClockError, Expired} \subseteq Nat
      /\ ApiLimit + Skew + ClockError < Quiescence
  BY <1>1 DEF Assumptions, TimesAssumption, Expired
<1>4. age[Activation] \in Int /\ (proof # None => proof \in -Skew..Expired)
      /\ (accepted > 0 => proof # None)
  BY DEF PInv, ProofTypes
<1> QED
  BY <1>1, <1>2, <1>3, <1>4

\* Steps that let no time pass and accept nothing keep it, if a replay marker is
\* only lost behind a window.
LEMMA ProofKept ==
    ASSUME ProofAssumptions, RInv, PInv, Planned', UNCHANGED <<age, proof, accepted, wait>>,
           Ctl'.state = Ctl.state, Ctl'.region = Ctl.region, Ctl'.rev = Ctl.rev,
           Ctl.region \in seen => Ctl.region \in seen' \/ WindowOver
    PROVE  PInv'
<1>1. Activation' = Activation /\ \A q : Closing(q)' <=> Closing(q)
  BY DEF Activation, Closing
<1>2. WindowOver' <=> WindowOver
  BY <1>1 DEF WindowOver
<1>3. ProofTypes' /\ ProofOnce' /\ InBound'
  BY <1>1 DEF PInv, ProofTypes, ProofOnce, InBound
<1>4. Used'
  BY <1>1, <1>2 DEF PInv, Used
<1>5. ASSUME NEW o \in Operators PROVE Elapsed(o)'
  BY <1>1 DEF PInv, Elapsed
<1> QED
  BY <1>3, <1>4, <1>5 DEF PInv

\* Invocations, of which only those that authenticate matter.
LEMMA InvocationKeepsProof ==
    ASSUME ProofAssumptions, RInv, PInv, NEW i \in Instances, Invocation(i), ~Authenticate(i)
    PROVE  PInv'
<1>1. UNCHANGED <<rows, script, proof, seen, accepted>>
  BY DEF Invocation, Read, admit, issue_id, Redeem, End, Recycle
<1>2. UNCHANGED <<table, age, proof, accepted, seen, op, ctx, wait, late>>
  BY <1>1 DEF rows, script
<1>3. Planned' /\ Ctl' = Ctl
  BY <1>2 DEF PInv, Planned, Ctl
<1> QED
  BY <1>2, <1>3, ProofKept

\* The Region that serves has no marker of the assertion, and no window is over: so
\* nobody has accepted it.
LEMMA AuthenticateKeepsProof ==
    ASSUME ProofAssumptions, RInv, PInv, NEW i \in Instances, Authenticate(i)
    PROVE  PInv'
<1>0. /\ {Quiescence, ApiLimit, Lifetime, Skew, ClockError, Expired} \subseteq Nat
      /\ age[Activation] \in Int /\ Assumptions
      /\ wait \in [Operators -> WaitV]
  BY ProofFacts
<1>1. /\ Serving(i) /\ proof # None /\ -Skew <= proof /\ proof < Expired
      /\ proof <= age[mem[i].rev]
      /\ Home[i] \notin seen /\ seen' = seen \union {Home[i]} /\ accepted' = accepted + 1
      /\ UNCHANGED <<rows, script, mem, job, codes, spent, proof>>
  BY DEF Authenticate, accepts_external_issued_at
<1>2. UNCHANGED <<table, age, proof, op, ctx, wait, late>>
  BY <1>1 DEF rows, script
<1>3. /\ Home[i] = Ctl.region /\ mem[i].rev = Activation
      /\ \A o \in Operators : ~(Closing(wait[o].rev) /\ wait[o].left = 0)
  BY <1>0, <1>1, ServingFacts
<1>4. proof \in Int
  BY <1>1 DEF PInv, ProofTypes
<1>5. accepted = 0
  <2>1. ~WindowOver
    BY <1>3 DEF WindowOver
  <2>2. accepted \in Nat
    BY DEF PInv, ProofTypes
  <2>3. ~(proof = Expired \/ Ctl.region \in seen \/ proof > age[Activation])
    BY <1>0, <1>1, <1>3, <1>4
  <2> QED
    BY <2>1, <2>2, <2>3 DEF PInv, Used
<1>6. Ctl' = Ctl /\ Activation' = Activation /\ accepted' = 1
  BY <1>1, <1>2, <1>5 DEF Ctl, Activation
<1>7. ProofTypes' /\ InBound' /\ Planned' /\ ProofOnce' /\ Used'
  BY <1>1, <1>2, <1>3, <1>6 DEF PInv, ProofTypes, InBound, Planned, ProofOnce, Used
<1>8. ASSUME NEW o \in Operators PROVE Elapsed(o)'
  <2> SUFFICES ASSUME Closing(wait[o].rev)
               PROVE  Quiescence <= proof + wait[o].left + ApiLimit + Skew
    BY <1>2, <1>6 DEF Elapsed, Closing
  <2>1. Admits(i) /\ Limit(i) = ApiLimit /\ job[i] \in JobV
    BY <1>1 DEF RInv, RuntimeTypes, Belongs, Admits, Running, Serving, Limit
  <2>2. job[i].left + Quiescence <= wait[o].left + ApiLimit
    BY <2>1 DEF RInv, Observed, Closing
  <2>3. job[i].left \in Nat /\ wait[o].left \in Nat
    BY <1>0, <2>1 DEF JobV, WaitV
  <2> QED
    BY <1>0, <1>1, <1>4, <2>2, <2>3
<1> QED
  BY <1>7, <1>8 DEF PInv

LEMMA MintKeepsProof ==
    ASSUME ProofAssumptions, RInv, PInv, Mint
    PROVE  PInv'
<1>0. Skew \in Nat /\ Expired \in Nat
  BY ProofFacts
<1>1. /\ proof = None /\ proof' \in {0, -Skew}
      /\ UNCHANGED <<rows, script, accepted>>
  BY DEF Mint
<1>2. UNCHANGED <<table, age, accepted, op, ctx, wait, late>>
  BY <1>1 DEF rows, script
<1>3. accepted = 0 /\ accepted' = 0
  BY <1>1, <1>2 DEF PInv, ProofTypes
<1>4. proof' \in -Skew..Expired
  BY <1>0, <1>1
<1>5. ProofTypes' /\ InBound' /\ Planned'
  BY <1>2, <1>3, <1>4 DEF PInv, ProofTypes, InBound, Planned, Ctl, Activation
<1>6. ProofOnce' /\ Used' /\ \A o \in Operators : Elapsed(o)'
  BY <1>3 DEF ProofOnce, Used, Elapsed
<1> QED
  BY <1>5, <1>6 DEF PInv

\* The assertion ages as the window passes and as the activation does.
LEMMA TickKeepsProof ==
    ASSUME ProofAssumptions, RInv, PInv, Tick
    PROVE  PInv'
<1>0. /\ {Quiescence, ApiLimit, Lifetime, Skew, ClockError, Expired} \subseteq Nat
      /\ age[Activation] \in Int /\ wait \in [Operators -> WaitV]
      /\ proof # None => proof \in Int /\ -Skew <= proof /\ proof <= Expired
      /\ Cap = Expired + 1
  BY ProofFacts DEF Cap
<1>1. /\ age' = [v \in DOMAIN age |-> IF v <= Activation THEN Older(age[v]) ELSE age[v]]
      /\ proof' = IF proof = None \/ proof = Expired THEN proof ELSE proof + 1
      /\ wait' = [o \in Operators |-> [wait[o] EXCEPT !.left = IF @ > 0 THEN @ - 1 ELSE 0]]
      /\ UNCHANGED <<table, seen, accepted, op, ctx, late>>
  BY DEF Tick
<1>2. Ctl' = Ctl /\ Activation' = Activation
  BY <1>1 DEF Ctl, Activation
<1>3. \A n \in Int : Older(n) \in Int /\ n <= Older(n) /\ Older(n) <= n + 1
  BY <1>0 DEF Older
<1>4. /\ age' \in [1..MaxRev -> Int] /\ age'[Activation] = Older(age[Activation])
  <2>1. age \in [1..MaxRev -> Int] /\ Activation \in 1..MaxRev /\ DOMAIN age = 1..MaxRev
    BY DEF PInv, ProofTypes
  <2>2. ASSUME NEW v \in 1..MaxRev PROVE age'[v] \in Int
    BY <1>1, <1>3, <2>1
  <2>3. Activation <= Activation
    BY <2>1
  <2> QED
    BY <1>1, <2>1, <2>2, <2>3
<1>5. proof # None => /\ proof' \in Int /\ -Skew <= proof' /\ proof' <= Expired /\ proof <= proof'
                      /\ proof' = Expired \/ proof' = proof + 1
  BY <1>0, <1>1
<1>6. ASSUME NEW o \in Operators
      PROVE  /\ wait'[o].rev = wait[o].rev /\ wait[o].left \in Nat /\ wait'[o].left \in Nat
             /\ wait[o].left <= wait'[o].left + 1 /\ (wait[o].left = 0 => wait'[o].left = 0)
  BY <1>0, <1>1 DEF WaitV
<1>7. ProofTypes' /\ InBound' /\ Planned' /\ ProofOnce'
  <2>1. proof' \in {None} \cup (-Skew..Expired)
    BY <1>0, <1>1, <1>5
  <2>2. proof # None => proof' # None
    BY <1>5 DEF ProofAssumptions
  <2> QED
    BY <1>1, <1>2, <1>4, <2>1, <2>2 DEF PInv, ProofTypes, InBound, Planned, ProofOnce
<1>8. ASSUME accepted > 0 PROVE proof \in Int /\ proof # None
  BY <1>0, <1>8 DEF PInv, ProofTypes
<1>9. WindowOver => WindowOver'
  BY <1>2, <1>6 DEF WindowOver, Closing
<1>10. Used'
  <2> SUFFICES ASSUME accepted > 0
               PROVE  \/ proof' = Expired \/ Ctl.region \in seen \/ proof' > age'[Activation]
                      \/ WindowOver'
    BY <1>1, <1>2 DEF Used
  <2>1. CASE proof = Expired
    BY <1>1, <2>1
  <2>2. CASE Ctl.region \in seen \/ WindowOver
    BY <1>9, <2>2
  <2>3. CASE proof > age[Activation]
    <3>1. CASE proof' = Expired
      BY <3>1
    <3>2. CASE proof' = proof + 1
      <4>1. age'[Activation] \in Int /\ age'[Activation] <= age[Activation] + 1
        BY <1>0, <1>3, <1>4
      <4>2. proof + 1 > age'[Activation]
        BY <1>0, <1>8, <2>3, <4>1
      <4> QED
        BY <3>2, <4>2
    <3> QED
      BY <1>5, <1>8, <3>1, <3>2
  <2> QED
    BY <2>1, <2>2, <2>3 DEF PInv, Used
<1>11. ASSUME NEW o \in Operators PROVE Elapsed(o)'
  <2> SUFFICES ASSUME accepted > 0, Closing(wait[o].rev), proof' # Expired
               PROVE  Quiescence <= proof' + wait'[o].left + ApiLimit + Skew
    BY <1>1, <1>2, <1>6 DEF Elapsed, Closing
  <2>1. proof # Expired /\ proof' = proof + 1
    BY <1>1, <1>5, <1>8
  <2>2. Quiescence <= proof + wait[o].left + ApiLimit + Skew
    BY <2>1 DEF PInv, Elapsed
  <2> QED
    BY <1>0, <1>6, <1>8, <2>1, <2>2
<1> QED
  BY <1>7, <1>10, <1>11 DEF PInv

\* An observation starts its window anew only if it is of another shutdown.
LEMMA ObserveKeepsProof ==
    ASSUME ProofAssumptions, RInv, PInv, Planned', NEW o \in Operators, Observe(o)
    PROVE  PInv'
<1>0. /\ {Quiescence, ApiLimit, Lifetime, Skew, ClockError, Expired} \subseteq Nat
      /\ wait \in [Operators -> WaitV]
      /\ proof # None => proof \in Int /\ -Skew <= proof
  BY ProofFacts
<1>1. /\ Ctl.rev = op[o].q
      /\ wait' = [wait EXCEPT ![o] =
                    IF wait[o].rev = op[o].q THEN wait[o]
                    ELSE [rev |-> op[o].q, left |-> Quiescence]]
      /\ UNCHANGED <<rows, runtime>>
  BY DEF Observe, assert_quiesced, QuiescedRows, Ctl
<1>2. UNCHANGED <<table, age, proof, accepted, seen>> /\ Ctl' = Ctl /\ Activation' = Activation
  BY <1>1 DEF rows, runtime, Ctl, Activation
<1>3. ASSUME NEW z \in Operators
      PROVE  \/ wait'[z] = wait[z]
             \/ wait[z].rev # Ctl.rev /\ wait'[z].rev = Ctl.rev /\ wait'[z].left = Quiescence
  BY <1>0, <1>1
<1>4. WindowOver => WindowOver'
  BY <1>2, <1>3 DEF WindowOver, Closing
<1>5. ProofTypes' /\ InBound' /\ ProofOnce' /\ Used'
  BY <1>2, <1>4 DEF PInv, ProofTypes, InBound, ProofOnce, Used
<1>6. ASSUME NEW z \in Operators PROVE Elapsed(z)'
  <2>1. CASE wait'[z] = wait[z]
    BY <1>2, <2>1 DEF PInv, Elapsed, Closing
  <2>2. CASE wait'[z].left = Quiescence
    <3>1. accepted > 0 => proof # None
      BY DEF PInv, ProofTypes
    <3> QED
      BY <1>0, <1>2, <2>2, <3>1 DEF Elapsed
  <2> QED
    BY <1>3, <2>1, <2>2
<1> QED
  BY <1>5, <1>6 DEF PInv

LEMMA PutControl ==
    ASSUME Assumptions, RInv, NEW x, NEW r, NEW row, Put(Moved(x, r, row)), r \in Regions
    PROVE  Ctl' = x
<1>1. Control \in Items /\ Row(r) # Control /\ Fence(r) # Control /\ table \in [Items -> RowV \cup CtlV]
  BY Keys DEF Assumptions, RInv, RowTypes
<1> QED
  BY <1>1 DEF Put, Moved, Ctl

\* A shutdown is not yet observed.
LEMMA QuiesceKeepsProof ==
    ASSUME ProofAssumptions, RInv, PInv, Planned', NEW c \in CallV, c.q < MaxRev,
           QuiesceAllowed(c), QuiesceWrite(c), UNCHANGED <<runtime, wait>>
    PROVE  PInv'
<1>0. Assumptions /\ Ctl.rev \in 1..MaxRev /\ MaxRev \in Nat /\ c.q \in Nat /\ c.src \in Regions
      /\ wait \in [Operators -> WaitV]
  BY ProofFacts DEF CallV, ProofAssumptions
<1>1. Ctl.state = "active" /\ Ctl.region = c.src /\ Ctl.rev = c.q - 1
  BY DEF QuiesceAllowed
<1>2. /\ Ctl' = [state |-> "quiescing", region |-> c.src, rev |-> c.q, run |-> c.run, purge |-> 0]
      /\ age' = age
  BY <1>0, PutControl DEF QuiesceWrite
<1>3. /\ Ctl'.state = "quiescing" /\ Ctl'.region = Ctl.region /\ Ctl'.rev = c.q
      /\ UNCHANGED <<proof, accepted, seen, age>>
  BY <1>1, <1>2 DEF runtime
<1>4. Activation' = Activation
  BY <1>0, <1>1, <1>3 DEF Activation
<1>5. ProofTypes' /\ InBound' /\ ProofOnce'
  BY <1>0, <1>3, <1>4 DEF PInv, ProofTypes, InBound, ProofOnce
<1>6. ~WindowOver
  BY <1>1 DEF WindowOver, Closing
<1>7. Used'
  BY <1>3, <1>4, <1>6 DEF PInv, Used
<1>8. ASSUME NEW z \in Operators PROVE Elapsed(z)'
  <2>1. wait[z].rev \in Nat /\ wait[z].rev <= Ctl.rev
    BY <1>0 DEF RInv, Observed, WaitV
  <2>2. ~Closing(wait[z].rev)'
    BY <1>0, <1>1, <1>3, <2>1 DEF Closing
  <2> QED
    BY <2>2 DEF Elapsed
<1> QED
  BY <1>5, <1>7, <1>8 DEF PInv

\* An assertion accepted before is older than the next activation, even if the operator's
\* clock is behind.
LEMMA ActivateKeepsProof ==
    ASSUME ProofAssumptions, RInv, PInv, Planned', NEW c \in CallV, c.q < MaxRev,
           ActivateAllowed(c), ActivateWrite(c), Ready(c.run, c.q), UNCHANGED <<runtime, wait>>
    PROVE  PInv'
<1>0. /\ Assumptions /\ Ctl \in CtlV /\ Ctl.rev \in 1..MaxRev /\ MaxRev \in Nat
      /\ c.q \in Nat /\ c.tgt \in Regions /\ c.run \in Operators
      /\ {Quiescence, ApiLimit, Skew, ClockError, Expired} \subseteq Nat
      /\ ApiLimit + Skew + ClockError < Quiescence
      /\ accepted > 0 => proof \in Int
  BY ProofFacts DEF CallV, ProofAssumptions
<1>1. Ctl.state = "quiescing" /\ Ctl.rev = c.q
  BY DEF ActivateAllowed
<1>2. PICK n \in Nat : n = c.q + 1
  BY <1>0
<1>3. /\ Ctl' = [Ctl EXCEPT !.state = "active", !.region = c.tgt, !.rev = n, !.run = c.run]
      /\ UNCHANGED <<proof, accepted, seen>>
  BY <1>0, <1>2, PutControl DEF ActivateWrite, runtime
<1>4. Ctl'.state = "active" /\ Ctl'.rev = n
  BY <1>0, <1>3 DEF CtlV
<1>5. n \in 1..MaxRev /\ Activation' = n
  BY <1>0, <1>2, <1>4 DEF Activation
<1>6. PICK e \in -ClockError..ClockError : age' = [age EXCEPT ![n] = e]
  BY <1>2 DEF ActivateWrite
<1>7. e \in Int /\ e <= ClockError
  BY <1>0, <1>6
<1>8. age' \in [1..MaxRev -> Int] /\ age'[n] = e
  BY <1>5, <1>6, <1>7 DEF PInv, ProofTypes
<1>9. ProofTypes' /\ InBound' /\ ProofOnce'
  BY <1>0, <1>3, <1>4, <1>5, <1>8 DEF PInv, ProofTypes, InBound, ProofOnce
<1>10. Closing(wait[c.run].rev) /\ wait[c.run].left = 0
  BY <1>0, <1>1 DEF Ready, Closing
<1>11. Used'
  <2> SUFFICES ASSUME accepted > 0, proof # Expired PROVE proof > age'[Activation']
    BY <1>3 DEF Used
  <2>1. Quiescence <= proof + 0 + ApiLimit + Skew
    BY <1>0, <1>10 DEF PInv, Elapsed
  <2>2. proof > e
    BY <1>0, <1>7, <2>1
  <2> QED
    BY <1>5, <1>8, <2>2
<1>12. ASSUME NEW z \in Operators PROVE Elapsed(z)'
  BY <1>4 DEF Elapsed, Closing
<1> QED
  BY <1>9, <1>11, <1>12 DEF PInv

-----------------------------------------------------------------------------
LEMMA PlannedBy ==
    ASSUME ProofAssumptions, RInv, PInv, NEW o \in Operators, NEW c, c.q < MaxRev,
           op' = [op EXCEPT ![o] = c], UNCHANGED ctx,
           late' = late \/ late' = None \/ late'.q < MaxRev
    PROVE  Planned'
<1>1. ASSUME NEW z \in Operators PROVE op'[z] = op[z] \/ op'[z] = c
  BY ProofFacts
<1> QED
  BY <1>1 DEF PInv, Planned

\* No step plans beyond the bound.
LEMMA PlannedNext ==
    ASSUME ProofAssumptions, RInv, PInv, Next
    PROVE  Planned'
<1>0. /\ op \in [Operators -> OpV] /\ ctx \in [Operators -> Nat] /\ MaxRev \in Nat /\ MaxRev >= 4
      /\ Ctl.rev \in 1..MaxRev
      /\ \A z \in Operators : op[z].q \in Nat /\ op[z].q < MaxRev /\ ctx[z] + 4 <= MaxRev
  BY ProofFacts DEF ProofAssumptions, OpV, PInv, Planned
<1>1. CASE UNCHANGED <<op, ctx>> /\ (late' = late \/ late' = None)
  BY <1>1 DEF PInv, Planned
<1>2. ASSUME NEW o \in Operators, Operator(o) PROVE Planned'
  <2>0. op[o] \in OpV /\ op[o].q \in Nat /\ op[o].q < MaxRev /\ ctx[o] \in Nat
    BY <1>0
  <2>1. ASSUME NEW pc, Step(o, pc), UNCHANGED <<ctx, late>> PROVE Planned'
    <3>1. PICK c : c = [op[o] EXCEPT !.pc = pc]
      OBVIOUS
    <3>2. c.q = op[o].q /\ op' = [op EXCEPT ![o] = c]
      BY <1>0, <2>0, <2>1, <3>1 DEF Step, OpV
    <3> QED
      BY <2>0, <2>1, <3>2, PlannedBy
  <2>2. ASSUME op' = [op EXCEPT ![o] = Off], UNCHANGED <<ctx, late>> PROVE Planned'
    <3>1. Off.q < MaxRev
      BY <1>0 DEF Off
    <3> QED
      BY <2>2, <3>1, PlannedBy
  <2>3. ASSUME NEW pc, NEW mode, NEW src, NEW tgt, NEW q, Begin(o, pc, mode, src, tgt, q), q < MaxRev
        PROVE  Planned'
    BY <2>3, PlannedBy DEF Begin
  <2>4. CASE initialize_context(o)
    <3>1. UNCHANGED <<op, late>> /\ ctx' = [ctx EXCEPT ![o] = Ctl.rev] /\ Ctl.rev + 4 <= MaxRev
      BY <2>4 DEF initialize_context
    <3>2. ASSUME NEW z \in Operators PROVE ctx'[z] + 4 <= MaxRev
      BY <1>0, <3>1
    <3> QED
      BY <3>1, <3>2 DEF PInv, Planned
  <2>5. CASE Run(o)
    <3>1. Ctl.state = "quiescing" => Ctl.rev < MaxRev
      BY DEF PInv, InBound
    <3>2. ctx[o] + 4 <= MaxRev
      BY <1>0
    <3>3. PICK pc, src, tgt, q : Begin(o, pc, "run", src, tgt, q) /\ q < MaxRev
      <4>1. CASE Ctl.rev = ctx[o] /\ Begin(o, "quiesce", "run", Primary, Standby, Ctl.rev + 1)
        <5>1. Ctl.rev + 1 < MaxRev
          BY <1>0, <2>0, <3>2, <4>1
        <5> QED
          BY <4>1, <5>1
      <4>2. CASE Ctl.state = "quiescing" /\ Begin(o, "assert", "run", Primary, Standby, Ctl.rev)
        BY <3>1, <4>2
      <4>3. CASE Begin(o, "serve", "run", Primary, Standby, Ctl.rev - 1)
        <5>1. Ctl.rev - 1 < MaxRev
          BY <1>0
        <5> QED
          BY <4>3, <5>1
      <4>4. CASE Ctl.state = "quiescing" /\ Begin(o, "assert", "run", Standby, Primary, Ctl.rev)
        BY <3>1, <4>4
      <4> QED
        BY <2>5, <4>1, <4>2, <4>3, <4>4 DEF Run
    <3> QED
      BY <2>3, <3>3
  <2>6. CASE rollback_to_primary(o)
    <3>1. Ctl.state = "quiescing" => Ctl.rev < MaxRev
      BY DEF PInv, InBound
    <3>2. CASE Begin(o, "purge", "rollback", Primary, Primary, 0)
      BY <1>0, <2>3, <3>2
    <3>3. CASE Ctl.rev + 2 <= MaxRev /\ Begin(o, "quiesce", "rollback", Standby, Primary, Ctl.rev + 1)
      <4>1. Ctl.rev + 1 < MaxRev
        BY <1>0, <3>3
      <4> QED
        BY <2>3, <3>3, <4>1
    <3>4. CASE Ctl.state = "quiescing" /\ Begin(o, "assert", "rollback", Ctl.region, Primary, Ctl.rev)
      BY <2>3, <3>1, <3>4
    <3> QED
      BY <2>6, <3>2, <3>3, <3>4 DEF rollback_to_primary
  <2>7. CASE purge_standby_region_local_tables(o)
    <3>1. PICK c : /\ c \in {Off, [op[o] EXCEPT !.pc = "purge_jti"], [op[o] EXCEPT !.pc = "record"],
                              [op[o] EXCEPT !.pc = "activate"]}
                   /\ op' = [op EXCEPT ![o] = c]
      BY <1>0, <2>7 DEF purge_standby_region_local_tables, Step
    <3>2. c.q < MaxRev
      BY <1>0, <2>0, <3>1 DEF Off, OpV
    <3>3. UNCHANGED <<ctx, late>>
      BY <2>7 DEF purge_standby_region_local_tables
    <3> QED
      BY <3>1, <3>2, <3>3, PlannedBy
  <2>8. CASE Serve(o)
    <3>1. PICK q \in Nat : q = ctx[o] + 3
      BY <2>0
    <3>2. q < MaxRev
      BY <1>0, <3>1
    <3>3. PICK c : /\ c \in {Off, [op[o] EXCEPT !.pc = "quiesce", !.src = Standby, !.tgt = Primary, !.q = q]}
                   /\ op' = [op EXCEPT ![o] = c]
      BY <1>0, <2>8, <3>1 DEF Serve
    <3>4. c.q < MaxRev
      <4>1. CASE c = Off
        BY <1>0, <4>1 DEF Off
      <4>2. CASE c = [op[o] EXCEPT !.pc = "quiesce", !.src = Standby, !.tgt = Primary, !.q = q]
        <5>1. c.q = q
          BY <2>0, <4>2 DEF OpV
        <5> QED
          BY <3>2, <5>1
      <4> QED
        BY <3>3, <4>1, <4>2
    <3> QED
      BY <2>8, <3>3, <3>4, PlannedBy DEF Serve
  <2>9. CASE Unanswered(o)
    <3>1. op[o].q < MaxRev /\ Call(o, op[o].pc).q = op[o].q
      BY <2>0 DEF Call
    <3>2. UNCHANGED ctx /\ (late' = late \/ late'.q < MaxRev)
      BY <2>9, <3>1 DEF Unanswered
    <3>3. CASE op' = [op EXCEPT ![o] = Off]
      <4>1. Off.q < MaxRev
        BY <1>0 DEF Off
      <4> QED
        BY <3>2, <3>3, <4>1, PlannedBy
    <3>4. CASE op' = op
      BY <1>0, <3>2, <3>4 DEF PInv, Planned
    <3> QED
      BY <2>9, <3>3, <3>4 DEF Unanswered
  <2>10. CASE \/ quiesce_region(o) \/ Observe(o) \/ wait_quiescence(o) \/ activate_region(o)
              \/ record_standby_region_local_purge(o) \/ GiveUp(o) \/ Crash(o)
    BY <2>1, <2>2, <2>10 DEF quiesce_region, Observe, wait_quiescence, activate_region,
      record_standby_region_local_purge, GiveUp, Crash
  <2> QED
    BY <1>2, <2>4, <2>5, <2>6, <2>7, <2>8, <2>9, <2>10 DEF Operator, Script
<1>3. \A i \in Instances : Invocation(i) => UNCHANGED <<op, ctx, late>>
  BY DEF Invocation, Read, admit, issue_id, Redeem, Authenticate, End, Recycle, script
<1>4. \A k \in Items : Replicate(k) => UNCHANGED <<op, ctx, late>>
  BY DEF Replicate, script
<1>5. Mint \/ Land \/ Lose \/ Tick => UNCHANGED <<op, ctx>> /\ (late' = late \/ late' = None)
  BY DEF Mint, Land, Lose, Tick, script
<1> QED
  BY <1>1, <1>2, <1>3, <1>4, <1>5 DEF Next

-----------------------------------------------------------------------------
\* The purge of the replay table is behind a window, or there is no marker.
LEMMA PurgeKeepsProof ==
    ASSUME ProofAssumptions, RInv, PInv, Planned', PurgesInOrder,
           NEW o \in Operators, purge_standby_region_local_tables(o)
    PROVE  PInv'
<1>1. UNCHANGED <<table, age, proof, accepted, wait>> /\ Ctl' = Ctl
  BY DEF purge_standby_region_local_tables, rows, Ctl
<1>2. CASE UNCHANGED seen
  BY <1>1, <1>2, ProofKept
<1>3. CASE op[o].pc = "purge_jti" /\ seen' = seen \ {Standby}
  <2>1. ASSUME Ctl.region = Standby PROVE WindowOver
    <3>1. Closing(op[o].q) /\ Ctl.rev > 0 /\ Ctl.rev \in Nat
      BY <1>3, <2>1, ProofFacts DEF PurgesInOrder, ProofAssumptions
    <3>2. wait[o].rev = op[o].q /\ wait[o].left = 0
      BY <1>3, <3>1 DEF RInv, Waited, WaitedBy, Ready, Closing
    <3> QED
      BY <3>1, <3>2 DEF WindowOver
  <2> QED
    BY <1>1, <1>3, <2>1, ProofKept
<1> QED
  BY <1>2, <1>3 DEF purge_standby_region_local_tables

\* The record of a purge leaves the coordinator's state, Region and revision alone.
LEMMA RecordKeepsProof ==
    ASSUME ProofAssumptions, RInv, PInv, Planned',
           NEW o \in Operators, record_standby_region_local_purge(o)
    PROVE  PInv'
<1>1. UNCHANGED <<age, proof, accepted, seen, wait>>
  BY DEF record_standby_region_local_purge, rows, runtime
<1>2. /\ Ctl \in CtlV /\ Control \in Items /\ table \in [Items -> RowV \cup CtlV]
  BY ProofFacts, Keys DEF Assumptions, RInv, RowTypes
<1>3. Ctl'.state = Ctl.state /\ Ctl'.region = Ctl.region /\ Ctl'.rev = Ctl.rev
  <2>1. CASE Put([table EXCEPT ![Control].purge = op[o].q])
    <3>1. Ctl' = [Ctl EXCEPT !.purge = op[o].q]
      BY <1>2, <2>1 DEF Put, Ctl
    <3> QED
      BY <1>2, <3>1 DEF CtlV
  <2>2. CASE UNCHANGED rows
    BY <2>2 DEF rows, Ctl
  <2> QED
    BY <2>1, <2>2 DEF record_standby_region_local_purge
<1> QED
  BY <1>1, <1>3, ProofKept

LEMMA ProofNext ==
    ASSUME ProofAssumptions, RInv, PInv, PurgesInOrder, Next
    PROVE  PInv'
<1>0. Planned' /\ op \in [Operators -> OpV] /\ late \in {None} \cup CallV
  BY PlannedNext, ProofFacts
<1>1. CASE UNCHANGED <<table, age, proof, accepted, seen, wait>>
  BY <1>0, <1>1, ProofKept DEF Ctl
<1>2. ASSUME NEW i \in Instances, Invocation(i) PROVE PInv'
  BY <1>2, InvocationKeepsProof, AuthenticateKeepsProof
<1>3. ASSUME NEW k \in Items, Replicate(k) PROVE PInv'
  BY <1>1, <1>3 DEF Replicate, runtime, script
<1>4. ASSUME NEW o \in Operators, Operator(o) PROVE PInv'
  <2>0. op[o] \in OpV /\ op[o].q < MaxRev
    BY <1>0 DEF PInv, Planned
  <2>1. CASE quiesce_region(o)
    <3>1. CASE UNCHANGED rows
      BY <1>1, <2>1, <3>1 DEF quiesce_region, rows, runtime
    <3>2. CASE QuiesceAllowed(Call(o, "quiesce")) /\ QuiesceWrite(Call(o, "quiesce"))
      <4>1. PICK c : c = Call(o, "quiesce")
        OBVIOUS
      <4>2. c \in CallV /\ c.q < MaxRev
        BY <2>0, <4>1 DEF Call, CallV, OpV
      <4> QED
        BY <1>0, <2>1, <3>2, <4>1, <4>2, QuiesceKeepsProof DEF quiesce_region
    <3> QED
      BY <2>1, <3>1, <3>2 DEF quiesce_region
  <2>2. CASE activate_region(o)
    <3>1. CASE UNCHANGED rows
      BY <1>1, <2>2, <3>1 DEF activate_region, rows, runtime
    <3>2. CASE ActivateAllowed(Call(o, "activate")) /\ ActivateWrite(Call(o, "activate"))
      <4>1. PICK c : c = Call(o, "activate")
        OBVIOUS
      <4>2. c \in CallV /\ c.q < MaxRev /\ c.run = o /\ c.q = op[o].q
        BY <2>0, <4>1 DEF Call, CallV, OpV
      <4>3. Ready(c.run, c.q)
        BY <2>2, <4>2 DEF activate_region, RInv, Waited, WaitedBy
      <4> QED
        BY <1>0, <2>2, <3>2, <4>1, <4>2, <4>3, ActivateKeepsProof DEF activate_region
    <3> QED
      BY <2>2, <3>1, <3>2 DEF activate_region
  <2>3. CASE \/ wait_quiescence(o) \/ Serve(o) \/ GiveUp(o) \/ initialize_context(o) \/ Run(o)
             \/ rollback_to_primary(o) \/ Crash(o) \/ Unanswered(o)
    BY <1>1, <2>3 DEF wait_quiescence, Serve, GiveUp, initialize_context, Run,
      rollback_to_primary, Begin, Crash, Unanswered, rows, runtime
  <2> QED
    BY <1>0, <1>4, <2>1, <2>2, <2>3, ObserveKeepsProof, PurgeKeepsProof, RecordKeepsProof
      DEF Operator, Script
<1>5. CASE Land
  <2>1. PICK c : c = late
    OBVIOUS
  <2>2. /\ c \in CallV /\ c.q < MaxRev /\ UNCHANGED <<runtime, wait>>
    BY <1>0, <1>5, <2>1 DEF Land, PInv, Planned
  <2>3. CASE QuiesceAllowed(c) /\ QuiesceWrite(c)
    BY <1>0, <2>2, <2>3, QuiesceKeepsProof
  <2>4. CASE c.kind = "activate" /\ ActivateAllowed(c) /\ ActivateWrite(c)
    <3>1. Ctl.rev = c.q /\ c.q \in Nat
      BY <2>2, <2>4 DEF ActivateAllowed, CallV
    <3>2. Ready(c.run, c.q)
      BY <1>5, <2>1, <2>4, <3>1 DEF Land, RInv, LateWaited
    <3> QED
      BY <1>0, <2>2, <2>4, <3>2, ActivateKeepsProof
  <2> QED
    BY <1>5, <2>1, <2>3, <2>4 DEF Land
<1>6. CASE Lose
  BY <1>1, <1>6 DEF Lose, rows, runtime
<1> QED
  BY <1>2, <1>3, <1>4, <1>5, <1>6, MintKeepsProof, TickKeepsProof DEF Next

LEMMA ProofInit ==
    ASSUME ProofAssumptions, Init
    PROVE  PInv
<1>1. Ctl.state = "active" /\ Ctl.rev = 1 /\ Activation = 1
  <2>1. Control \in Items
    BY Keys DEF ProofAssumptions, Assumptions
  <2>2. Ctl = [state |-> "active", region |-> Primary, rev |-> 1, run |-> None, purge |-> 0]
    BY <2>1 DEF Init, Bootstrap, Ctl
  <2> QED
    BY <2>2 DEF Activation
<1>2. Cap \in Int
  BY DEF ProofAssumptions, Assumptions, TimesAssumption, Cap, Expired
<1>3. ProofTypes /\ InBound
  BY <1>1, <1>2 DEF Init, ProofTypes, InBound, ProofAssumptions
<1>4. Planned
  BY DEF Init, Planned, Off, ProofAssumptions
<1>5. Used /\ ProofOnce /\ \A o \in Operators : Elapsed(o)
  BY DEF Init, Used, ProofOnce, Elapsed
<1> QED
  BY <1>3, <1>4, <1>5 DEF PInv

-----------------------------------------------------------------------------
(* A single run of the script *)

\* While a run waits or purges, nobody else moves the coordinator.
InOrder(o) ==
    /\ op[o].pc = "wait" => Closing(op[o].q)
    /\ op[o].pc \in {"purge", "purge_jti"} => Closing(op[o].q) \/ Ctl.region = Primary

OneRun == ~LateCalls /\ \A o, z \in Operators : o = z

LEMMA InOrderNext ==
    ASSUME Assumptions, OneRun, RInv, late = None, \A o \in Operators : InOrder(o), [Next]_vars
    PROVE  late' = None /\ \A o \in Operators : InOrder(o)'
<1>0. op \in [Operators -> OpV] /\ Primary \in Regions
  BY Keys DEF RInv, ScriptTypes, Assumptions
<1>1. CASE UNCHANGED <<table, op, late>>
  BY <1>1 DEF InOrder, Closing, Ctl
<1>2. ASSUME NEW o \in Operators, Operator(o) PROVE late' = None /\ \A z \in Operators : InOrder(z)'
  <2>1. late' = None
    BY <1>2 DEF Operator, Script, quiesce_region, Observe, wait_quiescence,
      purge_standby_region_local_tables, record_standby_region_local_purge, activate_region, Serve,
      GiveUp, initialize_context, Run, rollback_to_primary, Begin, Crash, Unanswered, OneRun
  <2>2. SUFFICES InOrder(o)'
    BY <2>1 DEF OneRun
  <2>3. CASE op'[o].pc \notin {"wait", "purge", "purge_jti"}
    BY <2>3 DEF InOrder
  <2>4. op[o] \in OpV
    BY <1>0
  <2>5. ASSUME NEW pc, Step(o, pc) PROVE op'[o].pc = pc /\ op'[o].q = op[o].q
    BY <1>0, <2>4, <2>5 DEF Step, OpV
  <2>6. op' = [op EXCEPT ![o] = Off] => op'[o].pc = "off"
    BY <1>0 DEF Off
  <2>7. CASE quiesce_region(o) \/ record_standby_region_local_purge(o) \/ activate_region(o)
    BY <2>3, <2>5, <2>6, <2>7 DEF quiesce_region, record_standby_region_local_purge, activate_region
  <2>8. CASE GiveUp(o) \/ Crash(o)
    BY <2>3, <2>6, <2>8 DEF GiveUp, Crash
  <2>9. CASE Serve(o)
    <3>1. op'[o].pc \in {"off", "quiesce"}
      BY <1>0, <2>4, <2>9 DEF Serve, Off, OpV
    <3> QED
      BY <2>3, <3>1
  <2>10. CASE Observe(o)
    BY <2>5, <2>10 DEF Observe, assert_quiesced, QuiescedRows, InOrder, Closing, Ctl, rows
  <2>11. CASE wait_quiescence(o)
    <3>1. Closing(op[o].q) /\ op'[o].q = op[o].q /\ Ctl' = Ctl /\ op'[o].pc = AfterWait(o)
      BY <2>5, <2>11 DEF wait_quiescence, InOrder, Ctl, rows
    <3>2. AfterWait(o) \in {"activate", "purge"}
      BY DEF AfterWait
    <3> QED
      BY <3>1, <3>2 DEF InOrder, Closing
  <2>12. CASE purge_standby_region_local_tables(o)
    <3>1. Ctl' = Ctl
      BY <2>12 DEF purge_standby_region_local_tables, Ctl, rows
    <3>2. CASE op[o].pc = "purge" /\ Step(o, "purge_jti")
      BY <2>5, <3>1, <3>2 DEF InOrder, Closing
    <3>3. CASE op[o].pc = "purge_jti"
      <4>1. op'[o].pc \in {"off", "record", "activate"}
        BY <1>0, <2>4, <2>12, <3>3 DEF purge_standby_region_local_tables, Off, OpV
      <4> QED
        BY <2>3, <4>1
    <3> QED
      BY <2>12, <3>2, <3>3 DEF purge_standby_region_local_tables
  <2>13. CASE initialize_context(o)
    BY <1>1, <2>13 DEF initialize_context, rows, OneRun
  <2>14. CASE Run(o)
    <3>1. op'[o].pc \in {"quiesce", "assert", "serve"}
      BY <1>0, <2>14 DEF Run, Begin
    <3> QED
      BY <2>3, <3>1
  <2>15. CASE rollback_to_primary(o)
    <3>1. \/ op'[o].pc \in {"quiesce", "assert"}
          \/ op'[o].pc = "purge" /\ Ctl.region = Primary /\ Ctl' = Ctl
      BY <1>0, <2>15 DEF rollback_to_primary, Begin, rows, Ctl
    <3> QED
      BY <2>3, <3>1 DEF InOrder
  <2>16. CASE Unanswered(o)
    <3>1. op'[o].pc \in {"off", "activate"}
      BY <1>0, <2>4, <2>6, <2>16 DEF Unanswered
    <3> QED
      BY <2>3, <3>1
  <2> QED
    BY <1>2, <2>7, <2>8, <2>9, <2>10, <2>11, <2>12, <2>13, <2>14, <2>15, <2>16 DEF Operator, Script
<1>3. \A i \in Instances : Invocation(i) => UNCHANGED <<table, op, late>>
  BY DEF Invocation, Read, admit, issue_id, Redeem, Authenticate, End, Recycle, rows, script
<1>4. \A k \in Items : Replicate(k) => UNCHANGED <<table, op, late>>
  BY DEF Replicate, script
<1>5. Mint \/ Tick \/ UNCHANGED vars => UNCHANGED <<table, op, late>>
  BY DEF Mint, Tick, rows, script, vars
<1>6. ~Land /\ ~Lose
  BY DEF Land, Lose
<1> QED
  BY <1>1, <1>2, <1>3, <1>4, <1>5, <1>6 DEF Next

LEMMA OrderInvariance == ASSUME Assumptions, OneRun PROVE Spec => []PurgesInOrder
<1> DEFINE OInv == late = None /\ \A o \in Operators : InOrder(o)
<1>1. Init => OInv
  BY DEF Init, InOrder, Off
<1>2. RInv /\ OInv /\ [Next]_vars => OInv'
  BY InOrderNext
<1>3. OInv => PurgesInOrder
  BY DEF InOrder, PurgesInOrder, Assumptions
<1> QED
  BY <1>1, <1>2, <1>3, RInvariance, PTL DEF Spec

\* One client assertion authenticates once, as long as no replay marker is purged while the
\* standby serves: for any instances, runs, faults, late transactions, lifetimes and skews
\* for which a window outlasts an invocation.
THEOREM MarkersSuffice ==
    ASSUME ProofAssumptions PROVE Spec /\ []PurgesInOrder => []ProofOnce
<1>1. Init => PInv
  BY ProofInit
<1>2. RInv /\ PInv /\ PurgesInOrder /\ [Next]_vars => PInv'
  <2> SUFFICES ASSUME RInv, PInv, PurgesInOrder, UNCHANGED vars PROVE PInv'
    BY ProofNext
  <2>1. UNCHANGED <<table, age, proof, accepted, seen, wait, op, ctx, late>>
    BY DEF vars, rows, runtime, script
  <2>2. Planned' /\ Ctl' = Ctl
    BY <2>1 DEF PInv, Planned, Ctl
  <2> QED
    BY <2>1, <2>2, ProofKept
<1>3. PInv => ProofOnce
  BY DEF PInv
<1>4. Spec => []RInv
  BY RInvariance DEF ProofAssumptions
<1> QED
  BY <1>1, <1>2, <1>3, <1>4, PTL DEF Spec

\* So it is in a single run of the script whose transactions do not land late.
THEOREM AssertionIsUsedOnce ==
    ASSUME ProofAssumptions, OneRun PROVE Spec => []ProofOnce
BY MarkersSuffice, OrderInvariance, PTL DEF ProofAssumptions
=============================================================================
