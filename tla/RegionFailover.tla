--------------------------- MODULE RegionFailover ---------------------------
(***************************************************************************)
(* Handing the service from one Region to the other.  Every invocation is   *)
(* admitted by the three control rows of its own Region's replica: the      *)
(* coordinator, the Region's row and that row's fence.  The operator's      *)
(* failover script moves the rows with conditional transactions at the      *)
(* primary; the rows reach the standby's replica one by one.  The script    *)
(* faults and is run again, two runs interfere, calls are lost and land    *)
(* late, and invocations outlive the control rows that admitted them.       *)
(*                                                                         *)
(* An activation's activation_not_before is kept as the time since then,    *)
(* by revision; it is negative while an operator's clock that runs ahead    *)
(* keeps the Region waiting.                                                *)
(***************************************************************************)
EXTENDS Integers, Sequences

CONSTANTS
    Primary, Standby,
    Instances,     \* runtimes: containers of Lambda functions
    Home,          \* the Region of each
    Workers,       \* the ones that run background passes
    Operators,     \* runs of the failover script, by RUN_ID
    Quiescence,    \* QUIESCENCE_SECS, 330 s
    ApiLimit,      \* time limit of an API invocation, 10 s
    WorkerLimit,   \* time limit of a background invocation, 300 s
    Lifetime,      \* MAX_ASSERTION_LIFETIME_SECS, 300 s
    Skew,          \* CLOCK_SKEW_SECS, 30 s
    ClockError,    \* error of the operator's clock, delay of its call included
    Follow,        \* what is followed, of "codes" and "assertion"
    LateCalls,     \* whether a transaction without answer may be applied later
    MaxRev,        \* bound on the revisions
    MaxFaults,     \* bound on the crashes and lost calls of the script
    None

Regions == {Primary, Standby}

\* Every invocation, and every proof it can have accepted, is over before the
\* next Region's activation_not_before.
TimesAssumption ==
    /\ {Quiescence, ApiLimit, WorkerLimit, Lifetime, Skew, ClockError} \subseteq Nat
    /\ ApiLimit + Skew + ClockError < Quiescence
    /\ WorkerLimit < Quiescence
InstancesAssumption ==
    Home \in [Instances -> Regions] /\ Workers \subseteq Instances

VARIABLES
    table,     \* RegionControlTable at the primary, by key
    replica,   \* the standby's replica
    pend,      \* versions of each row that have not reached the replica
    age,       \* time since activation_not_before, by revision
    mem,       \* an instance's observed_control and active_revision
    job,       \* its invocation, or None
    codes,     \* a Region's unredeemed artifacts, by revision of their id
    spent,     \* redemptions: revision of the id, activation at that time
    proof,     \* time since a client assertion's iat, or None
    seen,      \* Regions whose replay table holds the assertion
    accepted,  \* times the assertion was accepted
    op,        \* the operators: step, mode and transition
    ctx,       \* initial revision persisted by a run, 0 before
    wait,      \* its persisted observation: revision and time left
    late,      \* a transaction without answer that may still be applied
    faults

rows == <<table, replica, pend, age>>
runtime == <<mem, job, codes, spent, proof, seen, accepted>>
script == <<op, ctx, wait, late, faults>>
vars == <<rows, runtime, script>>

Control == <<None, "control">>
Row(r) == <<r, "row">>
Fence(r) == <<r, "fence">>
Items == {Control} \union {Row(r) : r \in Regions} \union {Fence(r) : r \in Regions}

NoRow == [active |-> FALSE, rev |-> 0]
Fresh == [obs |-> NoRow, rev |-> 0]
Off == [pc |-> "off", mode |-> "run", src |-> Primary, tgt |-> Primary, q |-> 0]

View(r) == IF r = Primary THEN table ELSE replica
Ctl == table[Control]

\* The newest activation: a quiescence is the revision after it.
Activation == IF Ctl.state = "active" THEN Ctl.rev ELSE Ctl.rev - 1
Expired == Lifetime + Skew + 1
Cap == Expired + 1

-----------------------------------------------------------------------------
(* Admission of an invocation, and what it does *)

Coordinated(v, r) ==
    /\ v[Row(r)].active
    /\ v[Control].state = "active"
    /\ v[Control].region = r
    /\ v[Control].rev = v[Row(r)].rev

\* DynamoRegionControlStore::get and parse_coordinated_snapshot: an absent row,
\* a row unlike its fence, and an active row unlike the coordinator admit nobody.
Readable(v, r) ==
    /\ v[Row(r)] # NoRow
    /\ v[Row(r)] = v[Fence(r)]
    /\ v[Row(r)].active => Coordinated(v, r)

Limit(i) == IF i \in Workers THEN WorkerLimit ELSE ApiLimit

\* admit up to the answer of the control store.
Read(i) ==
    LET rec == View(Home[i])[Row(Home[i])] IN
    /\ job[i] = None
    /\ Readable(View(Home[i]), Home[i])
    /\ job' = [job EXCEPT ![i] =
         [pc |-> "read", rec |-> rec, left |-> Limit(i),
          due |-> rec.active /\ age[rec.rev] >= 0]]
    /\ UNCHANGED <<rows, script, mem, codes, spent, proof, seen, accepted>>

\* The rest of admit: a rollback or a change without a new revision is an error.
admit(i) ==
    /\ job[i] # None
    /\ job[i].pc = "read"
    /\ LET rec == job[i].rec
           obs == mem[i].obs
           ok == rec.rev > obs.rev \/ rec = obs
       IN /\ job' = [job EXCEPT ![i] =
                       IF ok /\ rec.active /\ @.due THEN [@ EXCEPT !.pc = "run"] ELSE None]
          /\ mem' = [mem EXCEPT ![i] =
                       [obs |-> IF rec.rev > obs.rev THEN rec ELSE obs,
                        rev |-> IF ok /\ rec.active /\ job[i].due THEN rec.rev ELSE @.rev]]
    /\ UNCHANGED <<rows, script, codes, spent, proof, seen, accepted>>

Running(i) == job[i] # None /\ job[i].pc = "run"
Serving(i) == Running(i) /\ i \notin Workers

\* A new identifier carries the Region and the revision of its instance.
issue_id(i) ==
    /\ "codes" \in Follow
    /\ Serving(i)
    /\ codes' = [codes EXCEPT ![Home[i]] = @ \union {mem[i].rev}]
    /\ UNCHANGED <<rows, script, mem, job, spent, proof, seen, accepted>>

\* Mutant: identifiers of the Region's earlier activations are accepted.
OwnsRegion(i, v) == mem[i].rev # 0

owns_id(i, v) == mem[i].rev # 0 /\ v = mem[i].rev

\* A code, session or request of the Region's own table is redeemed.
Redeem(i) ==
    /\ Serving(i)
    /\ \E v \in codes[Home[i]] :
         /\ owns_id(i, v)
         /\ codes' = [codes EXCEPT ![Home[i]] = @ \ {v}]
         /\ spent' = spent \union {<<v, Activation>>}
    /\ UNCHANGED <<rows, script, mem, job, proof, seen, accepted>>

\* A client signs one assertion, its clock ahead by at most the accepted skew.
Mint ==
    /\ "assertion" \in Follow
    /\ proof = None
    /\ \E a \in {0, -Skew} : proof' = a
    /\ UNCHANGED <<rows, script, mem, job, codes, spent, seen, accepted>>

\* Mutant: the time of the activation is not compared.
AcceptsAnyIssuedAt(i) == mem[i].rev # 0

accepts_external_issued_at(i) == mem[i].rev # 0 /\ proof <= age[mem[i].rev]

\* Authentication by private_key_jwt: claims, Region, then the replay table.
Authenticate(i) ==
    /\ Serving(i)
    /\ proof # None
    /\ -Skew <= proof /\ proof < Expired
    /\ accepts_external_issued_at(i)
    /\ Home[i] \notin seen
    /\ seen' = seen \union {Home[i]}
    /\ accepted' = accepted + 1
    /\ UNCHANGED <<rows, script, mem, job, codes, spent, proof>>

\* An invocation answers, fails, or is stopped at its limit.
End(i) ==
    /\ job[i] # None
    /\ job' = [job EXCEPT ![i] = None]
    /\ UNCHANGED <<rows, script, mem, codes, spent, proof, seen, accepted>>

\* A container is replaced by a cold one.
Recycle(i) ==
    /\ job[i] = None
    /\ mem[i] # Fresh
    /\ mem' = [mem EXCEPT ![i] = Fresh]
    /\ UNCHANGED <<rows, script, job, codes, spent, proof, seen, accepted>>

-----------------------------------------------------------------------------
(* The control rows *)

\* The next version of one row reaches the standby.
Replicate(k) ==
    /\ pend[k] # <<>>
    /\ replica' = [replica EXCEPT ![k] = Head(pend[k])]
    /\ pend' = [pend EXCEPT ![k] = Tail(@)]
    /\ UNCHANGED <<table, age, runtime, script>>

Put(t) ==
    /\ table' = t
    /\ pend' = [k \in Items |-> IF t[k] # table[k] THEN Append(pend[k], t[k]) ELSE pend[k]]
    /\ UNCHANGED replica

Moved(c, r, row) ==
    [table EXCEPT ![Control] = c, ![Row(r)] = row, ![Fence(r)] = row]

\* The transactions of quiesce_region and activate_region, conditions first.
QuiesceAllowed(c) ==
    /\ Ctl.state = "active" /\ Ctl.region = c.src /\ Ctl.rev = c.q - 1
    /\ \A k \in {Row(c.src), Fence(c.src)} : table[k].active /\ table[k].rev = c.q - 1

QuiesceWrite(c) ==
    /\ Put(Moved([state |-> "quiescing", region |-> c.src, rev |-> c.q,
                  run |-> c.run, purge |-> 0],
                 c.src, [active |-> FALSE, rev |-> c.q]))
    /\ UNCHANGED age

\* Mutant: the purge revision is required whatever the source.
ActivateNeedsPurge(c) ==
    /\ Ctl.state = "quiescing" /\ Ctl.region = c.src /\ Ctl.rev = c.q /\ Ctl.run = c.run
    /\ Ctl.purge = c.q
    /\ \A k \in {Row(c.tgt), Fence(c.tgt)} : ~table[k].active /\ table[k].rev < c.q + 1

ActivateAllowed(c) ==
    /\ Ctl.state = "quiescing" /\ Ctl.region = c.src /\ Ctl.rev = c.q /\ Ctl.run = c.run
    /\ c.src = Standby => Ctl.purge = c.q
    /\ \A k \in {Row(c.tgt), Fence(c.tgt)} : ~table[k].active /\ table[k].rev < c.q + 1

ActivateWrite(c) ==
    /\ Put(Moved([Ctl EXCEPT !.state = "active", !.region = c.tgt, !.rev = c.q + 1,
                             !.run = c.run],
                 c.tgt, [active |-> TRUE, rev |-> c.q + 1]))
    /\ \E e \in -ClockError..ClockError : age' = [age EXCEPT ![c.q + 1] = e]

-----------------------------------------------------------------------------
(* The operator's script: e2e/region_failover.sh *)

Step(o, pc) == op' = [op EXCEPT ![o].pc = pc]
Call(o, kind) ==
    [kind |-> kind, run |-> o, src |-> op[o].src, tgt |-> op[o].tgt, q |-> op[o].q]

Begin(o, pc, mode, src, tgt, q) ==
    /\ op' = [op EXCEPT ![o] = [pc |-> pc, mode |-> mode, src |-> src, tgt |-> tgt, q |-> q]]
    /\ UNCHANGED <<rows, runtime, ctx, wait, late, faults>>

\* Mutant: the planned revisions start from the first quiescence.
PlannedLate(o) ==
    /\ op[o] = Off
    /\ ctx[o] = 0
    /\ Ctl.state = "active" /\ Ctl.region = Primary
    /\ table[Row(Primary)].active /\ table[Row(Primary)].rev = Ctl.rev
    /\ Ctl.rev + 4 <= MaxRev
    /\ ctx' = [ctx EXCEPT ![o] = Ctl.rev + 1]
    /\ UNCHANGED <<rows, runtime, op, wait, late, faults>>

\* initialize_context: a new run starts from an active primary.
initialize_context(o) ==
    /\ op[o] = Off
    /\ ctx[o] = 0
    /\ Ctl.state = "active" /\ Ctl.region = Primary
    /\ table[Row(Primary)].active /\ table[Row(Primary)].rev = Ctl.rev
    /\ Ctl.rev + 4 <= MaxRev
    /\ ctx' = [ctx EXCEPT ![o] = Ctl.rev]
    /\ UNCHANGED <<rows, runtime, op, wait, late, faults>>

\* ACTION=run, from whichever of the planned revisions the coordinator is at.
Run(o) ==
    /\ op[o] = Off
    /\ ctx[o] # 0
    /\ \/ /\ Ctl.rev = ctx[o] /\ Ctl.state = "active" /\ Ctl.region = Primary
          /\ Begin(o, "quiesce", "run", Primary, Standby, Ctl.rev + 1)
       \/ /\ Ctl.rev = ctx[o] + 1 /\ Ctl.state = "quiescing"
          /\ Begin(o, "assert", "run", Primary, Standby, Ctl.rev)
       \/ /\ Ctl.rev = ctx[o] + 2 /\ Ctl.state = "active" /\ Ctl.region = Standby
          /\ Begin(o, "serve", "run", Primary, Standby, Ctl.rev - 1)
       \/ /\ Ctl.rev = ctx[o] + 3 /\ Ctl.state = "quiescing"
          /\ Begin(o, "assert", "run", Standby, Primary, Ctl.rev)

\* ACTION=rollback.
rollback_to_primary(o) ==
    /\ op[o] = Off
    /\ ctx[o] # 0
    /\ \/ /\ Ctl.state = "active" /\ Ctl.region = Primary
          /\ Begin(o, "purge", "rollback", Primary, Primary, 0)
       \/ /\ Ctl.state = "active" /\ Ctl.region = Standby
          /\ Ctl.rev + 2 <= MaxRev
          /\ Begin(o, "quiesce", "rollback", Standby, Primary, Ctl.rev + 1)
       \/ /\ Ctl.state = "quiescing"
          /\ Begin(o, "assert", "rollback", Ctl.region, Primary, Ctl.rev)

QuiescedRows(v, o) ==
    LET c == v[Control]
        row == v[Row(op[o].src)]
    IN /\ c.state = "quiescing" /\ c.region = op[o].src /\ c.rev = op[o].q /\ c.run = o
       /\ ~row.active /\ row.rev = op[o].q
       /\ row = v[Fence(op[o].src)]

\* quiesce_region: applied, whether or not the answer arrives (desired_quiesced
\* sees it), or refused.
quiesce_region(o) ==
    /\ op[o].pc = "quiesce"
    /\ \/ /\ QuiesceAllowed(Call(o, "quiesce"))
          /\ QuiesceWrite(Call(o, "quiesce"))
          /\ Step(o, "assert")
       \/ /\ ~QuiesceAllowed(Call(o, "quiesce"))
          /\ op' = [op EXCEPT ![o] = Off]
          /\ UNCHANGED rows
    /\ UNCHANGED <<runtime, ctx, wait, late, faults>>

\* Mutant: the window starts when the primary confirms the shutdown.
QuiescedAtPrimary(o) == QuiescedRows(table, o)

\* assert_quiesced: both replicas confirm.
assert_quiesced(o) == QuiescedRows(table, o) /\ QuiescedRows(replica, o)

\* Mutant: a run keeps one observation for all of its transitions.
ObserveOnce(o) ==
    /\ op[o].pc = "assert"
    /\ assert_quiesced(o)
    /\ wait' = [wait EXCEPT ![o] =
                  IF @.rev # 0 THEN @ ELSE [rev |-> op[o].q, left |-> Quiescence]]
    /\ Step(o, "wait")
    /\ UNCHANGED <<rows, runtime, ctx, late, faults>>

\* wait_quiescence up to the persisted observation.
Observe(o) ==
    /\ op[o].pc = "assert"
    /\ assert_quiesced(o)
    /\ wait' = [wait EXCEPT ![o] =
                  IF @.rev = op[o].q THEN @ ELSE [rev |-> op[o].q, left |-> Quiescence]]
    /\ Step(o, "wait")
    /\ UNCHANGED <<rows, runtime, ctx, late, faults>>

\* Mutant: a failback records the purge without doing it.
PurgeSkipped(o) == IF op[o].mode = "run" /\ op[o].src = Primary THEN "activate" ELSE "record"

\* What follows the window: only a failover skips the purge.
AfterWait(o) == IF op[o].mode = "run" /\ op[o].src = Primary THEN "activate" ELSE "purge"

\* wait_quiescence from the observation to its deadline.
wait_quiescence(o) ==
    /\ op[o].pc = "wait"
    /\ wait[o].left = 0
    /\ Step(o, AfterWait(o))
    /\ UNCHANGED <<rows, runtime, ctx, wait, late, faults>>

\* purge_standby_region_local_tables, table by table: codes and the like, then
\* the replay table.
purge_standby_region_local_tables(o) ==
    /\ \/ /\ op[o].pc = "purge"
          /\ codes' = [codes EXCEPT ![Standby] = {}]
          /\ Step(o, "purge_jti")
          /\ UNCHANGED seen
       \/ /\ op[o].pc = "purge_jti"
          /\ seen' = seen \ {Standby}
          /\ op' = [op EXCEPT ![o] =
                      IF @.q = 0 THEN Off
                      ELSE [@ EXCEPT !.pc = IF op[o].src = Standby THEN "record" ELSE "activate"]]
          /\ UNCHANGED codes
    /\ UNCHANGED <<rows, mem, job, spent, proof, accepted, ctx, wait, late, faults>>

\* record_standby_region_local_purge.
record_standby_region_local_purge(o) ==
    /\ op[o].pc = "record"
    /\ \/ /\ Ctl.state = "quiescing" /\ Ctl.region = op[o].src
          /\ Ctl.rev = op[o].q /\ Ctl.run = o
          /\ Put([table EXCEPT ![Control].purge = op[o].q])
          /\ Step(o, "activate")
          /\ UNCHANGED age
       \/ /\ ~QuiescedRows(table, o)
          /\ op' = [op EXCEPT ![o] = Off]
          /\ UNCHANGED rows
    /\ UNCHANGED <<runtime, ctx, wait, late, faults>>

\* desired_active.
ActiveRows(v, o) ==
    /\ Coordinated(v, op[o].tgt)
    /\ v[Control].rev = op[o].q + 1 /\ v[Control].run = o
    /\ v[Row(op[o].tgt)] = v[Fence(op[o].tgt)]

\* activate_region: tried until it is applied or its time is up.
activate_region(o) ==
    /\ op[o].pc = "activate"
    /\ \/ /\ ActivateAllowed(Call(o, "activate"))
          /\ ActivateWrite(Call(o, "activate"))
          /\ Step(o, "serve")
          /\ UNCHANGED late
       \/ /\ ActiveRows(table, o)
          /\ Step(o, "serve")
          /\ UNCHANGED <<rows, late>>
       \/ /\ ~ActiveRows(table, o)
          /\ ~ActivateAllowed(Call(o, "activate"))
          /\ op' = [op EXCEPT ![o] = Off]
          /\ UNCHANGED <<rows, late>>
    /\ UNCHANGED <<runtime, ctx, wait, faults>>

\* assert_coordinated_writer.
SoleWriter(r) ==
    \A v \in {table, replica} :
      /\ Coordinated(v, r)
      /\ v[Row(r)] = v[Fence(r)]
      /\ \A s \in Regions \ {r} : ~v[Row(s)].active

\* The target serves; a drill goes on to fail back, every other run is over.
Serve(o) ==
    /\ op[o].pc = "serve"
    /\ SoleWriter(op[o].tgt)
    /\ op' = [op EXCEPT ![o] =
                IF @.mode = "run" /\ @.tgt = Standby
                THEN [@ EXCEPT !.pc = "quiesce", !.src = Standby, !.tgt = Primary,
                               !.q = ctx[o] + 3]
                ELSE Off]
    /\ UNCHANGED <<rows, runtime, ctx, wait, late, faults>>

\* The host stops, or a check of the script runs into its deadline.
Crash(o) ==
    /\ op[o] # Off
    /\ faults < MaxFaults
    /\ faults' = faults + 1
    /\ op' = [op EXCEPT ![o] = Off]
    /\ UNCHANGED <<rows, runtime, ctx, wait, late>>

\* A transaction gets no answer and is seen not to be applied: the script fails,
\* an activation may be tried again.
Unanswered(o) ==
    /\ op[o].pc \in {"quiesce", "activate"}
    /\ faults < MaxFaults
    /\ faults' = faults + 1
    /\ late' = IF LateCalls THEN Call(o, op[o].pc) ELSE late
    /\ \/ op' = [op EXCEPT ![o] = Off]
       \/ op[o].pc = "activate" /\ UNCHANGED op
    /\ UNCHANGED <<rows, runtime, ctx, wait>>

\* assert_quiesced and assert_coordinated_writer give up after 120 s.
GiveUp(o) ==
    /\ \/ op[o].pc = "assert" /\ ~QuiescedRows(table, o)
       \/ op[o].pc = "serve" /\ ~Coordinated(table, op[o].tgt)
    /\ op' = [op EXCEPT ![o] = Off]
    /\ UNCHANGED <<rows, runtime, ctx, wait, late, faults>>

\* A transaction whose caller heard nothing reaches the table after all.
Land ==
    /\ late # None
    /\ \/ late.kind = "quiesce" /\ QuiesceAllowed(late) /\ QuiesceWrite(late)
       \/ late.kind = "activate" /\ ActivateAllowed(late) /\ ActivateWrite(late)
    /\ late' = None
    /\ UNCHANGED <<runtime, op, ctx, wait, faults>>

Lose ==
    /\ late # None
    /\ late' = None
    /\ UNCHANGED <<rows, runtime, op, ctx, wait, faults>>

Older(t) == IF t < Cap THEN t + 1 ELSE t

Tick ==
    /\ \A i \in Instances : job[i] # None => job[i].left > 0
    /\ age' = [v \in DOMAIN age |-> IF v <= Activation THEN Older(age[v]) ELSE age[v]]
    /\ job' = [i \in Instances |->
                 IF job[i] = None THEN None ELSE [job[i] EXCEPT !.left = @ - 1]]
    /\ proof' = IF proof = None \/ proof = Expired THEN proof ELSE proof + 1
    /\ wait' = [o \in Operators |->
                  [wait[o] EXCEPT !.left = IF @ > 0 THEN @ - 1 ELSE 0]]
    /\ UNCHANGED <<table, replica, pend, mem, codes, spent, seen, accepted,
                   op, ctx, late, faults>>

-----------------------------------------------------------------------------
Bootstrap ==
    [k \in Items |->
       IF k = Control
       THEN [state |-> "active", region |-> Primary, rev |-> 1, run |-> None, purge |-> 0]
       ELSE IF k \in {Row(Primary), Fence(Primary)} THEN [active |-> TRUE, rev |-> 1]
       ELSE NoRow]

Init ==
    /\ table = Bootstrap
    /\ replica = Bootstrap
    /\ pend = [k \in Items |-> <<>>]
    /\ age = [v \in 1..MaxRev |-> IF v = 1 THEN Cap ELSE 0]
    /\ mem = [i \in Instances |-> Fresh]
    /\ job = [i \in Instances |-> None]
    /\ codes = [r \in Regions |-> {}]
    /\ spent = {}
    /\ proof = None
    /\ seen = {}
    /\ accepted = 0
    /\ op = [o \in Operators |-> Off]
    /\ ctx = [o \in Operators |-> 0]
    /\ wait = [o \in Operators |-> [rev |-> 0, left |-> 0]]
    /\ late = None
    /\ faults = 0

Invocation(i) ==
    Read(i) \/ admit(i) \/ issue_id(i) \/ Redeem(i) \/ Authenticate(i) \/ End(i) \/ Recycle(i)

Script(o) ==
    \/ quiesce_region(o) \/ Observe(o) \/ wait_quiescence(o)
    \/ purge_standby_region_local_tables(o) \/ record_standby_region_local_purge(o)
    \/ activate_region(o) \/ Serve(o) \/ GiveUp(o)

Operator(o) ==
    Script(o) \/ initialize_context(o) \/ Run(o) \/ rollback_to_primary(o)
    \/ Crash(o) \/ Unanswered(o)

Next ==
    \/ \E i \in Instances : Invocation(i)
    \/ \E k \in Items : Replicate(k)
    \/ \E o \in Operators : Operator(o)
    \/ Mint \/ Land \/ Lose \/ Tick

Spec == Init /\ [][Next]_vars

-----------------------------------------------------------------------------
Modes == {"run", "rollback"}
RowValues == [active : BOOLEAN, rev : 0..MaxRev]
ControlValues ==
    [state : {"active", "quiescing"}, region : Regions, rev : 1..MaxRev,
     run : Operators \union {None}, purge : 0..MaxRev]
ItemValues(k) == IF k = Control THEN ControlValues ELSE RowValues

\* Every record has the shape the code gives it, and a run's five planned
\* revisions are within the bound.
TypeOK ==
    /\ \A k \in Items :
         /\ table[k] \in ItemValues(k)
         /\ replica[k] \in ItemValues(k)
         /\ \A n \in DOMAIN pend[k] : pend[k][n] \in ItemValues(k)
    /\ age \in [1..MaxRev -> -ClockError..Cap]
    /\ mem \in [Instances -> [obs : RowValues, rev : 0..MaxRev]]
    /\ \A i \in Instances :
         job[i] # None => job[i] \in [pc : {"read", "run"}, rec : RowValues,
                                      left : 0..Limit(i), due : BOOLEAN]
    /\ codes \in [Regions -> SUBSET (1..MaxRev)]
    /\ spent \subseteq (1..MaxRev) \X (1..MaxRev)
    /\ proof \in {None} \union (-Skew..Expired)
    /\ seen \subseteq Regions
    /\ accepted \in Nat
    /\ op \in [Operators -> [pc : {"off", "quiesce", "assert", "wait", "purge", "purge_jti",
                                  "record", "activate", "serve"},
                             mode : Modes, src : Regions, tgt : Regions, q : 0..MaxRev]]
    /\ ctx \in [Operators -> 0..(MaxRev - 4)]
    /\ wait \in [Operators -> [rev : 0..MaxRev, left : 0..Quiescence]]
    /\ faults \in 0..MaxFaults

\* "Exactly one Region may admit requests": every admitted invocation, however
\* long it runs and whatever its replica shows, belongs to the newest
\* activation, so none survives into the next Region's.
WritersAreCurrent ==
    \A i \in Instances :
      Running(i) => Home[i] = Ctl.region /\ mem[i].rev = Activation

\* An identifier is only ever redeemed in the activation that issued it, though
\* the primary's tables keep the identifiers of its earlier activations.
SpentInActivation == \A s \in spent : s[1] = s[2]

\* One client assertion authenticates once, across Regions that do not share a
\* replay table and a standby whose replay table was emptied.
ProofOnce == accepted <= 1

\* While the primary serves, the standby holds no artifact and no replay marker
\* of its own activation: nothing is written behind the purge.
StandbyPurged ==
    Ctl.state = "active" /\ Ctl.region = Primary => codes[Standby] = {} /\ Standby \notin seen

\* Neither of them passes from one activation to another.
NothingCarriesOver == SpentInActivation /\ StandbyPurged

=============================================================================
