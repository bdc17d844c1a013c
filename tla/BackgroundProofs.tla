------------------------- MODULE BackgroundProofs ---------------------------
(***************************************************************************)
(* Theorems about what runs beside the requests: the delivery of security  *)
(* events, the reclaim of clients, the recomputation of the policy and the *)
(* rotation of the administrator credentials. This module extends the      *)
(* component of the deliveries, as MCBackground does, and has the others as*)
(* instances: Reclaim, Policy, Rotation. No theorem is about two of them.  *)
(***************************************************************************)
EXTENDS SsfDelivery, Integers, Sequences, TLAPS

(***************************************************************************)
(* Deliveries: one SET per delivery, a bound on its attempts, no lease     *)
(* behind a change of the stream, nothing deliverable after the offboarding,*)
(* and a lease nobody else ends.                                           *)
(*                                                                         *)
(* None of them is inductive: a task acts on what a lagging index showed   *)
(* it. They need that what is shown is never wrong about the revision and  *)
(* the SET, only late (Shown), and that a settled delivery is nobody's.    *)
(***************************************************************************)

Working == {"sign", "persist", "push", "finish"}
DeliveryV == [status : Statuses, rev : Nat, set : Nat, lease : {None} \cup Workers,
              leaseOver : BOOLEAN, due : BOOLEAN, attempts : Nat, cycle : Nat,
              redrives : Nat, cycleOld : BOOLEAN, windowOld : BOOLEAN]
TaskV == [pc : PCs, event : Events \cup {None}, seen : DeliveryV, set : Nat,
          result : Results, current : BOOLEAN]

Types ==
    /\ rec \in [Events -> DeliveryV] /\ index \in [Events -> DeliveryV]
    /\ task \in [Workers -> TaskV]
    /\ pushed \subseteq Events \X Nat
    /\ stream \in [status : {"enabled", "paused", "revoked"}, rev : Nat]

\* A copy d of the delivery of e may be old, but not about its revision and its SET.
Shown(d, e) ==
    /\ d.rev = rec[e].rev
    /\ d.set # NoSet => d.set = rec[e].set

Recorded(e) ==
    /\ rec[e].status = "absent" => rec[e].set = NoSet
    /\ rec[e].lease # None => rec[e].status \in Active
    /\ rec[e].status \in Active => rec[e].cycle < MaxCycle /\ rec[e].attempts < MaxTotal
    /\ index[e].status # "absent" => rec[e].status # "absent" /\ Shown(index[e], e)

On(t) ==
    t.pc # "idle" =>
      /\ t.event \in Events
      /\ rec[t.event].status # "absent"
      /\ Shown(t.seen, t.event)
      /\ t.pc = "persist" => t.set # NoSet
      /\ t.pc = "push" => t.set # NoSet /\ t.set = rec[t.event].set
      /\ t.pc \in Working => t.current
OnTask(w) == On(task[w])

PushedIsRecorded == \A p \in pushed : p[2] # NoSet /\ p[2] = rec[p[1]].set

Ended ==
    /\ removal # "none" => stream.status = "revoked"
    /\ RemovalIsFinal

DInv ==
    /\ Types
    /\ \A e \in Events : Recorded(e)
    /\ \A w \in Workers : OnTask(w)
    /\ PushedIsRecorded /\ Ended

Assumptions == SsfAssumption /\ None \notin Workers /\ None \notin Events

-----------------------------------------------------------------------------
LEMMA InitInv ==
    ASSUME Assumptions, Init
    PROVE  DInv
<1>1. Absent \in DeliveryV
  BY DEF Absent, DeliveryV, Statuses, None, NoSet
<1>2. Idle \in TaskV /\ Idle.pc = "idle"
  BY <1>1 DEF Idle, TaskV, PCs, Results, NoSet
<1>3. Types
  BY <1>1, <1>2 DEF Init, Types
<1>4. \A e \in Events : Recorded(e)
  BY DEF Init, Recorded, Absent, Active
<1>5. \A w \in Workers : OnTask(w)
  BY <1>2 DEF Init, OnTask, On
<1> QED
  BY <1>3, <1>4, <1>5 DEF Init, DInv, PushedIsRecorded, Ended, RemovalIsFinal

\* A record and a task that change: the record keeps its revision and its SET, is
\* nobody's once it is settled, and only becomes deliverable while the stream is enabled.
LEMMA RecordInv ==
    ASSUME Assumptions, DInv, NEW e \in Events, NEW d \in DeliveryV,
           rec' = [rec EXCEPT ![e] = d],
           UNCHANGED <<stream, removal, pushed>>,
           index' = index \/ \E x \in DeliveryV : /\ index' = [index EXCEPT ![e] = x]
                                   /\ x.status = index[e].status /\ x.rev = index[e].rev
                                   /\ x.set = index[e].set,
           task' = task \/ \E w \in Workers, t \in TaskV : task' = [task EXCEPT ![w] = t] /\ On(t)',
           d.rev = rec[e].rev \/ rec[e].status = "absent",
           rec[e].set # NoSet => d.set = rec[e].set,
           d.status = "absent" => rec[e].status = "absent" /\ d.set = NoSet,
           d.lease # None => d.status \in Active,
           d.status \in Active => d.cycle < MaxCycle /\ d.attempts < MaxTotal,
           d.status \in Active => rec[e].status \in Active \/ stream.status = "enabled"
    PROVE  DInv'
<1>2. /\ rec'[e] = d /\ \A f \in Events : f # e => rec'[f] = rec[f]
      /\ \A f \in Events : /\ index'[f].status = index[f].status /\ index'[f].rev = index[f].rev
                           /\ index'[f].set = index[f].set
  BY DEF DInv, Types
<1>1. Types'
  BY DEF DInv, Types
<1>3. ASSUME NEW f \in Events PROVE Recorded(f)'
  BY <1>2 DEF DInv, Recorded, Shown
<1>4. ASSUME NEW w \in Workers PROVE OnTask(w)'
  <2>1. ASSUME task'[w] = task[w] PROVE On(task[w])'
    BY <1>2, <2>1 DEF DInv, OnTask, On, Shown
  <2>2. ASSUME NEW t \in TaskV, task'[w] = t, On(t)' PROVE On(task[w])'
    BY <2>2 DEF On, Shown
  <2>3. task'[w] = task[w] \/ \E t \in TaskV : task'[w] = t /\ On(t)'
    BY DEF DInv, Types
  <2> QED
    BY <2>1, <2>2, <2>3 DEF OnTask
<1>5. PushedIsRecorded'
  BY <1>2 DEF DInv, PushedIsRecorded, Types
<1>6. Ended'
  BY <1>2 DEF DInv, Ended, RemovalIsFinal
<1> QED
  BY <1>1, <1>3, <1>4, <1>5, <1>6 DEF DInv

\* A step of a task that writes no record.
LEMMA TaskInv ==
    ASSUME Assumptions, DInv, NEW w \in Workers, NEW t \in TaskV, On(t), t.pc = "idle" \/ t.event \in Events,
           task' = [task EXCEPT ![w] = t],
           UNCHANGED <<stream, removal, rec, index>>,
           \/ pushed' = pushed
           \/ /\ task[w].pc = "push" /\ pushed' = pushed \cup {<<task[w].event, task[w].set>>}
    PROVE  DInv'
<1>1. \A v \in Workers : task'[v] = task[v] \/ task'[v] = t
  BY DEF DInv, Types
<1>2. On(t)'
  BY DEF On, Shown
<1>3. ASSUME NEW v \in Workers PROVE OnTask(v)'
  <2>1. ASSUME task'[v] = task[v] PROVE On(task[v])'
    BY <2>1 DEF DInv, OnTask, On, Shown
  <2>2. ASSUME task'[v] = t PROVE On(task[v])'
    BY <1>2, <2>2 DEF On, Shown
  <2> QED
    BY <1>1, <2>1, <2>2 DEF OnTask
<1>4. \A e \in Events : Recorded(e)'
  BY DEF DInv, Recorded, Shown
<1>5. task[w].pc = "push" =>
        /\ task[w].event \in Events /\ task[w].set \in Nat
        /\ task[w].set # NoSet /\ task[w].set = rec[task[w].event].set
  BY DEF DInv, Types, OnTask, On, TaskV
<1>6. Types'
  BY <1>5 DEF DInv, Types
<1>7. PushedIsRecorded'
  BY <1>5 DEF DInv, PushedIsRecorded
<1>8. Ended'
  BY DEF DInv, Ended, RemovalIsFinal
<1> QED
  BY <1>3, <1>4, <1>6, <1>7, <1>8 DEF DInv

-----------------------------------------------------------------------------
(* The stream, the index and the history *)

LEMMA StreamInv ==
    ASSUME Assumptions, DInv,
           \/ \E status \in {"enabled", "paused", "revoked"} : Mutate(status)
           \/ \E e \in Events : Occur(e) \/ IndexCatchUp(e)
           \/ RemoveTenant \/ RemovalDone
    PROVE  DInv'
<1>1. /\ UNCHANGED <<rec, task, pushed>>
      /\ index' = index \/ \E e \in Events : index' = [index EXCEPT ![e] = rec[e]]
  BY DEF Mutate, Occur, IndexCatchUp, RemoveTenant, RemovalDone
<1>2. /\ stream' \in [status : {"enabled", "paused", "revoked"}, rev : Nat]
      /\ Ended'
  <2>1. CASE \E status \in {"enabled", "paused", "revoked"} : Mutate(status)
    BY <1>1, <2>1 DEF DInv, Types, Mutate, Ended, RemovalIsFinal
  <2>2. CASE \E e \in Events : Occur(e) \/ IndexCatchUp(e)
    BY <1>1, <2>2 DEF DInv, Types, Occur, IndexCatchUp, Ended, RemovalIsFinal
  <2>3. CASE RemoveTenant \/ RemovalDone
    BY <1>1, <2>3 DEF DInv, Types, RemoveTenant, RemovalDone, Ended, RemovalIsFinal
  <2> QED
    BY <2>1, <2>2, <2>3
<1>3. Types'
  BY <1>1, <1>2 DEF DInv, Types
<1>4. ASSUME NEW e \in Events PROVE Recorded(e)'
  <2>1. index'[e] = index[e] \/ index'[e] = rec[e]
    BY <1>1 DEF DInv, Types
  <2> QED
    BY <1>1, <2>1 DEF DInv, Recorded, Shown
<1>5. \A w \in Workers : OnTask(w)'
  BY <1>1 DEF DInv, OnTask, On, Shown
<1> QED
  BY <1>1, <1>2, <1>3, <1>4, <1>5 DEF DInv, PushedIsRecorded

-----------------------------------------------------------------------------
(* Records that time, the producers and the administration write *)

LEMMA EnqueueInv ==
    ASSUME Assumptions, DInv, NEW e \in Events, Enqueue(e)
    PROVE  DInv'
<1>1. PICK d : d = [Absent EXCEPT !.status = "pending", !.rev = stream.rev, !.due = TRUE]
  OBVIOUS
<1>2. /\ rec' = [rec EXCEPT ![e] = d] /\ UNCHANGED <<stream, removal, index, task, pushed>>
      /\ rec[e].status = "absent" /\ stream.status = "enabled" /\ stream.rev \in Nat
  BY <1>1 DEF Enqueue, DInv, Types
<1>3. /\ d \in DeliveryV /\ d.status = "pending" /\ d.set = NoSet /\ d.lease = None
      /\ d.cycle = 0 /\ d.attempts = 0
  BY <1>1, <1>2 DEF Absent, DeliveryV, Statuses, Active, NoSet
<1>4. 0 < MaxCycle /\ 0 < MaxTotal /\ rec[e].set = NoSet
  BY <1>2 DEF Assumptions, SsfAssumption, DInv, Recorded
<1> QED
  BY <1>2, <1>3, <1>4, RecordInv

LEMMA RedriveInv ==
    ASSUME Assumptions, DInv, NEW e \in Events, Redrive(e)
    PROVE  DInv'
<1> DEFINE n == rec[e].redrives + 1
           d == [rec[e] EXCEPT !.status = "pending", !.cycle = 0, !.redrives = n,
                               !.cycleOld = FALSE, !.due = TRUE, !.lease = None,
                               !.leaseOver = FALSE]
<1>1. rec' = [rec EXCEPT ![e] = d]
  BY DEF Redrive
<1>2. /\ UNCHANGED <<stream, removal, index, task, pushed>>
      /\ stream.status = "enabled" /\ rec[e].attempts < MaxTotal /\ rec[e] \in DeliveryV
      /\ rec[e].status \in {"terminal", "dead_lettered"}
  BY DEF Redrive, Redriveable, Current, DInv, Types
<1>0. n \in Nat
  BY <1>2 DEF DeliveryV
<1> HIDE DEF n
<1>3. /\ d \in DeliveryV /\ d.status = "pending" /\ d.set = rec[e].set /\ d.rev = rec[e].rev
      /\ d.lease = None /\ d.cycle = 0 /\ d.attempts = rec[e].attempts
  BY <1>0, <1>2 DEF DeliveryV, Statuses, Active
<1> HIDE DEF d
<1>4. 0 < MaxCycle
  BY DEF Assumptions, SsfAssumption
<1>5. PICK x : x = d
  OBVIOUS
<1> QED
  BY <1>1, <1>2, <1>3, <1>4, <1>5, RecordInv

LEMMA SettledFacts ==
    ASSUME NEW d \in DeliveryV, NEW status \in Statuses
    PROVE  /\ Settled(d, status) \in DeliveryV /\ Settled(d, status).status = status
           /\ Settled(d, status).rev = d.rev /\ Settled(d, status).set = d.set
           /\ Settled(d, status).lease = None /\ Settled(d, status).cycle = d.cycle
           /\ Settled(d, status).attempts = d.attempts
BY DEF Settled, DeliveryV

LEMMA RemoveDeliveryInv ==
    ASSUME Assumptions, DInv, NEW e \in Events, RemoveDelivery(e)
    PROVE  DInv'
<1>1. PICK d : d = Settled(rec[e], "suppressed")
  OBVIOUS
<1>2. /\ rec' = [rec EXCEPT ![e] = d] /\ UNCHANGED <<stream, removal, index, task, pushed>>
      /\ rec[e] \in DeliveryV /\ "suppressed" \in Statuses \ (Active \cup {"absent"})
  BY <1>1 DEF RemoveDelivery, DInv, Types, Statuses, Active
<1>3. /\ d \in DeliveryV /\ d.status = "suppressed" /\ d.set = rec[e].set /\ d.rev = rec[e].rev
      /\ d.lease = None
  BY <1>1, <1>2, SettledFacts
<1> QED
  BY <1>2, <1>3, RecordInv

LEMMA TimeInv ==
    ASSUME Assumptions, DInv, NEW e \in Events, ComeDue(e) \/ AgeCycle(e) \/ AgeWindow(e)
    PROVE  DInv'
<1>0. rec[e] \in DeliveryV /\ index[e] \in DeliveryV /\ Recorded(e)
  BY DEF DInv, Types
<1>1. PICK d :
        /\ rec' = [rec EXCEPT ![e] = d]
        /\ \/ d = [rec[e] EXCEPT !.due = TRUE, !.leaseOver = rec[e].lease # None]
           \/ d = [rec[e] EXCEPT !.cycleOld = TRUE]
           \/ d = [rec[e] EXCEPT !.windowOld = TRUE]
  BY DEF ComeDue, AgeCycle, AgeWindow
<1>2. /\ d \in DeliveryV /\ d.status = rec[e].status /\ d.set = rec[e].set /\ d.rev = rec[e].rev
      /\ d.lease = rec[e].lease /\ d.cycle = rec[e].cycle /\ d.attempts = rec[e].attempts
  BY <1>0, <1>1 DEF DeliveryV
<1>3. \/ index' = index
      \/ \E x \in DeliveryV : /\ index' = [index EXCEPT ![e] = x]
                              /\ x.status = index[e].status /\ x.rev = index[e].rev
                              /\ x.set = index[e].set
  <2>1. CASE ComeDue(e)
    BY <2>1 DEF ComeDue
  <2>2. CASE AgeCycle(e) \/ AgeWindow(e)
    <3>1. PICK x : /\ x = [index[e] EXCEPT !.cycleOld = TRUE] \/ x = [index[e] EXCEPT !.windowOld = TRUE]
                   /\ index' = [index EXCEPT ![e] = x]
      BY <2>2 DEF AgeCycle, AgeWindow
    <3>2. /\ x \in DeliveryV /\ x.status = index[e].status /\ x.rev = index[e].rev
          /\ x.set = index[e].set
      BY <1>0, <3>1 DEF DeliveryV
    <3> QED
      BY <3>1, <3>2
  <2> QED
    BY <2>1, <2>2
<1>4. UNCHANGED <<stream, removal, task, pushed>>
  BY DEF ComeDue, AgeCycle, AgeWindow
<1>5. d.status = "absent" => rec[e].set = NoSet
  BY <1>0, <1>2 DEF Recorded
<1> QED
  BY <1>0, <1>1, <1>2, <1>3, <1>4, <1>5, RecordInv DEF Recorded

-----------------------------------------------------------------------------
(* Worker tasks *)

LEMMA IdleFacts == Idle \in TaskV /\ Idle.pc = "idle" /\ On(Idle)
BY DEF Idle, TaskV, PCs, Results, NoSet, Absent, DeliveryV, Statuses, Active, None, On

LEMMA QueryInv ==
    ASSUME Assumptions, DInv, NEW w \in Workers, NEW e \in Events, Query(w, e)
    PROVE  DInv'
<1>1. PICK t : t = [Idle EXCEPT !.pc = "stream", !.event = e, !.seen = index[e]]
  OBVIOUS
<1>2. /\ task' = [task EXCEPT ![w] = t] /\ UNCHANGED <<stream, removal, rec, index, pushed>>
      /\ index[e].status \in Active /\ index[e] \in DeliveryV /\ Recorded(e)
  BY <1>1 DEF Query, DInv, Types
<1>3. t \in TaskV /\ t.pc = "stream" /\ t.event = e /\ t.seen = index[e]
  BY <1>1, <1>2, IdleFacts DEF TaskV, PCs
<1>4. On(t)
  BY <1>2, <1>3 DEF On, Recorded, Active, Working
<1> QED
  BY <1>2, <1>3, <1>4, TaskInv

LEMMA ReadStreamInv ==
    ASSUME Assumptions, DInv, NEW w \in Workers, ReadStream(w)
    PROVE  DInv'
<1>1. PICK pc \in {"suppress", "dead_letter", "lease"} : task' = [task EXCEPT ![w].pc = pc]
  BY DEF ReadStream, Goto
<1>2. /\ task[w] \in TaskV /\ On(task[w]) /\ task[w].pc = "stream"
      /\ UNCHANGED <<stream, removal, rec, index, pushed>>
  BY DEF ReadStream, DInv, Types, OnTask
<1>3. PICK t : t = [task[w] EXCEPT !.pc = pc]
  OBVIOUS
<1>4. t \in TaskV /\ t.pc = pc /\ t.event = task[w].event /\ t.seen = task[w].seen
  BY <1>2, <1>3 DEF TaskV, PCs
<1>5. On(t) /\ t.event \in Events
  BY <1>2, <1>4 DEF On, Working
<1>6. task' = [task EXCEPT ![w] = t]
  BY <1>1, <1>3
<1> QED
  BY <1>2, <1>4, <1>5, <1>6, TaskInv

LEMMA CrashInv ==
    ASSUME Assumptions, DInv, NEW w \in Workers, Crash(w)
    PROVE  DInv'
<1>1. task' = [task EXCEPT ![w] = Idle] /\ UNCHANGED <<stream, removal, rec, index, pushed>>
  BY DEF Crash, Done
<1> QED
  BY <1>1, IdleFacts, TaskInv

LEMMA SignInv ==
    ASSUME Assumptions, DInv, NEW w \in Workers, Sign(w)
    PROVE  DInv'
<1>1. /\ task[w] \in TaskV /\ On(task[w]) /\ task[w].pc = "sign"
      /\ UNCHANGED <<stream, removal, rec, index, pushed>>
  BY DEF Sign, DInv, Types, OnTask
<1>2. PICK t \in TaskV :
        /\ task' = [task EXCEPT ![w] = t]
        /\ t.event = task[w].event /\ t.seen = task[w].seen /\ t.current = task[w].current
        /\ t.pc \in {"push", "persist", "finish"}
        /\ t.pc # "finish" => t.set # NoSet
        /\ t.pc = "push" => t.set = task[w].seen.set
  <2>1. CASE task[w].seen.set # NoSet
    <3>1. PICK t : t = [task[w] EXCEPT !.pc = "push", !.set = task[w].seen.set]
      OBVIOUS
    <3>2. task' = [task EXCEPT ![w] = t]
      BY <2>1, <3>1 DEF Sign
    <3>3. task[w].seen.set \in Nat
      BY <1>1 DEF TaskV, DeliveryV
    <3>4. /\ t \in TaskV /\ t.pc = "push" /\ t.set = task[w].seen.set
          /\ t.event = task[w].event /\ t.seen = task[w].seen /\ t.current = task[w].current
      BY <1>1, <3>1, <3>3 DEF TaskV, PCs
    <3> QED
      BY <2>1, <3>2, <3>4
  <2>2. ASSUME NEW n \in SetIds,
               task' = [task EXCEPT ![w] = [task[w] EXCEPT !.pc = "persist", !.set = n]]
        PROVE  \E t \in TaskV :
                 /\ task' = [task EXCEPT ![w] = t]
                 /\ t.event = task[w].event /\ t.seen = task[w].seen /\ t.current = task[w].current
                 /\ t.pc \in {"push", "persist", "finish"}
                 /\ t.pc # "finish" => t.set # NoSet
                 /\ t.pc = "push" => t.set = task[w].seen.set
    <3>1. n \in Nat /\ n # NoSet
      BY DEF SetIds, NoSet
    <3>2. PICK t : t = [task[w] EXCEPT !.pc = "persist", !.set = n]
      OBVIOUS
    <3>3. /\ t \in TaskV /\ t.pc = "persist" /\ t.set = n
          /\ t.event = task[w].event /\ t.seen = task[w].seen /\ t.current = task[w].current
      BY <1>1, <3>1, <3>2 DEF TaskV, PCs
    <3> QED
      BY <2>2, <3>1, <3>2, <3>3
  <2>3. ASSUME NEW r \in {"retryable", "fatal"},
               task' = [task EXCEPT ![w] = [task[w] EXCEPT !.pc = "finish", !.result = r]]
        PROVE  \E t \in TaskV :
                 /\ task' = [task EXCEPT ![w] = t]
                 /\ t.event = task[w].event /\ t.seen = task[w].seen /\ t.current = task[w].current
                 /\ t.pc \in {"push", "persist", "finish"}
                 /\ t.pc # "finish" => t.set # NoSet
                 /\ t.pc = "push" => t.set = task[w].seen.set
    <3>1. PICK t : t = [task[w] EXCEPT !.pc = "finish", !.result = r]
      OBVIOUS
    <3>2. /\ t \in TaskV /\ t.pc = "finish"
          /\ t.event = task[w].event /\ t.seen = task[w].seen /\ t.current = task[w].current
      BY <1>1, <3>1 DEF TaskV, PCs, Results
    <3> QED
      BY <2>3, <3>1, <3>2
  <2>4. CASE task[w].seen.set = NoSet
    BY <2>2, <2>3, <2>4 DEF Sign
  <2> QED
    BY <2>1, <2>4
<1>3. On(t) /\ t.event \in Events
  BY <1>1, <1>2 DEF On, Shown, Working
<1> QED
  BY <1>1, <1>2, <1>3, TaskInv

LEMMA PushInv ==
    ASSUME Assumptions, DInv, NEW w \in Workers, Push(w)
    PROVE  DInv'
<1>1. /\ task[w] \in TaskV /\ On(task[w]) /\ task[w].pc = "push"
      /\ UNCHANGED <<stream, removal, rec, index>>
      /\ pushed' = pushed \cup {<<task[w].event, task[w].set>>}
  BY DEF Push, DInv, Types, OnTask
<1>2. PICK r \in {"accepted", "terminal", "retryable"} :
        task' = [task EXCEPT ![w] = [task[w] EXCEPT !.pc = "finish", !.result = r]]
  BY DEF Push
<1>3. PICK t : t = [task[w] EXCEPT !.pc = "finish", !.result = r]
  OBVIOUS
<1>4. /\ t \in TaskV /\ t.pc = "finish"
      /\ t.event = task[w].event /\ t.seen = task[w].seen /\ t.current = task[w].current
  BY <1>1, <1>3 DEF TaskV, PCs, Results
<1>5. On(t) /\ t.event \in Events
  BY <1>1, <1>4 DEF On, Working
<1> QED
  BY <1>1, <1>2, <1>3, <1>4, <1>5, TaskInv

LEMMA GiveUpInv ==
    ASSUME Assumptions, DInv, NEW w \in Workers, GiveUp(w)
    PROVE  DInv'
<1>1. PICK e, status : e = task[w].event /\ status \in {"suppressed", "dead_lettered"}
                       /\ rec' = IF Takeable(rec[e]) THEN [rec EXCEPT ![e] = Settled(rec[e], status)]
                                 ELSE rec
  BY DEF GiveUp
<1>2. /\ task' = [task EXCEPT ![w] = Idle] /\ UNCHANGED <<stream, removal, index, pushed>>
      /\ e \in Events /\ rec[e] \in DeliveryV
  BY <1>1 DEF GiveUp, Done, DInv, Types, OnTask, On
<1>3. CASE Takeable(rec[e])
  <2>1. PICK d : d = Settled(rec[e], status)
    OBVIOUS
  <2>2. status \in Statuses /\ status \notin Active \cup {"absent"}
    BY <1>1 DEF Statuses, Active
  <2>3. /\ d \in DeliveryV /\ d.status = status /\ d.set = rec[e].set /\ d.rev = rec[e].rev
        /\ d.lease = None
    BY <1>2, <2>1, <2>2, SettledFacts
  <2>4. rec' = [rec EXCEPT ![e] = d]
    BY <1>1, <1>3, <2>1
  <2>5. PICK t \in TaskV : t = Idle /\ On(t)'
    BY IdleFacts DEF On
  <2> QED
    BY <1>2, <2>2, <2>3, <2>4, <2>5, RecordInv
<1>4. CASE ~Takeable(rec[e])
  BY <1>1, <1>2, <1>4, IdleFacts, TaskInv
<1> QED
  BY <1>3, <1>4

LEMMA LeaseInv ==
    ASSUME Assumptions, DInv, NEW w \in Workers, Lease(w)
    PROVE  DInv'
<1>1. PICK e : e = task[w].event
  OBVIOUS
<1>2. /\ task[w].pc = "lease" /\ UNCHANGED <<stream, removal, index, pushed>>
      /\ e \in Events /\ rec[e] \in DeliveryV /\ task[w] \in TaskV /\ Shown(task[w].seen, e)
      /\ Recorded(e)
  BY <1>1 DEF Lease, DInv, Types, OnTask, On
<1>3. CASE Takeable(rec[e]) /\ Current(task[w].seen)
  <2>1. PICK d : d = Leased(rec[e], w)
    OBVIOUS
  <2>2. /\ d \in DeliveryV /\ d.status = rec[e].status /\ d.set = rec[e].set /\ d.rev = rec[e].rev
        /\ d.cycle = rec[e].cycle /\ d.attempts = rec[e].attempts
    BY <1>2, <2>1 DEF Leased, DeliveryV
  <2>3. PICK k : k = Kept(task[w].seen)
    OBVIOUS
  <2>4. k \in DeliveryV /\ k.rev = task[w].seen.rev /\ k.set = task[w].seen.set
    BY <1>2, <2>3 DEF Kept, Absent, TaskV, DeliveryV, Statuses, Active, NoSet, None
  <2>5. Current(rec[e])
    BY <1>2, <1>3 DEF Current, Shown
  <2>6. PICK t : t = [task[w] EXCEPT !.pc = "sign", !.current = TRUE, !.seen = k]
    OBVIOUS
  <2>7. t \in TaskV /\ t.pc = "sign" /\ t.current /\ t.seen = k /\ t.event = e
    BY <1>1, <1>2, <2>4, <2>6 DEF TaskV, PCs
  <2>8. rec' = [rec EXCEPT ![e] = d]
    BY <1>1, <1>2, <1>3, <2>1 DEF Lease
  <2>9. task' = [task EXCEPT ![w] = t]
    <3>1. task' = [task EXCEPT ![w] = [task[w] EXCEPT !.pc = "sign", !.current = Current(rec[e]),
                                                      !.seen = Kept(task[w].seen)]]
      BY <1>1, <1>3 DEF Lease
    <3>2. Current(rec[e]) = TRUE
      BY <2>5 DEF Current
    <3> QED
      BY <2>3, <2>6, <3>1, <3>2
  <2>10. On(t)'
    <3>1. rec'[e] = d
      BY <1>2, <2>8 DEF DInv, Types
    <3>2. d.status \in Active
      BY <1>3, <2>2 DEF Takeable
    <3> QED
      BY <1>2, <2>2, <2>4, <2>7, <3>1, <3>2 DEF On, Shown, Active
  <2>11. d.status \in Active /\ rec[e].status \in Active
    BY <1>3, <2>2 DEF Takeable
  <2>12. \E v \in Workers, x \in TaskV : task' = [task EXCEPT ![v] = x] /\ On(x)'
    BY <2>7, <2>9, <2>10
  <2> QED
    BY <1>2, <2>2, <2>8, <2>11, <2>12, RecordInv DEF Recorded, Active
<1>4. CASE ~(Takeable(rec[e]) /\ Current(task[w].seen))
  <2>1. rec' = rec /\ task' = [task EXCEPT ![w] = Idle]
    BY <1>1, <1>4 DEF Lease, Done
  <2> QED
    BY <1>2, <2>1, IdleFacts, TaskInv
<1> QED
  BY <1>3, <1>4

LEMMA PersistInv ==
    ASSUME Assumptions, DInv, NEW w \in Workers, Persist(w)
    PROVE  DInv'
<1>1. PICK e : e = task[w].event
  OBVIOUS
<1>2. /\ task[w].pc = "persist" /\ UNCHANGED <<stream, removal, index, pushed>>
      /\ e \in Events /\ rec[e] \in DeliveryV /\ task[w] \in TaskV /\ On(task[w])
      /\ Recorded(e)
  BY <1>1 DEF Persist, DInv, Types, OnTask, On
<1>3. CASE Persistable(w)
  <2>1. PICK d : d = [rec[e] EXCEPT !.set = task[w].set, !.windowOld = FALSE]
    OBVIOUS
  <2>2. /\ d \in DeliveryV /\ d.status = rec[e].status /\ d.set = task[w].set /\ d.rev = rec[e].rev
        /\ d.cycle = rec[e].cycle /\ d.attempts = rec[e].attempts /\ d.lease = rec[e].lease
    BY <1>2, <2>1 DEF DeliveryV, TaskV
  <2>3. PICK t : t = [task[w] EXCEPT !.pc = "push"]
    OBVIOUS
  <2>4. /\ t \in TaskV /\ t.pc = "push" /\ t.current = task[w].current /\ t.seen = task[w].seen
        /\ t.event = e /\ t.set = task[w].set
    BY <1>1, <1>2, <2>3 DEF TaskV, PCs
  <2>5. rec' = [rec EXCEPT ![e] = d] /\ task' = [task EXCEPT ![w] = t]
    BY <1>1, <1>3, <2>1, <2>3 DEF Persist, Goto
  <2>6. rec[e].set = NoSet /\ rec[e].status \in Active /\ d.set # NoSet
    BY <1>1, <1>2, <1>3, <2>2 DEF Persistable, On
  <2>7. On(t)'
    <3>1. rec'[e] = d
      BY <1>2, <2>5 DEF DInv, Types
    <3> QED
      BY <1>1, <1>2, <2>2, <2>4, <2>6, <3>1 DEF On, Shown, Working, Active
  <2>8. \E v \in Workers, x \in TaskV : task' = [task EXCEPT ![v] = x] /\ On(x)'
    BY <2>4, <2>5, <2>7
  <2> QED
    BY <1>2, <2>2, <2>5, <2>6, <2>8, RecordInv DEF Recorded, Active
<1>4. CASE ~Persistable(w)
  <2>1. rec' = rec /\ task' = [task EXCEPT ![w] = Idle]
    BY <1>4 DEF Persist, Done
  <2> QED
    BY <1>2, <2>1, IdleFacts, TaskInv
<1> QED
  BY <1>3, <1>4

LEMMA FinishInv ==
    ASSUME Assumptions, DInv, NEW w \in Workers, Finish(w)
    PROVE  DInv'
<1>1. PICK e, r : e = task[w].event /\ r = task[w].result
  OBVIOUS
<1>2. /\ task' = [task EXCEPT ![w] = Idle] /\ UNCHANGED <<stream, removal, index, pushed>>
      /\ rec' = IF Holds(w) THEN [rec EXCEPT ![e] = Applied(rec[e], r)] ELSE rec
      /\ e \in Events /\ rec[e] \in DeliveryV /\ r \in Results
      /\ Recorded(e)
  BY <1>1 DEF Finish, Done, DInv, Types, OnTask, On, TaskV
<1>3. CASE Holds(w)
  <2>1. rec[e].status \in Active
    BY <1>1, <1>2, <1>3 DEF Holds, Recorded, Assumptions
  <2>2. PICK status : /\ status \in {"delivered", "terminal", "dead_lettered", "retry_wait"}
                      /\ status = "retry_wait" => ~Spent(rec[e])
                      /\ Applied(rec[e], r) = [Settled(rec[e], status) EXCEPT !.attempts = @ + 1,
                                                                              !.cycle = @ + 1]
    BY <1>2 DEF Applied, Results
  <2>3. PICK s : s = Settled(rec[e], status)
    OBVIOUS
  <2>4. /\ s \in DeliveryV /\ s.status = status /\ s.rev = rec[e].rev /\ s.set = rec[e].set
        /\ s.lease = None /\ s.cycle = rec[e].cycle /\ s.attempts = rec[e].attempts
    <3>1. status \in Statuses
      BY <2>2 DEF Statuses, Active
    <3> QED
      BY <1>2, <2>3, <3>1, SettledFacts
  <2>5. PICK m, n : m = s.attempts + 1 /\ n = s.cycle + 1
    OBVIOUS
  <2>6. m \in Nat /\ n \in Nat
    BY <2>4, <2>5 DEF DeliveryV
  <2>7. PICK d : d = [s EXCEPT !.attempts = m, !.cycle = n]
    OBVIOUS
  <2>8. /\ d \in DeliveryV /\ d.status = status /\ d.rev = rec[e].rev /\ d.set = rec[e].set
        /\ d.lease = None /\ d.cycle = n /\ d.attempts = m
    BY <2>4, <2>6, <2>7 DEF DeliveryV
  <2>9. Applied(rec[e], r) = d
    BY <2>2, <2>3, <2>5, <2>7
  <2>10. rec' = [rec EXCEPT ![e] = d]
    BY <1>2, <1>3, <2>9
  <2>11. status = "retry_wait" => m < MaxTotal /\ n < MaxCycle
    <3>1. rec[e].attempts \in Nat /\ rec[e].cycle \in Nat /\ MaxTotal \in Nat /\ MaxCycle \in Nat
      BY <1>2 DEF DeliveryV, Assumptions, SsfAssumption
    <3> QED
      BY <2>2, <2>4, <2>5, <3>1 DEF Spent
  <2>12. PICK t \in TaskV : t = Idle /\ On(t)'
    BY IdleFacts DEF On
  <2>13. \E v \in Workers, x \in TaskV : task' = [task EXCEPT ![v] = x] /\ On(x)'
    BY <1>2, <2>12
  <2> QED
    BY <1>2, <2>1, <2>2, <2>8, <2>10, <2>11, <2>13, RecordInv DEF Active
<1>4. CASE ~Holds(w)
  BY <1>2, <1>4, IdleFacts, TaskInv
<1> QED
  BY <1>3, <1>4

-----------------------------------------------------------------------------
(* The invariant *)

LEMMA NextInv ==
    ASSUME Assumptions, DInv, [Next]_vars
    PROVE  DInv'
<1>1. CASE UNCHANGED vars
  <2>1. UNCHANGED <<stream, removal, rec, index, task, pushed>>
    BY <1>1 DEF vars
  <2>2. /\ Types' /\ PushedIsRecorded' /\ Ended'
        /\ \A e \in Events : Recorded(e)'
        /\ \A w \in Workers : OnTask(w)'
    BY <2>1 DEF DInv, Types, Recorded, Shown, OnTask, On, PushedIsRecorded, Ended, RemovalIsFinal
  <2> QED
    BY <2>2 DEF DInv
<1>2. ASSUME NEW w \in Workers, WorkerStep(w) \/ Crash(w)
      PROVE  DInv'
  BY <1>2, ReadStreamInv, GiveUpInv, LeaseInv, SignInv, PersistInv, PushInv, FinishInv, CrashInv
    DEF WorkerStep
<1>3. ASSUME NEW e \in Events,
             \/ Occur(e) \/ Enqueue(e) \/ Redrive(e) \/ RemoveDelivery(e)
             \/ ComeDue(e) \/ AgeCycle(e) \/ AgeWindow(e) \/ IndexCatchUp(e)
             \/ \E w \in Workers : Query(w, e)
      PROVE  DInv'
  BY <1>3, StreamInv, EnqueueInv, RedriveInv, RemoveDeliveryInv, TimeInv, QueryInv
<1> QED
  BY <1>1, <1>2, <1>3, StreamInv DEF Next

LEMMA Invariance == ASSUME Assumptions PROVE Spec => []DInv
<1>1. DInv /\ [Next]_vars => DInv'
  BY NextInv
<1>2. Init => DInv
  BY InitInv
<1> QED
  BY <1>1, <1>2, PTL DEF Spec

-----------------------------------------------------------------------------
\* While passes are stopped before their leases expire, a pass at work holds its lease,
\* or the offboarding has suppressed the delivery for good.
Holding(w) ==
    task[w].pc \in Working =>
      \/ Holds(w) /\ ~rec[task[w].event].leaseOver
      \/ rec[task[w].event].status = "suppressed"
Alone == OnePusher /\ \A w \in Workers : Holding(w)

LEMMA AloneStays ==
    ASSUME Alone,
           \A w \in Workers :
             task'[w].pc \in Working =>
               task[w].pc \in Working /\ task'[w].event = task[w].event /\ Holding(w)'
    PROVE  Alone'
<1>1. ASSUME NEW v \in Workers, NEW w \in Workers, v # w, task'[v].pc \in Working,
             task'[w].pc \in Working
      PROVE  task'[v].event # task'[w].event
  BY <1>1 DEF Alone, OnePusher, Working
<1>2. OnePusher'
  BY <1>1 DEF OnePusher, Working
<1>3. ASSUME NEW w \in Workers PROVE Holding(w)'
  BY DEF Holding
<1> QED
  BY <1>2, <1>3 DEF Alone

\* Nobody works on a delivery that can be taken.
LEMMA TakeableIsFree ==
    ASSUME Assumptions, Alone, NEW e \in Events, Takeable(rec[e]),
           NEW w \in Workers, task[w].pc \in Working
    PROVE  task[w].event # e
BY DEF Assumptions, Alone, Holding, Holds, Takeable, Active

LEMMA AloneInv ==
    ASSUME Assumptions, Timely, DInv, Alone, [Next]_vars
    PROVE  Alone'
<1> DEFINE Stays(w) ==
      task'[w].pc \in Working =>
        task[w].pc \in Working /\ task'[w].event = task[w].event /\ Holding(w)'
<1>0. /\ rec \in [Events -> DeliveryV] /\ task \in [Workers -> TaskV]
      /\ \A w \in Workers : task[w].pc \in Working =>
           task[w].event \in Events /\ rec[task[w].event].status # "absent"
      /\ \A e \in Events : rec[e] \in DeliveryV
                           /\ (rec[e].lease # None => rec[e].status \in Active)
      /\ None \notin Workers /\ "idle" \notin Working
  BY DEF DInv, Types, OnTask, On, Recorded, Assumptions, Working
<1>1. CASE rec' = rec /\ task' = task
  <2>1. ASSUME NEW w \in Workers PROVE Stays(w)
    BY <1>1 DEF Alone, Holding, Holds
  <2> QED
    BY <2>1, AloneStays
<1>2. ASSUME NEW e \in Events, task' = task,
             \/ Enqueue(e) \/ Redrive(e) \/ RemoveDelivery(e) \/ ComeDue(e) \/ AgeCycle(e)
             \/ AgeWindow(e)
      PROVE  Alone'
  <2>1. ASSUME NEW w \in Workers, task[w].pc \in Working PROVE Stays(w)
    <3>1. CASE task[w].event # e
      <4>1. rec'[task[w].event] = rec[task[w].event]
        BY <1>0, <1>2, <2>1, <3>1 DEF Enqueue, Redrive, RemoveDelivery, ComeDue, AgeCycle, AgeWindow
      <4> QED
        BY <1>2, <2>1, <4>1 DEF Alone, Holding, Holds
    <3>2. CASE task[w].event = e
      <4>1. ~Enqueue(e)
        BY <1>0, <2>1, <3>2 DEF Enqueue
      <4>2. ~Redrive(e)
        BY <1>0, <2>1, <3>2 DEF Redrive, Redriveable, Active, Alone, Holding, Holds
      <4>3. RemoveDelivery(e) => rec'[e].status = "suppressed"
        BY <1>0 DEF RemoveDelivery, Settled, DeliveryV
      <4>4. ~ComeDue(e)
        BY <1>0, <2>1, <3>2 DEF ComeDue, Active, Alone, Holding, Holds, Working
      <4>5. AgeCycle(e) \/ AgeWindow(e) =>
              /\ rec'[e].lease = rec[e].lease /\ rec'[e].leaseOver = rec[e].leaseOver
              /\ rec'[e].status = rec[e].status
        BY <1>0 DEF AgeCycle, AgeWindow, DeliveryV
      <4> QED
        BY <1>2, <2>1, <3>2, <4>1, <4>2, <4>3, <4>4, <4>5 DEF Alone, Holding, Holds
    <3> QED
      BY <3>1, <3>2
  <2> QED
    BY <1>2, <2>1, AloneStays
<1>3. ASSUME NEW v \in Workers, NEW t \in TaskV, task' = [task EXCEPT ![v] = t], rec' = rec,
             t.pc \in Working => task[v].pc \in Working /\ t.event = task[v].event
      PROVE  Alone'
  <2>1. ASSUME NEW w \in Workers PROVE Stays(w)
    BY <1>0, <1>3 DEF Alone, Holding, Holds
  <2> QED
    BY <2>1, AloneStays
<1>4. ASSUME NEW v \in Workers,
             ReadStream(v) \/ Sign(v) \/ Push(v) \/ Crash(v) \/ \E e \in Events : Query(v, e)
      PROVE  Alone'
  <2>1. /\ rec' = rec /\ \A w \in Workers : w # v => task'[w] = task[w]
        /\ task'[v].pc \in Working => task[v].pc \in Working /\ task'[v].event = task[v].event
    <3>1. CASE ReadStream(v)
      BY <1>0, <3>1 DEF ReadStream, Goto, TaskV, Working
    <3>2. CASE Sign(v)
      BY <1>0, <3>2 DEF Sign, TaskV, Working
    <3>3. CASE Push(v)
      BY <1>0, <3>3 DEF Push, TaskV, Working
    <3>4. CASE Crash(v)
      BY <1>0, <3>4, IdleFacts DEF Crash, Done
    <3>5. ASSUME NEW f \in Events, Query(v, f)
          PROVE  /\ rec' = rec /\ \A w \in Workers : w # v => task'[w] = task[w]
                 /\ task'[v].pc \notin Working
      BY <1>0, <3>5, IdleFacts DEF Query, TaskV, Working
    <3> QED
      BY <1>4, <3>1, <3>2, <3>3, <3>4, <3>5
  <2>2. ASSUME NEW w \in Workers PROVE Stays(w)
    BY <1>0, <2>1 DEF Alone, Holding, Holds
  <2> QED
    BY <2>2, AloneStays
<1>5. ASSUME NEW v \in Workers, GiveUp(v)
      PROVE  Alone'
  <2>1. ASSUME NEW w \in Workers, task'[w].pc \in Working PROVE Stays(w)
    <3>1. w # v /\ task'[w] = task[w] /\ task[w].pc \in Working
      BY <1>0, <1>5, <2>1, IdleFacts DEF GiveUp, Done
    <3>2. rec'[task[w].event] = rec[task[w].event]
      <4>1. CASE rec' = rec
        BY <4>1
      <4>2. CASE rec' # rec
        <5>1. Takeable(rec[task[v].event]) /\ task[v].event \in Events
          BY <1>5, <4>2 DEF GiveUp, DInv, OnTask, On
        <5>2. task[w].event # task[v].event
          BY <3>1, <5>1, TakeableIsFree
        <5> QED
          BY <1>0, <1>5, <3>1, <5>2 DEF GiveUp
      <4> QED
        BY <4>1, <4>2
    <3> QED
      BY <3>1, <3>2 DEF Alone, Holding, Holds
  <2> QED
    BY <2>1, AloneStays
<1>6. ASSUME NEW v \in Workers, Lease(v)
      PROVE  Alone'
  <2> DEFINE e == task[v].event
  <2>0. e \in Events /\ task[v].pc \notin Working
    BY <1>6 DEF Lease, DInv, OnTask, On, Working
  <2>1. CASE Takeable(rec[e]) /\ Current(task[v].seen)
    <3>1. /\ rec'[e].lease = v /\ ~rec'[e].leaseOver
          /\ \A f \in Events : f # e => rec'[f] = rec[f]
      <4> DEFINE d == Leased(rec[e], v)
      <4>1. d.lease = v /\ ~d.leaseOver
        BY <1>0, <2>0 DEF Leased, DeliveryV
      <4>2. rec' = [rec EXCEPT ![e] = d]
        BY <1>6, <2>1 DEF Lease
      <4> HIDE DEF d
      <4> QED
        BY <1>0, <2>0, <4>1, <4>2
    <3>2. task'[v].event = e /\ \A w \in Workers : w # v => task'[w] = task[w]
      <4> DEFINE t == [task[v] EXCEPT !.pc = "sign", !.current = Current(rec[e]),
                                      !.seen = Kept(task[v].seen)]
      <4>1. t.event = e
        BY <1>0 DEF TaskV
      <4>2. task' = [task EXCEPT ![v] = t]
        BY <1>6, <2>1 DEF Lease
      <4> HIDE DEF t, e
      <4> QED
        BY <1>0, <4>1, <4>2
    <3>3. ASSUME NEW w \in Workers, w # v, task[w].pc \in Working
          PROVE  /\ task[w].event # e /\ task[w].event \in Events
                 /\ rec'[task[w].event] = rec[task[w].event]
      BY <1>0, <2>0, <2>1, <3>1, <3>3, TakeableIsFree
    <3> HIDE DEF e
    <3>4. OnePusher'
      BY <3>2, <3>3 DEF Alone, OnePusher, Working
    <3>5. ASSUME NEW w \in Workers PROVE Holding(w)'
      BY <3>1, <3>2, <3>3 DEF Alone, Holding, Holds
    <3> QED
      BY <3>4, <3>5 DEF Alone
  <2>2. CASE ~(Takeable(rec[e]) /\ Current(task[v].seen))
    <3>1. rec' = rec /\ task' = [task EXCEPT ![v] = Idle]
      BY <1>6, <2>2 DEF Lease, Done
    <3> QED
      BY <1>0, <1>3, <3>1, IdleFacts
  <2> QED
    BY <2>1, <2>2
<1>7. ASSUME NEW v \in Workers, Persist(v)
      PROVE  Alone'
  <2> DEFINE e == task[v].event
             d == [rec[e] EXCEPT !.set = task[v].set, !.windowOld = FALSE]
  <2>0. e \in Events /\ task[v].pc \in Working
    BY <1>7 DEF Persist, DInv, OnTask, On, Working
  <2>1. d.lease = rec[e].lease /\ d.leaseOver = rec[e].leaseOver /\ d.status = rec[e].status
    BY <1>0, <2>0 DEF DeliveryV
  <2>2. rec' = rec \/ rec' = [rec EXCEPT ![e] = d]
    BY <1>7 DEF Persist
  <2>3. /\ \A w \in Workers : w # v => task'[w] = task[w]
        /\ task'[v].event = e \/ task'[v].pc = "idle"
    BY <1>0, <1>7, IdleFacts DEF Persist, Goto, Done, TaskV
  <2> HIDE DEF d
  <2>4. \A f \in Events : /\ rec'[f].lease = rec[f].lease /\ rec'[f].leaseOver = rec[f].leaseOver
                          /\ rec'[f].status = rec[f].status
    BY <1>0, <2>0, <2>1, <2>2
  <2>5. ASSUME NEW w \in Workers PROVE Stays(w)
    BY <1>0, <2>0, <2>3, <2>4 DEF Alone, Holding, Holds
  <2> QED
    BY <2>5, AloneStays
<1>8. ASSUME NEW v \in Workers, Finish(v)
      PROVE  Alone'
  <2>1. ASSUME NEW w \in Workers, task'[w].pc \in Working PROVE Stays(w)
    <3>1. w # v /\ task'[w] = task[w] /\ task[w].pc \in Working /\ task[v].pc \in Working
      BY <1>0, <1>8, <2>1, IdleFacts DEF Finish, Done, Working
    <3>2. task[w].event # task[v].event
      BY <3>1 DEF Alone, OnePusher, Working
    <3>3. rec'[task[w].event] = rec[task[w].event]
      BY <1>0, <1>8, <3>1, <3>2 DEF Finish
    <3> QED
      BY <3>1, <3>3 DEF Alone, Holding, Holds
  <2> QED
    BY <2>1, AloneStays
<1>9. ASSUME NEW e \in Events, Occur(e) \/ IndexCatchUp(e)
      PROVE  rec' = rec /\ task' = task
  BY <1>9 DEF Occur, IndexCatchUp
<1>10. CASE \/ \E status \in {"enabled", "paused", "revoked"} : Mutate(status)
            \/ RemoveTenant \/ RemovalDone \/ UNCHANGED vars
  BY <1>1, <1>10 DEF Mutate, RemoveTenant, RemovalDone, vars
<1>11. ASSUME NEW e \in Events,
             \/ Enqueue(e) \/ Redrive(e) \/ RemoveDelivery(e) \/ ComeDue(e) \/ AgeCycle(e)
             \/ AgeWindow(e)
       PROVE task' = task
  BY <1>11 DEF Enqueue, Redrive, RemoveDelivery, ComeDue, AgeCycle, AgeWindow
<1> QED
  BY <1>1, <1>2, <1>4, <1>5, <1>6, <1>7, <1>8, <1>9, <1>10, <1>11 DEF Next, WorkerStep

\* With passes that are stopped in time, at most one pass works on a delivery.
LEMMA OneAtATime == ASSUME Assumptions PROVE Spec => [](Timely => OnePusher)
<1>1. Init => Alone
  BY DEF Init, Alone, OnePusher, Holding, Working, Idle
<1>2. Timely /\ DInv /\ Alone /\ [Next]_vars => Alone'
  BY AloneInv
<1>3. Alone => OnePusher
  BY DEF Alone
<1>4. CASE Timely
  <2>1. DInv /\ Alone /\ [Next]_vars => Alone'
    BY <1>2, <1>4
  <2>2. Alone => (Timely => OnePusher)
    BY <1>3
  <2> QED
    BY <1>1, <2>1, <2>2, Invariance, PTL DEF Spec
<1>5. CASE ~Timely
  <2>1. Timely => OnePusher
    BY <1>5
  <2> QED
    BY <2>1, PTL
<1> QED
  BY <1>4, <1>5

\* For any number of events, tasks and limits, and however late the index is: a
\* delivery is one SET however often it is pushed, its attempts end, no pass works
\* under a lease granted behind a change of the stream, after the offboarding
\* nothing is deliverable, and passes that are stopped in time never push together.
THEOREM DeliverySound == ASSUME Assumptions PROVE Spec => []DeliveryIsSound
<1>1. DInv => OneSet
  <2> SUFFICES ASSUME DInv, NEW p \in pushed, NEW q \in pushed, p[1] = q[1] PROVE p = q
    BY DEF OneSet
  <2>1. p \in Events \X Nat /\ q \in Events \X Nat /\ p[2] = q[2]
    BY DEF DInv, Types, PushedIsRecorded
  <2> QED
    BY <2>1
<1>2. DInv => AttemptsEnd /\ LeasedWhileCurrent /\ RemovalIsFinal
  BY DEF DInv, AttemptsEnd, Recorded, LeasedWhileCurrent, OnTask, On, Working, Ended
<1> QED
  BY <1>1, <1>2, Invariance, OneAtATime, PTL DEF DeliveryIsSound

\* Nobody but its holder, its end and the offboarding takes a lease away.
THEOREM NobodyElseEndsALease == ASSUME Assumptions PROVE Spec => LeaseIsKept
<1> DEFINE Keeps(w) ==
      (/\ task[w].pc \in {"sign", "persist", "push", "finish"}
       /\ Holds(w) /\ ~rec[task[w].event].leaseOver)
        => \/ rec'[task[w].event].lease = w
           \/ task'[w].pc = "idle"
           \/ removal = "running"
<1>1. ASSUME DInv, [Next]_vars, NEW w \in Workers PROVE Keeps(w)
  <2> SUFFICES ASSUME NEW e, e = task[w].event, task[w].pc \in Working, rec[e].lease = w,
                      ~rec[e].leaseOver
               PROVE  rec'[e].lease = w \/ task'[w].pc = "idle" \/ removal = "running"
    BY DEF Holds, Working
  <2>1. /\ e \in Events /\ w # None /\ rec[e].status \in Active /\ rec[e] \in DeliveryV
        /\ rec \in [Events -> DeliveryV] /\ task \in [Workers -> TaskV]
    BY <1>1 DEF DInv, Types, OnTask, On, Working, Recorded, Assumptions
  <2>2. ~Takeable(rec[e])
    BY <2>1 DEF Takeable
  <2>3. CASE rec' = rec
    BY <2>3
  <2>4. ASSUME NEW f \in Events,
               \/ Enqueue(f) \/ Redrive(f) \/ RemoveDelivery(f) \/ ComeDue(f) \/ AgeCycle(f)
               \/ AgeWindow(f)
        PROVE  rec'[e].lease = w \/ removal = "running"
    <3>1. CASE f # e
      BY <2>1, <2>4, <3>1 DEF Enqueue, Redrive, RemoveDelivery, ComeDue, AgeCycle, AgeWindow
    <3>2. CASE f = e
      <4>1. ~Enqueue(f) /\ ~Redrive(f)
        BY <2>1, <3>2 DEF Enqueue, Redrive, Redriveable, Active
      <4>2. RemoveDelivery(f) => removal = "running"
        BY DEF RemoveDelivery
      <4>3. ComeDue(f) \/ AgeCycle(f) \/ AgeWindow(f) => rec'[e].lease = rec[e].lease
        BY <2>1, <3>2 DEF ComeDue, AgeCycle, AgeWindow, DeliveryV
      <4> QED
        BY <2>4, <4>1, <4>2, <4>3
    <3> QED
      BY <3>1, <3>2
  <2>5. ASSUME NEW v \in Workers, GiveUp(v) \/ Lease(v)
        PROVE  rec'[e].lease = w
    <3>1. CASE task[v].event = e
      BY <2>2, <2>5, <3>1 DEF GiveUp, Lease
    <3>2. CASE task[v].event # e
      BY <2>1, <2>5, <3>2 DEF GiveUp, Lease
    <3> QED
      BY <3>1, <3>2
  <2>6. ASSUME NEW v \in Workers, Persist(v)
        PROVE  rec'[e].lease = w
    <3>1. CASE task[v].event = e
      <4> DEFINE d == [rec[e] EXCEPT !.set = task[v].set, !.windowOld = FALSE]
      <4>1. d.lease = w
        BY <2>1 DEF DeliveryV
      <4>2. rec' = rec \/ rec' = [rec EXCEPT ![e] = d]
        BY <2>6, <3>1 DEF Persist
      <4> HIDE DEF d
      <4> QED
        BY <2>1, <4>1, <4>2
    <3>2. CASE task[v].event # e
      BY <2>1, <2>6, <3>2 DEF Persist
    <3> QED
      BY <3>1, <3>2
  <2>7. ASSUME NEW v \in Workers, Finish(v)
        PROVE  rec'[e].lease = w \/ task'[w].pc = "idle"
    <3>1. CASE v = w
      BY <2>1, <2>7, <3>1, IdleFacts DEF Finish, Done
    <3>2. CASE v # w /\ task[v].event = e
      BY <2>7, <3>2 DEF Finish, Holds
    <3>3. CASE v # w /\ task[v].event # e
      BY <2>1, <2>7, <3>3 DEF Finish
    <3> QED
      BY <3>1, <3>2, <3>3
  <2>8. ASSUME NEW v \in Workers, ReadStream(v) \/ Sign(v) \/ Push(v) \/ Crash(v)
        PROVE  rec' = rec
    BY <2>8 DEF ReadStream, Sign, Push, Crash
  <2>9. ASSUME NEW f \in Events, Occur(f) \/ IndexCatchUp(f) \/ \E v \in Workers : Query(v, f)
        PROVE  rec' = rec
    BY <2>9 DEF Occur, IndexCatchUp, Query
  <2>10. CASE \/ \E status \in {"enabled", "paused", "revoked"} : Mutate(status)
              \/ RemoveTenant \/ RemovalDone \/ UNCHANGED vars
    BY <2>3, <2>10 DEF Mutate, RemoveTenant, RemovalDone, vars
  <2> QED
    BY <1>1, <2>3, <2>4, <2>5, <2>6, <2>7, <2>8, <2>9, <2>10 DEF Next, WorkerStep
<1>2. DInv /\ [Next]_vars => [\A w \in Workers : Keeps(w)]_vars
  BY <1>1
<1> QED
  BY <1>2, Invariance, PTL DEF Spec, LeaseIsKept, Holds

-----------------------------------------------------------------------------
(***************************************************************************)
(* Reclaim: no live code or family lacks its reference once coverage is    *)
(* published, none is left behind by a tombstone, and a tombstone stays.   *)
(*                                                                         *)
(* What a pass has read of the sources is of use only under the revision of*)
(* the client it listed (Checked), and between the two scans of the        *)
(* migration no new source may come without its reference (Scanned).       *)
(***************************************************************************)

CONSTANTS Codes, Families, Passes, Admins, MaxMigrations
VARIABLES client, source, refs, covered, legacy, mig, pass, admin

Reclaim == INSTANCE ClientReclaim

SnapshotV == [tomb : {"no", "fresh", "over"}, rev : Nat]
ReclaimTypes ==
    /\ client \in [row : Reclaim!Rows, tomb : {"no", "fresh", "over"}, idle : BOOLEAN, rev : Nat]
    /\ source \in [Reclaim!Sources -> {"none", "live", "over"}] /\ refs \subseteq Reclaim!Sources
    /\ mig \in [phase : Reclaim!Phases, todo : SUBSET Reclaim!Sources, begun : Nat]
    /\ pass \in [Passes -> [pc : {"idle", "refresh", "code", "act"}, seen : SnapshotV]]
    /\ admin \in [Admins -> [on : BOOLEAN, seen : SnapshotV, idle : BOOLEAN]]

\* What is live and has no reference.
Missing == Reclaim!Live(Reclaim!Sources) \ refs

\* How far the migration has found it.
Scanned ==
    /\ legacy => ~covered /\ mig.phase \in {"none", "drain"}
    /\ mig.phase = "backfill_codes" => Missing \cap Codes \subseteq mig.todo
    /\ mig.phase = "backfill_refreshes" => Missing \subseteq mig.todo
    /\ (covered \/ mig.phase \in {"verify_codes", "verify_refreshes", "publish", "complete"})
         => Missing = {}

\* What a pass knows, as long as the revision is the one it listed.
Checked(p) ==
    /\ pass[p].pc # "idle" => /\ pass[p].seen.rev <= client.rev
                              /\ pass[p].seen.tomb # "no" => client.tomb # "no"
    /\ pass[p].pc \in {"code", "act"} =>
         /\ ~legacy
         /\ pass[p].seen.rev = client.rev => Reclaim!Live(Families) = {}
    /\ pass[p].pc = "act" /\ pass[p].seen.rev = client.rev => Reclaim!Live(Codes) = {}

\* A tombstone an update has read is still there.
Remembered(a) == admin[a].on /\ admin[a].seen.tomb # "no" => client.tomb # "no"

CInv ==
    /\ ReclaimTypes /\ Scanned /\ Reclaim!NothingDangles
    /\ \A p \in Passes : Checked(p)
    /\ \A a \in Admins : Remembered(a)

LEMMA ReclaimInit == Reclaim!Init => CInv
BY DEF Reclaim!Init, CInv, ReclaimTypes, Scanned, Reclaim!NothingDangles, Checked, Remembered,
       Missing, Reclaim!Live,
       Reclaim!NoSnapshot, SnapshotV, Reclaim!Rows, Reclaim!Phases

\* What a pass knows survives a step that leaves it alone, or ends it, and that lets no source
\* come to life under the same revision.
LEMMA CheckedFrame ==
    ASSUME CInv, NEW p \in Passes, pass'[p] = pass[p] \/ pass'[p].pc = "idle",
           legacy' => legacy, client'.rev \in Nat, client.rev <= client'.rev,
           client.tomb # "no" => client'.tomb # "no",
           ~legacy /\ client'.rev = client.rev =>
             \A s \in Reclaim!Sources : source'[s] = "live" => source[s] = "live"
    PROVE  Checked(p)'
<1>1. pass[p].seen.rev \in Nat /\ client.rev \in Nat /\ Checked(p)
  BY DEF CInv, ReclaimTypes, SnapshotV
<1>2. CASE pass'[p].pc = "idle"
  BY <1>2 DEF Checked
<1>3. CASE pass'[p] = pass[p] /\ pass[p].pc # "idle"
  <2>1. pass[p].seen.rev <= client.rev /\ (pass[p].seen.tomb # "no" => client.tomb # "no")
    BY <1>1, <1>3 DEF Checked
  <2>2. pass[p].seen.rev <= client'.rev
    BY <1>1, <2>1
  <2>3. ASSUME pass[p].seen.rev = client'.rev
        PROVE  pass[p].seen.rev = client.rev /\ client'.rev = client.rev
    BY <1>1, <2>1, <2>3
  <2>4. ASSUME pass[p].pc \in {"code", "act"}
        PROVE  ~legacy' /\ (pass[p].seen.rev = client'.rev => Reclaim!Live(Families)' = {})
    BY <1>1, <2>3, <2>4 DEF Checked, Reclaim!Live, Reclaim!Sources
  <2>5. ASSUME pass[p].pc = "act", pass[p].seen.rev = client'.rev PROVE Reclaim!Live(Codes)' = {}
    BY <1>1, <2>3, <2>5 DEF Checked, Reclaim!Live, Reclaim!Sources
  <2> QED
    BY <1>3, <2>1, <2>2, <2>4, <2>5 DEF Checked
<1> QED
  BY <1>2, <1>3

LEMMA SourceStep ==
    ASSUME CInv, NEW s \in Reclaim!Sources, Reclaim!Create(s) \/ Reclaim!End(s) \/ Reclaim!ExpireCode(s) \/ Reclaim!LegacyWrite(s)
    PROVE  CInv'
<1>1. ReclaimTypes /\ Scanned /\ Reclaim!NothingDangles /\ (\A a \in Admins : Remembered(a))
  BY DEF CInv
<1>2. /\ UNCHANGED <<covered, legacy, mig, pass, admin>>
      /\ client'.tomb = client.tomb /\ client'.row = client.row
      /\ client'.rev \in {client.rev, client.rev + 1}
      /\ client' \in [row : Reclaim!Rows, tomb : {"no", "fresh", "over"}, idle : BOOLEAN, rev : Nat]
      /\ source' \in [Reclaim!Sources -> {"none", "live", "over"}] /\ refs' \subseteq Reclaim!Sources
  <2>1. CASE Reclaim!Create(s)
    <3>1. PICK n \in Nat : n = client.rev + 1
      BY <1>1 DEF ReclaimTypes
    <3>2. client' = [client EXCEPT !.idle = FALSE, !.rev = n]
      BY <2>1, <3>1 DEF Reclaim!Create
    <3>3. /\ UNCHANGED <<covered, legacy, mig, pass, admin>>
          /\ source' = [source EXCEPT ![s] = "live"] /\ refs' = refs \cup {s}
      BY <2>1 DEF Reclaim!Create
    <3> QED
      BY <1>1, <3>1, <3>2, <3>3 DEF ReclaimTypes
  <2>2. CASE Reclaim!End(s) \/ Reclaim!ExpireCode(s) \/ Reclaim!LegacyWrite(s)
    BY <1>1, <2>2 DEF Reclaim!End, Reclaim!ExpireCode, Reclaim!LegacyWrite, ReclaimTypes
  <2> QED
    BY <2>1, <2>2
<1>3. \A z \in Reclaim!Sources : source'[z] = "live" /\ source[z] # "live" =>
        /\ client.row = "full" /\ client.tomb = "no"
        /\ legacy \/ (client'.rev = client.rev + 1 /\ z \in refs')
  BY <1>1 DEF Reclaim!Create, Reclaim!End, Reclaim!ExpireCode, Reclaim!LegacyWrite,
              ReclaimTypes, Reclaim!Usable
<1>4. \A z \in Reclaim!Sources : source'[z] = "live" /\ z \in refs => z \in refs'
  BY <1>1 DEF Reclaim!Create, Reclaim!End, Reclaim!ExpireCode, Reclaim!LegacyWrite, ReclaimTypes
<1>5. ReclaimTypes'
  BY <1>1, <1>2 DEF ReclaimTypes
<1>6. Scanned'
  <2>1. legacy \/ Missing' \subseteq Missing
    BY <1>3, <1>4 DEF Missing, Reclaim!Live
  <2> QED
    BY <1>1, <1>2, <2>1 DEF Scanned
<1>7. Reclaim!NothingDangles'
  BY <1>1, <1>2, <1>3 DEF Reclaim!NothingDangles, Reclaim!Live
<1>8. ASSUME NEW p \in Passes PROVE Checked(p)'
  <2>1. client.rev \in Nat
    BY <1>1 DEF ReclaimTypes
  <2>2. client.rev <= client'.rev /\ client'.rev \in Nat
    BY <1>2, <2>1
  <2>3. ~legacy /\ client'.rev = client.rev =>
          \A z \in Reclaim!Sources : source'[z] = "live" => source[z] = "live"
    BY <1>3, <2>1
  <2> QED
    BY <1>2, <2>2, <2>3, CheckedFrame
<1>9. ASSUME NEW a \in Admins PROVE Remembered(a)'
  BY <1>1, <1>2 DEF Remembered
<1> QED
  BY <1>5, <1>6, <1>7, <1>8, <1>9 DEF CInv

LEMMA ClientStep ==
    ASSUME CInv, Reclaim!Touch \/ Reclaim!BecomeIdle \/ Reclaim!GraceOver
    PROVE  CInv'
<1>1. ReclaimTypes /\ Scanned /\ Reclaim!NothingDangles /\ (\A a \in Admins : Remembered(a))
  BY DEF CInv
<1>2. /\ UNCHANGED <<source, refs, covered, legacy, mig, pass, admin>>
      /\ client'.row = client.row /\ client'.rev = client.rev
      /\ client.tomb = "no" <=> client'.tomb = "no"
      /\ client' \in [row : Reclaim!Rows, tomb : {"no", "fresh", "over"}, idle : BOOLEAN, rev : Nat]
  BY <1>1 DEF Reclaim!Touch, Reclaim!BecomeIdle, Reclaim!GraceOver, ReclaimTypes
<1>3. ReclaimTypes' /\ Scanned' /\ Reclaim!NothingDangles'
  BY <1>1, <1>2 DEF ReclaimTypes, Scanned, Missing, Reclaim!NothingDangles, Reclaim!Live
<1>4. ASSUME NEW p \in Passes PROVE Checked(p)'
  <2>1. client.rev \in Nat
    BY <1>1 DEF ReclaimTypes
  <2> QED
    BY <1>2, <2>1, CheckedFrame
<1>5. ASSUME NEW a \in Admins PROVE Remembered(a)'
  BY <1>1, <1>2 DEF Remembered
<1> QED
  BY <1>3, <1>4, <1>5 DEF CInv

LEMMA AdminStep ==
    ASSUME CInv, NEW a \in Admins, Reclaim!AdminRead(a) \/ Reclaim!AdminPut(a)
    PROVE  CInv'
<1>1. ReclaimTypes /\ Scanned /\ Reclaim!NothingDangles /\ (\A b \in Admins : Remembered(b))
  BY DEF CInv
<1>2. UNCHANGED <<source, refs, covered, legacy, mig, pass>>
  BY DEF Reclaim!AdminRead, Reclaim!AdminPut
\* A put that goes through writes back the tomb and the revision it finds.
<1>3. client'.row = client.row /\ client'.tomb = client.tomb /\ client'.rev = client.rev
  <2>1. CASE Reclaim!AdminRead(a)
    BY <2>1 DEF Reclaim!AdminRead
  <2>2. CASE Reclaim!AdminPut(a) /\ ~Reclaim!PutMatches(a)
    BY <2>2 DEF Reclaim!AdminPut
  <2>3. CASE Reclaim!AdminPut(a) /\ Reclaim!PutMatches(a)
    <3>1. admin[a].on /\ client.tomb = "no" /\ client.rev = admin[a].seen.rev
      BY <2>3 DEF Reclaim!AdminPut, Reclaim!PutMatches
    <3>2. admin[a].seen.tomb = "no"
      BY <1>1, <3>1 DEF Remembered
    <3> QED
      BY <1>1, <2>3, <3>1, <3>2 DEF Reclaim!AdminPut, ReclaimTypes
  <2> QED
    BY <2>1, <2>2, <2>3
<1>4. /\ client' \in [row : Reclaim!Rows, tomb : {"no", "fresh", "over"}, idle : BOOLEAN, rev : Nat]
      /\ admin' \in [Admins -> [on : BOOLEAN, seen : SnapshotV, idle : BOOLEAN]]
  <2>1. CASE Reclaim!AdminRead(a)
    <3>1. Reclaim!Snapshot \in SnapshotV /\ client.idle \in BOOLEAN
      BY <1>1 DEF ReclaimTypes, SnapshotV, Reclaim!Snapshot
    <3> QED
      BY <1>1, <2>1, <3>1 DEF Reclaim!AdminRead, ReclaimTypes
  <2>2. CASE Reclaim!AdminPut(a)
    BY <1>1, <2>2 DEF Reclaim!AdminPut, ReclaimTypes, SnapshotV
  <2> QED
    BY <2>1, <2>2
<1>5. ReclaimTypes' /\ Scanned' /\ Reclaim!NothingDangles'
  BY <1>1, <1>2, <1>3, <1>4 DEF ReclaimTypes, Scanned, Missing, Reclaim!NothingDangles,
                                Reclaim!Live
<1>6. ASSUME NEW p \in Passes PROVE Checked(p)'
  <2>1. client.rev \in Nat
    BY <1>1 DEF ReclaimTypes
  <2> QED
    BY <1>2, <1>3, <2>1, CheckedFrame
<1>7. ASSUME NEW b \in Admins PROVE Remembered(b)'
  <2>1. CASE b # a
    BY <1>1, <1>3, <2>1 DEF Remembered, Reclaim!AdminRead, Reclaim!AdminPut, ReclaimTypes
  <2>2. CASE b = a /\ Reclaim!AdminRead(a)
    BY <1>1, <1>3, <2>2 DEF Remembered, Reclaim!AdminRead, ReclaimTypes, Reclaim!Snapshot
  <2>3. CASE b = a /\ Reclaim!AdminPut(a)
    BY <1>1, <2>3 DEF Remembered, Reclaim!AdminPut, ReclaimTypes
  <2> QED
    BY <2>1, <2>2, <2>3
<1> QED
  BY <1>5, <1>6, <1>7 DEF CInv

LEMMA ReclaimMigration == ASSUME CInv, Reclaim!Begin \/ Reclaim!Migrate PROVE CInv'
<1>1. ReclaimTypes /\ Scanned /\ Reclaim!NothingDangles /\ (\A b \in Admins : Remembered(b))
  BY DEF CInv
<1>2. /\ UNCHANGED <<client, source, pass, admin>>
      /\ mig' \in [phase : Reclaim!Phases, todo : SUBSET Reclaim!Sources, begun : Nat]
      /\ refs' \subseteq Reclaim!Sources /\ (legacy' => legacy)
  <2>1. CASE Reclaim!Begin
    BY <1>1, <2>1 DEF Reclaim!Begin, ReclaimTypes, Reclaim!Phases
  <2>2. CASE Reclaim!Drained
    BY <1>1, <2>2 DEF Reclaim!Drained, ReclaimTypes, Reclaim!Phases
  <2>3. CASE Reclaim!PhaseDone
    BY <1>1, <2>3 DEF Reclaim!PhaseDone, ReclaimTypes, Reclaim!Phases, Reclaim!NextPhase,
                      Reclaim!PageOf, Reclaim!Sources
  <2>4. CASE Reclaim!PublishCoverage
    BY <1>1, <2>4 DEF Reclaim!PublishCoverage, ReclaimTypes, Reclaim!Phases
  <2>5. ASSUME NEW s \in Reclaim!Sources, Reclaim!CleanupReference(s) \/ Reclaim!Visit(s)
        PROVE  /\ UNCHANGED <<client, source, legacy, pass, admin>>
               /\ mig' \in [phase : Reclaim!Phases, todo : SUBSET Reclaim!Sources, begun : Nat]
               /\ refs' \subseteq Reclaim!Sources
    BY <1>1, <2>5 DEF Reclaim!CleanupReference, Reclaim!Visit, ReclaimTypes
  <2> QED
    BY <2>1, <2>2, <2>3, <2>4, <2>5 DEF Reclaim!Migrate
<1>3. Scanned'
  <2>1. CASE Reclaim!Begin
    BY <1>1, <2>1 DEF Reclaim!Begin, Scanned, ReclaimTypes
  <2>2. CASE Reclaim!Drained
    BY <1>1, <2>2 DEF Reclaim!Drained, Scanned, ReclaimTypes, Missing, Reclaim!Live
  <2>3. CASE Reclaim!PhaseDone
    <3>1. ~legacy /\ UNCHANGED <<refs, covered, legacy>> /\ Missing' = Missing
      BY <1>1, <1>2, <2>3 DEF Reclaim!PhaseDone, Scanned, ReclaimTypes, Missing, Reclaim!Live,
                              Reclaim!Phases
    <3>2. CASE mig.phase = "cleanup"
      BY <1>1, <2>3, <3>1, <3>2
         DEF Reclaim!PhaseDone, Scanned, ReclaimTypes, Reclaim!NextPhase, Reclaim!PageOf,
         Missing, Reclaim!Live
    <3>3. CASE mig.phase = "backfill_codes"
      <4>1. Missing \subseteq Families /\ \A s \in Missing : source[s] # "none"
        BY <1>1, <2>3, <3>3 DEF Reclaim!PhaseDone, Scanned, Missing, Reclaim!Live, Reclaim!Sources
      <4>2. mig'.phase = "backfill_refreshes"
            /\ mig'.todo = {s \in Families : source[s] # "none"}
        BY <1>1, <2>3, <3>3 DEF Reclaim!PhaseDone, ReclaimTypes, Reclaim!NextPhase, Reclaim!PageOf
      <4> QED
        BY <1>1, <3>1, <4>1, <4>2 DEF Scanned
    <3>4. CASE mig.phase = "backfill_refreshes"
      BY <1>1, <2>3, <3>1, <3>4 DEF Reclaim!PhaseDone, Scanned, ReclaimTypes, Reclaim!NextPhase
    <3>5. CASE mig.phase \in {"verify_codes", "verify_refreshes"}
      BY <1>1, <2>3, <3>1, <3>5 DEF Reclaim!PhaseDone, Scanned, ReclaimTypes, Reclaim!NextPhase
    <3> QED
      BY <1>1, <2>3, <3>2, <3>3, <3>4, <3>5 DEF Reclaim!PhaseDone, ReclaimTypes, Reclaim!Phases
  <2>4. CASE Reclaim!PublishCoverage
    BY <1>1, <2>4 DEF Reclaim!PublishCoverage, Scanned, ReclaimTypes, Missing, Reclaim!Live
  <2>5. ASSUME NEW s \in Reclaim!Sources, Reclaim!CleanupReference(s) PROVE Scanned'
    <3>1. /\ UNCHANGED <<source, covered, legacy>> /\ mig'.phase = "cleanup"
          /\ mig.phase = "cleanup" /\ Missing' \subseteq Missing
      BY <1>1, <2>5 DEF Reclaim!CleanupReference, ReclaimTypes, Missing, Reclaim!Live
    <3> QED
      BY <1>1, <3>1 DEF Scanned
  <2>6. ASSUME NEW s \in Reclaim!Sources, Reclaim!Visit(s) PROVE Scanned'
    <3>1. /\ UNCHANGED <<source, covered, legacy>> /\ mig'.phase = mig.phase
          /\ mig'.todo = mig.todo \ {s} /\ mig.phase \notin {"none", "drain"}
      BY <1>1, <2>6 DEF Reclaim!Visit, ReclaimTypes
    <3>2. Missing' \subseteq Missing \ {s}
      BY <1>1, <2>6 DEF Reclaim!Visit, Missing, Reclaim!Live
    <3> QED
      BY <1>1, <3>1, <3>2 DEF Scanned
  <2> QED
    BY <2>1, <2>2, <2>3, <2>4, <2>5, <2>6 DEF Reclaim!Migrate
<1>4. ReclaimTypes' /\ Reclaim!NothingDangles'
  BY <1>1, <1>2 DEF ReclaimTypes, Reclaim!NothingDangles, Reclaim!Live
<1>5. ASSUME NEW p \in Passes PROVE Checked(p)'
  <2>1. client.rev \in Nat
    BY <1>1 DEF ReclaimTypes
  <2> QED
    BY <1>2, <2>1, CheckedFrame
<1>6. ASSUME NEW b \in Admins PROVE Remembered(b)'
  BY <1>1, <1>2 DEF Remembered
<1> QED
  BY <1>3, <1>4, <1>5, <1>6 DEF CInv

LEMMA ReclaimPassStep ==
    ASSUME CInv, NEW p \in Passes, Reclaim!List(p) \/ Reclaim!PassStep(p) \/ Reclaim!Crash(p)
    PROVE  CInv'
<1>1. /\ ReclaimTypes /\ Scanned /\ Reclaim!NothingDangles /\ (\A b \in Admins : Remembered(b))
      /\ Checked(p) /\ client.rev \in Nat
  BY DEF CInv, ReclaimTypes
<1>2. /\ UNCHANGED <<source, refs, covered, legacy, mig, admin>>
      /\ \A q \in Passes \ {p} : pass'[q] = pass[q]
      /\ pass' \in [Passes -> [pc : {"idle", "refresh", "code", "act"}, seen : SnapshotV]]
  <2>1. Reclaim!Snapshot \in SnapshotV /\ Reclaim!NoSnapshot \in SnapshotV
    BY <1>1 DEF ReclaimTypes, SnapshotV, Reclaim!Snapshot, Reclaim!NoSnapshot
  <2>2. CASE Reclaim!List(p)
    BY <1>1, <2>1, <2>2 DEF Reclaim!List, ReclaimTypes
  <2>3. CASE Reclaim!ReadRefresh(p)
    BY <1>1, <2>1, <2>3 DEF Reclaim!ReadRefresh, Reclaim!Stop, ReclaimTypes
  <2>4. CASE Reclaim!ReadCode(p)
    BY <1>1, <2>1, <2>4 DEF Reclaim!ReadCode, Reclaim!Stop, ReclaimTypes, Reclaim!Live
  <2>5. CASE Reclaim!Convert(p) \/ Reclaim!HardDelete(p) \/ Reclaim!Crash(p)
    BY <1>1, <2>1, <2>5 DEF Reclaim!Convert, Reclaim!HardDelete, Reclaim!Crash, Reclaim!Stop,
                            ReclaimTypes
  <2> QED
    BY <2>2, <2>3, <2>4, <2>5 DEF Reclaim!PassStep
<1>3. /\ client' \in [row : Reclaim!Rows, tomb : {"no", "fresh", "over"}, idle : BOOLEAN, rev : Nat]
      /\ client'.rev = client.rev /\ (client.tomb # "no" => client'.tomb # "no")
  BY <1>1 DEF Reclaim!List, Reclaim!PassStep, Reclaim!ReadRefresh, Reclaim!ReadCode,
              Reclaim!Convert, Reclaim!HardDelete, Reclaim!Crash, ReclaimTypes, Reclaim!Rows
\* Whoever converts has seen this revision without codes and families; whoever deletes has
\* seen the tombstone.
<1>4. client' # client => Reclaim!Live(Reclaim!Sources) = {}
  <2>1. CASE Reclaim!Convert(p)
    <3>1. client' # client => pass[p].pc = "act" /\ client.rev = pass[p].seen.rev
      BY <2>1 DEF Reclaim!Convert, Reclaim!UnchangedSinceListed
    <3>2. Reclaim!Live(Reclaim!Sources) = Reclaim!Live(Codes) \cup Reclaim!Live(Families)
      BY DEF Reclaim!Live, Reclaim!Sources
    <3> QED
      BY <1>1, <3>1, <3>2 DEF Checked
  <2>2. CASE Reclaim!HardDelete(p)
    BY <1>1, <2>2 DEF Reclaim!HardDelete, Checked, Reclaim!NothingDangles
  <2>3. CASE Reclaim!List(p) \/ Reclaim!ReadRefresh(p) \/ Reclaim!ReadCode(p) \/ Reclaim!Crash(p)
    BY <2>3 DEF Reclaim!List, Reclaim!ReadRefresh, Reclaim!ReadCode, Reclaim!Crash
  <2> QED
    BY <2>1, <2>2, <2>3 DEF Reclaim!PassStep
<1>5. ReclaimTypes' /\ Scanned'
  BY <1>1, <1>2, <1>3 DEF ReclaimTypes, Scanned, Missing, Reclaim!Live
<1>6. Reclaim!NothingDangles'
  BY <1>1, <1>2, <1>4 DEF Reclaim!NothingDangles, Reclaim!Live
<1>7. ASSUME NEW q \in Passes PROVE Checked(q)'
  <2>1. CASE q # p \/ pass'[q].pc = "idle"
    BY <1>1, <1>2, <1>3, <2>1, CheckedFrame
  <2>2. CASE q = p /\ pass'[p].pc # "idle"
    <3>1. CASE Reclaim!List(p)
      BY <1>1, <2>2, <3>1 DEF Reclaim!List, Checked, Reclaim!Snapshot, ReclaimTypes
    <3>2. CASE Reclaim!ReadRefresh(p)
      <4>1. /\ pass'[p].pc = "code" /\ pass'[p].seen = pass[p].seen /\ pass[p].pc = "refresh"
            /\ covered /\ refs \cap Families = {} /\ client' = client
        BY <1>1, <2>2, <3>2 DEF Reclaim!ReadRefresh, Reclaim!Stop, Reclaim!NoSnapshot,
                                ReclaimTypes
      <4>2. ~legacy /\ Reclaim!Live(Families) = {}
        BY <1>1, <4>1 DEF Scanned, Missing, Reclaim!Live, Reclaim!Sources
      <4> QED
        BY <1>1, <1>2, <2>2, <4>1, <4>2 DEF Checked, Reclaim!Live
    <3>3. CASE Reclaim!ReadCode(p)
      <4>1. /\ pass'[p].pc = "act" /\ pass'[p].seen = pass[p].seen /\ pass[p].pc = "code"
            /\ covered /\ Reclaim!Live(refs \cap Codes) = {} /\ client' = client
        <5>1. CASE covered /\ Reclaim!Live(refs \cap Codes) = {}
          BY <1>1, <3>3, <5>1 DEF Reclaim!ReadCode, ReclaimTypes, Reclaim!Live
        <5>2. CASE ~(covered /\ Reclaim!Live(refs \cap Codes) = {})
          BY <1>1, <2>2, <3>3, <5>2 DEF Reclaim!ReadCode, Reclaim!Stop, ReclaimTypes, Reclaim!Live
        <5> QED
          BY <5>1, <5>2
      <4>2. Reclaim!Live(Codes) = {}
        BY <1>1, <4>1 DEF Scanned, Missing, Reclaim!Live, Reclaim!Sources
      <4> QED
        BY <1>1, <1>2, <2>2, <4>1, <4>2 DEF Checked, Reclaim!Live
    <3>4. CASE Reclaim!Convert(p) \/ Reclaim!HardDelete(p) \/ Reclaim!Crash(p)
      BY <1>1, <2>2, <3>4 DEF Reclaim!Convert, Reclaim!HardDelete, Reclaim!Crash, Reclaim!Stop,
                              ReclaimTypes
    <3> QED
      BY <3>1, <3>2, <3>3, <3>4 DEF Reclaim!PassStep
  <2> QED
    BY <2>1, <2>2
<1>8. ASSUME NEW b \in Admins PROVE Remembered(b)'
  BY <1>1, <1>2, <1>3 DEF Remembered
<1> QED
  BY <1>5, <1>6, <1>7, <1>8 DEF CInv

LEMMA ReclaimNext == CInv /\ [Reclaim!Next]_Reclaim!vars => CInv'
<1> SUFFICES ASSUME CInv, [Reclaim!Next]_Reclaim!vars PROVE CInv'
  OBVIOUS
<1>1. CASE UNCHANGED Reclaim!vars
  BY <1>1 DEF Reclaim!vars, CInv, ReclaimTypes, Scanned, Reclaim!NothingDangles, Checked,
              Remembered, Missing,
              Reclaim!Live
<1>2. CASE Reclaim!Next
  BY <1>2, SourceStep, ClientStep, AdminStep, ReclaimMigration, ReclaimPassStep DEF Reclaim!Next
<1> QED
  BY <1>1, <1>2

LEMMA ReclaimInvariance == Reclaim!Spec => []CInv
BY ReclaimInit, ReclaimNext, PTL DEF Reclaim!Spec

\* Once coverage is published the references show every live code and family, for any codes,
\* families, passes, updates and restarts of the migration.
THEOREM CoverageHolds == Reclaim!Spec => []Reclaim!CoverageIsComplete
<1>1. CInv => Reclaim!CoverageIsComplete
  BY DEF CInv, Scanned, Missing, Reclaim!CoverageIsComplete
<1> QED
  BY <1>1, ReclaimInvariance, PTL

\* No live code or family belongs to a tombstone or to a deleted client.
THEOREM NothingIsReclaimedInUse == Reclaim!Spec => []Reclaim!NothingDangles
<1>1. CInv => Reclaim!NothingDangles
  BY DEF CInv
<1> QED
  BY <1>1, ReclaimInvariance, PTL

\* No step takes a tombstone back.
THEOREM TombstonesStay == Reclaim!Spec => [][Reclaim!TombstoneStays]_Reclaim!vars
<1>1. CInv /\ [Reclaim!Next]_Reclaim!vars => [Reclaim!TombstoneStays]_Reclaim!vars
  <2> SUFFICES ASSUME CInv, Reclaim!Next, client.tomb # "no" PROVE client'.tomb # "no"
    BY DEF Reclaim!TombstoneStays
  <2>1. client \in [row : Reclaim!Rows, tomb : {"no", "fresh", "over"}, idle : BOOLEAN, rev : Nat]
    BY DEF CInv, ReclaimTypes
  <2>2. ASSUME NEW s \in Reclaim!Sources, Reclaim!Create(s) \/ Reclaim!End(s) \/ Reclaim!ExpireCode(s) \/ Reclaim!LegacyWrite(s)
        PROVE  client'.tomb # "no"
    BY <2>1, <2>2 DEF Reclaim!Create, Reclaim!End, Reclaim!ExpireCode, Reclaim!LegacyWrite
  <2>3. ASSUME Reclaim!Touch \/ Reclaim!BecomeIdle \/ Reclaim!GraceOver PROVE client'.tomb # "no"
    BY <2>1, <2>3 DEF Reclaim!Touch, Reclaim!BecomeIdle, Reclaim!GraceOver
  <2>4. ASSUME NEW a \in Admins, Reclaim!AdminRead(a) \/ Reclaim!AdminPut(a)
        PROVE  client'.tomb # "no"
    BY <2>1, <2>4 DEF Reclaim!AdminRead, Reclaim!AdminPut, Reclaim!PutMatches
  <2>5. ASSUME Reclaim!Begin \/ Reclaim!Migrate PROVE client'.tomb # "no"
    BY <2>5 DEF Reclaim!Begin, Reclaim!Migrate, Reclaim!Drained, Reclaim!PhaseDone,
                Reclaim!PublishCoverage, Reclaim!CleanupReference, Reclaim!Visit
  <2>6. ASSUME NEW p \in Passes, Reclaim!List(p) \/ Reclaim!PassStep(p) \/ Reclaim!Crash(p)
        PROVE  client'.tomb # "no"
    BY <2>1, <2>6 DEF Reclaim!List, Reclaim!PassStep, Reclaim!ReadRefresh, Reclaim!ReadCode,
                      Reclaim!Convert, Reclaim!HardDelete, Reclaim!Crash
  <2> QED
    BY <2>2, <2>3, <2>4, <2>5, <2>6 DEF Reclaim!Next
<1> QED
  BY <1>1, ReclaimInvariance, PTL DEF Reclaim!Spec

-----------------------------------------------------------------------------
(***************************************************************************)
(* Policy: a Grant carries the authority of the version it is stamped with,*)
(* no token exceeds what was in force since the cached version was read, and*)
(* no recomputation brings a revoked Grant back.                           *)
(*                                                                         *)
(* One recomputation runs at a time (OneWorker), as recompute.rs presumes of*)
(* its caller: two publications of different texts under one version number*)
(* would replace an artifact that Grants are stamped with.                 *)
(***************************************************************************)

CONSTANTS Grants, Rar, Consent, Policies, Broken, NoValue, Passers, Revokers, Fenced, Issuing,
          MaxPv, MaxGrantRev, MaxDeploys, MaxFaults
VARIABLES deployed, deploys, pv, art, grants, listed, creating, worker, revoker, cache, token,
          faults

Policy == INSTANCE PolicyRecompute WITH
    None <- NoValue, Workers <- Passers, MaxRev <- MaxGrantRev, index <- listed

OneWorker == \A w, x \in Passers : w = x

Scopes == UNION {Consent[g] : g \in Grants}
GrantV == [status : {"none", "active", "revoked"}, rev : 0..MaxGrantRev, pv : 0..MaxPv,
           eff : SUBSET Scopes]
Copies == UNION {[S -> GrantV] : S \in SUBSET Grants}
CreatorV == [pc : {"idle", "artifact", "put", "done"}, n : 0..MaxPv, policy : Policies \cup {NoValue}]
WorkerV == [pc : {"idle", "publish", "put", "bump", "heal", "version", "artifact", "query", "get",
                  "write"},
            text : Policies \cup {Broken, NoValue}, n : Nat, policy : Policies \cup {NoValue},
            todo : SUBSET Grants, seen : Copies, round : {1, 2}]
RevokerV == [pc : {"idle", "put"}, id : Grants \cup {NoValue}, grant : GrantV]

PolicyTypes ==
    /\ deployed \in Policies \cup {Broken} /\ pv \in 0..MaxPv
    /\ art \in [Policy!Versions -> Policies \cup {NoValue}]
    /\ grants \in [Grants -> GrantV]
    /\ DOMAIN listed \subseteq Grants
    /\ creating \in [Grants -> CreatorV]
    /\ worker \in [Passers -> WorkerV]
    /\ revoker \in [Revokers -> RevokerV]

\* Only the next version can have an artifact before it is in force.
Unpublished == \A v \in Policy!Versions : v > pv + 1 => art[v] = NoValue

\* What an active Grant carries.
Stamped(g) ==
    grants[g].status = "active" =>
      /\ grants[g].pv <= pv
      /\ Consent[g] = {} => grants[g].eff = {}
      /\ grants[g].pv > 0 => /\ art[grants[g].pv] # NoValue
                             /\ grants[g].eff = Policy!Evaluate(art[grants[g].pv], g)
                             /\ Consent[g] # {} => grants[g].eff # {}

\* The artifact p of the version n, once read, is the one of that version.
Reads(p, n) == n \in 1..pv /\ p \in Policies /\ p = art[n]

Created(g) ==
    LET c == creating[g] IN
    /\ c.pc \in {"artifact", "put"} => grants[g].status = "none"
    /\ c.pc = "artifact" => c.n \in 1..pv
    /\ c.pc = "put" /\ c.n # 0 => Reads(c.policy, c.n) /\ ~Policy!DeniedAll(c.policy, g)

Copied(w) ==
    LET k == worker[w] IN
    /\ k.pc \notin {"get", "write"} => DOMAIN k.seen = {}
    /\ k.pc = "get" => k.todo \cap DOMAIN k.seen = {}
    /\ \A g \in DOMAIN k.seen : /\ k.seen[g].status = "active" /\ grants[g].status # "none"
                                /\ Consent[g] = {} => k.seen[g].eff = {}

PassWorking(w) ==
    LET k == worker[w] IN
    /\ k.pc = "publish" => k.text \in Policies \cup {Broken}
    /\ k.pc \in {"put", "bump"} => k.n = pv + 1 /\ k.n \in Policy!Versions /\ k.text \in Policies
    /\ k.pc = "heal" => k.n = pv /\ pv \in Policy!Versions /\ art[pv] = NoValue /\ k.text \in Policies
    /\ k.pc = "artifact" => k.n \in 1..pv
    /\ k.pc \in {"query", "get", "write"} => Reads(k.policy, k.n)

Revoking(r) ==
    revoker[r].pc = "put" =>
      /\ revoker[r].id \in Grants /\ grants[revoker[r].id].status # "none"
      /\ revoker[r].grant.rev < MaxGrantRev

Cached == cache # NoValue => cache \in 0..pv

PInv ==
    /\ PolicyTypes /\ Unpublished /\ Cached /\ Policy!IssueWithinPolicy
    /\ \A g \in Grants : Stamped(g) /\ Created(g)
    /\ \A w \in Passers : Copied(w) /\ PassWorking(w)
    /\ \A r \in Revokers : Revoking(r)

\* A copy a pass holds is either current, of an active Grant, or older.
Ordered(w) ==
    \A g \in DOMAIN worker[w].seen :
      /\ worker[w].seen[g].rev <= grants[g].rev
      /\ worker[w].seen[g].rev = grants[g].rev => grants[g].status = "active"
SInv == \A w \in Passers : Ordered(w)

LEMMA Basics == Policy!PolicyAssumption => /\ MaxPv \in Nat /\ MaxPv > 0 /\ MaxGrantRev \in Nat
                                    /\ NoValue \notin Policies /\ Broken \notin Policies
                                    /\ NoValue # Broken
BY DEF Policy!PolicyAssumption

\* What an evaluation leaves of a consent, and an empty copy of Grants.
LEMMA EvaluateFacts ==
    ASSUME NEW g \in Grants, NEW p
    PROVE  /\ Policy!Evaluate(p, g) \in SUBSET Scopes
           /\ Consent[g] = {} => Policy!Evaluate(p, g) = {}
           /\ ~Policy!DeniedAll(p, g) /\ Consent[g] # {} => Policy!Evaluate(p, g) # {}
BY DEF Policy!Evaluate, Scopes, Policy!DeniedAll

LEMMA NoCopies == <<>> \in Copies /\ DOMAIN <<>> = {}
<1>1. <<>> \in [{} -> GrantV] /\ DOMAIN <<>> = {}
  OBVIOUS
<1> QED
  BY <1>1 DEF Copies

LEMMA CopyFacts ==
    ASSUME NEW f \in Copies
    PROVE  /\ DOMAIN f \subseteq Grants /\ \A g \in DOMAIN f : f[g] \in GrantV
BY DEF Copies

LEMMA PolicyInit == ASSUME Policy!PolicyAssumption, Policy!Init PROVE PInv
<1> USE Basics DEF Policy!Init
<1>1. Policy!Absent \in GrantV /\ [Policy!Absent EXCEPT !.status = "active"] \in GrantV
  BY DEF Policy!Absent, GrantV
<1>2. PolicyTypes
  <2>1. grants \in [Grants -> GrantV] /\ DOMAIN listed \subseteq Grants
    BY <1>1
  <2>2. creating \in [Grants -> CreatorV]
    BY DEF Policy!NotStarted, CreatorV
  <2>3. worker \in [Passers -> WorkerV]
    BY NoCopies DEF Policy!Idle, WorkerV
  <2>4. revoker \in [Revokers -> RevokerV]
    BY <1>1 DEF RevokerV
  <2> QED
    BY <2>1, <2>2, <2>3, <2>4 DEF PolicyTypes, Policy!Versions
<1>3. \A g \in Grants : Stamped(g) /\ Created(g)
  <2>1. \A g \in Grants : grants[g].pv = 0 /\ grants[g].eff = {} /\ creating[g] = Policy!NotStarted
    <3>1. \A g \in Grants : grants[g] \in {Policy!Absent, [Policy!Absent EXCEPT !.status = "active"]}
      OBVIOUS
    <3>2. \A g \in Grants : creating[g] = Policy!NotStarted
      OBVIOUS
    <3> HIDE DEF Policy!Init
    <3>3. /\ Policy!Absent.pv = 0 /\ Policy!Absent.eff = {}
          /\ [Policy!Absent EXCEPT !.status = "active"].pv = 0
          /\ [Policy!Absent EXCEPT !.status = "active"].eff = {}
      BY DEF Policy!Absent
    <3> QED
      BY <3>1, <3>2, <3>3
  <2>2. pv = 0
    OBVIOUS
  <2> HIDE DEF Policy!Init
  <2>3. \A g \in Grants : Stamped(g)
    BY <2>1, <2>2 DEF Stamped
  <2>4. ASSUME NEW g \in Grants PROVE Created(g)
    <3>1. creating[g].pc = "idle"
      BY <2>1 DEF Policy!NotStarted
    <3> QED
      BY <3>1 DEF Created
  <2> QED
    BY <2>3, <2>4
<1>4. \A w \in Passers : Copied(w) /\ PassWorking(w)
  BY NoCopies DEF Copied, PassWorking, Policy!Idle
<1>5. Unpublished /\ Cached /\ Policy!IssueWithinPolicy /\ \A r \in Revokers : Revoking(r)
  BY DEF Unpublished, Cached, Policy!IssueWithinPolicy, Revoking
<1> QED
  BY <1>2, <1>3, <1>4, <1>5 DEF PInv

-----------------------------------------------------------------------------
\* The artifact of a version in force is not replaced.
Published == pv \in 0..pv' /\ \A v \in Policy!Versions : v <= pv /\ art[v] # NoValue => art'[v] = art[v]

\* So what has been read of the artifacts stays true while publications go on.
LEMMA PublicationFrame ==
    ASSUME Policy!PolicyAssumption, PInv, PolicyTypes', Published,
           UNCHANGED <<grants, creating, revoker, cache, token>>
    PROVE  /\ \A g \in Grants : Stamped(g)' /\ Created(g)'
           /\ \A r \in Revokers : Revoking(r)'
           /\ Cached' /\ Policy!IssueWithinPolicy'
<1>0. /\ pv \in Nat /\ pv' \in Nat /\ pv <= pv' /\ pv <= MaxPv /\ pv' <= MaxPv /\ MaxPv \in Nat
      /\ NoValue \notin Policies
  <2>1. pv \in 0..MaxPv /\ pv' \in 0..MaxPv
    BY DEF PInv, PolicyTypes
  <2> QED
    BY <2>1, Basics DEF Published
<1>1. ASSUME NEW g \in Grants PROVE Stamped(g)'
  <2>1. Stamped(g) /\ grants[g].pv \in 0..MaxPv
    BY DEF PInv, PolicyTypes, GrantV
  <2>2. CASE grants[g].status = "active" /\ grants[g].pv > 0
    <3>1. grants[g].pv \in Policy!Versions /\ grants[g].pv <= pv /\ art[grants[g].pv] # NoValue
      BY <1>0, <2>1, <2>2 DEF Stamped, Policy!Versions
    <3>2. art'[grants[g].pv] = art[grants[g].pv]
      BY <3>1 DEF Published
    <3> QED
      BY <1>0, <2>1, <2>2, <3>1, <3>2 DEF Stamped, Policy!Evaluate
  <2>3. CASE ~(grants[g].status = "active" /\ grants[g].pv > 0)
    BY <1>0, <2>1, <2>3 DEF Stamped
  <2> QED
    BY <2>2, <2>3
<1>2. ASSUME NEW p, NEW n, Reads(p, n) PROVE Reads(p, n)'
  BY <1>0, <1>2 DEF Reads, Published, Policy!Versions
<1>3. ASSUME NEW g \in Grants PROVE Created(g)'
  <2>1. Created(g)
    BY DEF PInv
  <2>2. creating[g].pc = "put" /\ creating[g].n # 0 =>
          Reads(creating[g].policy, creating[g].n)' /\ ~Policy!DeniedAll(creating[g].policy, g)
    BY <1>2, <2>1 DEF Created
  <2> QED
    BY <1>0, <2>1, <2>2 DEF Created, Policy!DeniedAll, Policy!Evaluate, Reads
<1>4. ASSUME NEW r \in Revokers PROVE Revoking(r)'
  BY DEF PInv, Revoking
<1>5. Cached'
  BY <1>0 DEF PInv, Cached
<1>6. Policy!IssueWithinPolicy'
  <2>1. Policy!IssueWithinPolicy
    BY DEF PInv
  <2>2. ASSUME NEW v \in Policy!Versions, v >= token.since, v <= pv, art[v] # NoValue,
               token.authority \subseteq Policy!Evaluate(art[v], token.id)
        PROVE  /\ v <= pv' /\ art'[v] # NoValue
               /\ token.authority \subseteq Policy!Evaluate(art'[v], token.id)
    <3>1. art'[v] = art[v] /\ v <= pv'
      BY <1>0, <2>2 DEF Published, Policy!Versions
    <3> QED
      BY <2>2, <3>1
  <2> QED
    BY <2>1, <2>2 DEF Policy!IssueWithinPolicy, Policy!Evaluate
<1> QED
  BY <1>1, <1>3, <1>4, <1>5, <1>6

\* Everything about the policy but the step of the worker.
LEMMA WorkerFrame ==
    ASSUME NEW w \in Passers, OneWorker,
           worker' = [worker EXCEPT ![w] = worker'[w]], worker \in [Passers -> WorkerV],
           worker'[w] \in WorkerV, Copied(w)', PassWorking(w)'
    PROVE  worker' \in [Passers -> WorkerV] /\ \A x \in Passers : Copied(x)' /\ PassWorking(x)'
<1>1. \A x \in Passers : x = w
  BY DEF OneWorker
<1> QED
  BY <1>1

\* A step of the worker that writes no Grant.
LEMMA WorkerReads ==
    ASSUME Policy!PolicyAssumption, OneWorker, PInv, NEW w \in Passers,
           \/ Policy!Invoke(w) \/ Policy!PublishRead(w) \/ Policy!PublishPut(w)
           \/ Policy!PublishBump(w, 1) \/ Policy!PublishBump(w, 2)
           \/ Policy!PublishHeal(w) \/ Policy!ReadVersion(w) \/ Policy!ReadArtifact(w)
           \/ Policy!Query(w) \/ Policy!Listed(w)
           \/ Policy!Crash(w) \/ \E g \in Grants : Policy!Get(w, g)
    PROVE  PInv'
<1> DEFINE k == worker[w]
<1>0. /\ k \in WorkerV /\ PassWorking(w) /\ Copied(w) /\ PolicyTypes /\ Unpublished
      /\ pv \in Nat /\ pv <= MaxPv /\ MaxPv \in Nat /\ MaxPv > 0
      /\ NoValue \notin Policies /\ Broken \notin Policies /\ NoValue # Broken
  BY Basics DEF PInv, PolicyTypes
<1>1. /\ UNCHANGED <<deployed, grants, listed, creating, revoker, cache, token>>
      /\ worker' = [worker EXCEPT ![w] = worker'[w]]
  BY <1>0 DEF Policy!Invoke, Policy!PublishRead, Policy!PublishPut, Policy!PublishBump,
              Policy!PublishHeal, Policy!ReadVersion, Policy!ReadArtifact,
              Policy!Query, Policy!Listed, Policy!Crash, Policy!Get, Policy!Step, Policy!policy,
              Policy!hot, PolicyTypes
\* What each step does to the policy, and what the worker then knows.
<1>2. /\ pv' \in 0..MaxPv /\ art' \in [Policy!Versions -> Policies \cup {NoValue}]
      /\ Published /\ Unpublished' /\ worker'[w] \in WorkerV /\ PassWorking(w)'
      /\ \/ worker'[w].seen = <<>>
         \/ /\ worker'[w].seen = k.seen
            /\ worker'[w].pc = "write" \/ k.pc \notin {"get", "write"}
         \/ \E g \in Grants : Policy!Get(w, g)
  <2>0. Policy!Idle \in WorkerV /\ Policy!PassOver(k) \in WorkerV /\ Policy!Idle.seen = <<>> /\ Policy!PassOver(k).seen = <<>>
        /\ Policy!Idle.pc = "idle" /\ Policy!PassOver(k).pc \in {"idle", "version"}
    BY NoCopies DEF Policy!Idle, WorkerV, Policy!PassOver
  <2>1. ASSUME UNCHANGED <<pv, art>> PROVE Published /\ Unpublished' /\ pv' \in 0..MaxPv
                                     /\ art' \in [Policy!Versions -> Policies \cup {NoValue}]
    BY <1>0, <2>1 DEF Published, Unpublished, PolicyTypes
  <2>2. CASE Policy!Invoke(w) \/ Policy!Crash(w)
    <3>1. worker'[w] \in {Policy!Idle, [Policy!Idle EXCEPT !.pc = "publish", !.text = deployed]}
          /\ UNCHANGED <<pv, art>>
      BY <1>0, <2>2 DEF Policy!Invoke, Policy!Crash, Policy!Step, Policy!policy, PolicyTypes
    <3>2. [Policy!Idle EXCEPT !.pc = "publish", !.text = deployed] \in WorkerV
      BY <1>0, <2>0 DEF WorkerV, PolicyTypes
    <3> QED
      BY <1>0, <2>0, <2>1, <3>1, <3>2 DEF PassWorking, Policy!Idle, PolicyTypes
  <2>3. CASE Policy!PublishRead(w)
    <3>1. k.pc = "publish" /\ k.text \in Policies \cup {Broken} /\ UNCHANGED <<pv, art>>
      BY <1>0, <2>3 DEF Policy!PublishRead, PassWorking, Policy!policy
    <3>2. \/ worker'[w] \in {[k EXCEPT !.pc = "version"], [k EXCEPT !.pc = "version", !.round = 2]}
          \/ /\ worker'[w] = [k EXCEPT !.pc = "put", !.n = pv + 1]
             /\ k.text \in Policies /\ pv + 1 \in Policy!Versions
      <4>1. CASE pv > 0 /\ art[pv] = k.text
        BY <1>0, <2>3, <4>1 DEF Policy!PublishRead, Policy!Step, PolicyTypes
      <4>2. CASE ~(pv > 0 /\ art[pv] = k.text) /\ k.text = Broken
        BY <1>0, <2>3, <4>2 DEF Policy!PublishRead, Policy!Step, PolicyTypes
      <4>3. CASE ~(pv > 0 /\ art[pv] = k.text) /\ k.text # Broken
        <5>1. pv # MaxPv
          BY <1>0, <2>3, <4>3 DEF Policy!PublishRead
        <5>2. worker'[w] = [k EXCEPT !.pc = "put", !.n = pv + 1]
          BY <1>0, <2>3, <4>3 DEF Policy!PublishRead, Policy!Step, PolicyTypes
        <5> QED
          BY <1>0, <3>1, <4>3, <5>1, <5>2 DEF Policy!Versions
      <4> QED
        BY <4>1, <4>2, <4>3
    <3>3. pv + 1 \in Nat
      BY <1>0
    <3> QED
      BY <1>0, <2>1, <3>1, <3>2, <3>3 DEF PassWorking, WorkerV
  <2>4. CASE Policy!PublishPut(w)
    <3>1. /\ k.pc = "put" /\ k.n = pv + 1 /\ k.n \in Policy!Versions /\ k.text \in Policies /\ pv' = pv
          /\ art' = [art EXCEPT ![k.n] = k.text] /\ worker'[w] = [k EXCEPT !.pc = "bump"]
      BY <1>0, <2>4 DEF Policy!PublishPut, PassWorking, Policy!Step, PolicyTypes
    <3>2. Published /\ Unpublished'
      BY <1>0, <3>1 DEF Published, Unpublished, Policy!Versions, PolicyTypes
    <3> QED
      BY <1>0, <3>1, <3>2 DEF PassWorking, WorkerV, PolicyTypes
  <2>5. ASSUME NEW times \in {1, 2}, Policy!PublishBump(w, times)
        PROVE  /\ art' = art /\ pv' = pv + times /\ pv' <= MaxPv /\ k.n = pv + 1
               /\ k.text \in Policies /\ k.pc = "bump"
               /\ worker'[w] = IF times = 1 THEN [k EXCEPT !.pc = "version"]
                               ELSE [k EXCEPT !.pc = "heal", !.n = pv + 2]
    <3>1. k.pc = "bump" /\ k.n = pv + 1 /\ k.text \in Policies
      BY <1>0, <2>5 DEF Policy!PublishBump, PassWorking
    <3>2. /\ pv' = pv + times /\ art' = art /\ pv + times <= MaxPv
          /\ worker'[w] = IF pv + times = k.n THEN [k EXCEPT !.pc = "version"]
                          ELSE [k EXCEPT !.pc = "heal", !.n = pv + times]
      BY <1>0, <2>5 DEF Policy!PublishBump, Policy!Step, PolicyTypes
    <3>3. CASE times = 1
      BY <1>0, <3>1, <3>2, <3>3
    <3>4. CASE times = 2
      <4>1. pv + 2 # k.n
        BY <1>0, <3>1
      <4> QED
        BY <1>0, <3>1, <3>2, <3>4, <4>1
    <3> QED
      BY <3>3, <3>4
  <2>6. CASE Policy!PublishBump(w, 1)
    <3>1. Published /\ Unpublished' /\ pv' \in 0..MaxPv
      BY <1>0, <2>5, <2>6 DEF Published, Unpublished, Policy!Versions
    <3> QED
      BY <1>0, <2>5, <2>6, <3>1 DEF PassWorking, WorkerV, PolicyTypes
  <2>7. CASE Policy!PublishBump(w, 2)
    <3>1. Published /\ Unpublished' /\ pv' \in 0..MaxPv
      BY <1>0, <2>5, <2>7 DEF Published, Unpublished, Policy!Versions
    <3>2. pv + 2 \in Policy!Versions /\ art'[pv + 2] = NoValue
      BY <1>0, <2>5, <2>7 DEF Unpublished, Policy!Versions
    <3>3. worker'[w] = [k EXCEPT !.pc = "heal", !.n = pv'] /\ pv' = pv + 2 /\ pv' \in Nat
      BY <1>0, <2>5, <2>7
    <3> QED
      BY <1>0, <2>5, <2>7, <3>1, <3>2, <3>3 DEF PassWorking, WorkerV, PolicyTypes
  <2>8. CASE Policy!PublishHeal(w)
    <3>1. /\ k.pc = "heal" /\ k.n = pv /\ pv \in Policy!Versions /\ art[pv] = NoValue /\ k.text \in Policies
          /\ art' = [art EXCEPT ![k.n] = k.text] /\ worker'[w] = [k EXCEPT !.pc = "version"]
          /\ pv' = pv
      BY <1>0, <2>8 DEF Policy!PublishHeal, PassWorking, Policy!Step, PolicyTypes
    <3>2. Published /\ Unpublished'
      BY <1>0, <3>1 DEF Published, Unpublished, Policy!Versions, PolicyTypes
    <3> QED
      BY <1>0, <3>1, <3>2 DEF PassWorking, WorkerV, PolicyTypes
  <2>9. CASE Policy!ReadVersion(w)
    <3>1. UNCHANGED <<pv, art>> /\ k.pc = "version"
          /\ worker'[w] = IF pv = 0 THEN Policy!PassOver(k) ELSE [k EXCEPT !.pc = "artifact", !.n = pv]
      BY <1>0, <2>9 DEF Policy!ReadVersion, Policy!Step, Policy!policy, PolicyTypes
    <3>2. CASE pv = 0
      BY <1>0, <2>0, <2>1, <3>1, <3>2 DEF PassWorking
    <3>3. CASE pv > 0
      <4>1. worker'[w] = [k EXCEPT !.pc = "artifact", !.n = pv] /\ pv \in 1..pv'
        BY <1>0, <3>1, <3>3
      <4> QED
        BY <1>0, <2>1, <3>1, <4>1 DEF PassWorking, WorkerV
    <3> QED
      BY <1>0, <3>2, <3>3
  <2>10. CASE Policy!ReadArtifact(w)
    <3>1. /\ UNCHANGED <<pv, art>> /\ k.pc = "artifact" /\ k.n \in 1..pv
          /\ worker'[w] = IF art[k.n] = NoValue THEN Policy!PassOver(k)
                          ELSE [k EXCEPT !.pc = "query", !.policy = art[k.n]]
      BY <1>0, <2>10 DEF Policy!ReadArtifact, Policy!Step, Policy!policy, PolicyTypes, PassWorking
    <3>2. art[k.n] \in Policies \cup {NoValue}
      BY <1>0, <3>1 DEF PolicyTypes, Policy!Versions
    <3>3. CASE art[k.n] = NoValue
      BY <1>0, <2>0, <2>1, <3>1, <3>3 DEF PassWorking
    <3>4. CASE art[k.n] # NoValue
      <4>1. worker'[w] = [k EXCEPT !.pc = "query", !.policy = art[k.n]] /\ art[k.n] \in Policies
        BY <3>1, <3>2, <3>4
      <4> QED
        BY <1>0, <2>1, <3>1, <4>1 DEF PassWorking, WorkerV, Reads
    <3> QED
      BY <3>3, <3>4
  <2>11. CASE Policy!Query(w)
    <3>1. /\ UNCHANGED <<pv, art>> /\ Reads(k.policy, k.n) /\ DOMAIN listed \subseteq Grants
          /\ k.pc = "query"
          /\ worker'[w] = [k EXCEPT !.pc = "get", !.todo = {g \in DOMAIN listed : listed[g] < k.n}]
      BY <1>0, <2>11 DEF Policy!Query, Policy!Step, Policy!policy, PolicyTypes, PassWorking
    <3>2. {g \in DOMAIN listed : listed[g] < k.n} \in SUBSET Grants
      BY <3>1
    <3> QED
      BY <1>0, <2>1, <3>1, <3>2 DEF PassWorking, WorkerV, Reads
  <2>12. CASE Policy!Listed(w)
    <3>1. /\ UNCHANGED <<pv, art>> /\ Reads(k.policy, k.n)
          /\ worker'[w] = IF DOMAIN k.seen = {} THEN Policy!PassOver(k) ELSE [k EXCEPT !.pc = "write"]
      BY <1>0, <2>12 DEF Policy!Listed, Policy!Step, Policy!policy, PolicyTypes, PassWorking
    <3> QED
      BY <1>0, <2>0, <2>1, <3>1 DEF PassWorking, WorkerV, Reads
  <2>13. ASSUME NEW g \in Grants, Policy!Get(w, g)
         PROVE  /\ UNCHANGED <<pv, art>> /\ worker'[w] \in WorkerV /\ PassWorking(w)'
    <3> DEFINE keep == IF grants[g].status = "active" THEN {g} ELSE {}
               seen2 == [x \in DOMAIN k.seen \cup keep |-> IF x = g THEN grants[g] ELSE k.seen[x]]
    <3>1. /\ UNCHANGED <<pv, art>> /\ Reads(k.policy, k.n) /\ k.pc = "get"
          /\ worker'[w] = [k EXCEPT !.todo = @ \ {g}, !.seen = seen2]
      BY <1>0, <2>13 DEF Policy!Get, Policy!Step, Policy!policy, PolicyTypes, PassWorking
    <3>2. seen2 \in Copies
      <4>1. k.seen \in Copies /\ grants[g] \in GrantV
        BY <1>0 DEF WorkerV, PolicyTypes
      <4>2. DOMAIN k.seen \cup keep \in SUBSET Grants
        BY <4>1, CopyFacts
      <4>3. seen2 \in [DOMAIN k.seen \cup keep -> GrantV]
        BY <4>1, <4>2, CopyFacts
      <4> QED
        BY <4>2, <4>3 DEF Copies
    <3> HIDE DEF seen2
    <3> QED
      BY <1>0, <3>1, <3>2 DEF PassWorking, WorkerV, Reads
  <2> QED
    BY <2>1, <2>2, <2>3, <2>4, <2>6, <2>7, <2>8, <2>9, <2>10, <2>11, <2>12, <2>13
<1>3. Copied(w)'
  <2>1. CASE worker'[w].seen = <<>>
    BY <2>1, NoCopies DEF Copied
  <2>3. CASE worker'[w].seen = k.seen /\ (worker'[w].pc = "write" \/ k.pc \notin {"get", "write"})
    BY <1>0, <1>1, <2>3 DEF Copied
  <2>2. ASSUME NEW g \in Grants, Policy!Get(w, g) PROVE Copied(w)'
    <3>0. k.pc = "get" /\ worker'[w].pc = "get" /\ worker'[w].todo = k.todo \ {g} /\ g \in k.todo
      BY <1>0, <2>2 DEF Policy!Get, Policy!Step, PolicyTypes, WorkerV
    <3>1. /\ worker'[w].seen = [x \in DOMAIN k.seen \cup
                                      (IF grants[g].status = "active" THEN {g} ELSE {})
                                  |-> IF x = g THEN grants[g] ELSE k.seen[x]]
      BY <1>0, <2>2 DEF Policy!Get, Policy!Step, PolicyTypes, WorkerV
    <3>2. Stamped(g)
      BY DEF PInv
    <3>3. ASSUME NEW x \in DOMAIN worker'[w].seen
          PROVE  /\ worker'[w].seen[x].status = "active" /\ grants[x].status # "none"
                 /\ Consent[x] = {} => worker'[w].seen[x].eff = {}
      <4>1. CASE x = g
        <5>1. grants[g].status = "active"
          BY <1>0, <3>0, <3>1, <3>3, <4>1 DEF Copied
        <5>2. worker'[w].seen[x] = grants[g]
          BY <3>1, <3>3, <4>1
        <5> QED
          BY <3>2, <4>1, <5>1, <5>2 DEF Stamped
      <4>2. CASE x # g
        BY <1>0, <3>1, <3>3, <4>2 DEF Copied
      <4> QED
        BY <4>1, <4>2
    <3>4. worker'[w].todo \cap DOMAIN worker'[w].seen = {}
      BY <1>0, <3>0, <3>1 DEF Copied
    <3> QED
      BY <1>1, <3>0, <3>3, <3>4 DEF Copied
  <2> QED
    BY <1>2, <2>1, <2>2, <2>3
<1>4. worker' \in [Passers -> WorkerV] /\ \A x \in Passers : Copied(x)' /\ PassWorking(x)'
  BY <1>0, <1>1, <1>2, <1>3, WorkerFrame DEF PolicyTypes
<1>5. PolicyTypes'
  BY <1>0, <1>1, <1>2, <1>4 DEF PolicyTypes
<1> QED
  BY <1>1, <1>2, <1>4, <1>5, PublicationFrame DEF PInv

-----------------------------------------------------------------------------
\* A Grant that is written while the policy stands still.
LEMMA GrantWritten ==
    ASSUME Policy!PolicyAssumption, PInv, NEW g \in Grants, NEW r \in GrantV,
           grants' = [grants EXCEPT ![g] = r], r.status # "none", UNCHANGED <<Policy!policy, Policy!hot, listed>>,
           Stamped(g)',
           creating' \in [Grants -> CreatorV], creating'[g].pc \notin {"artifact", "put"},
           \A x \in Grants \ {g} : creating'[x] = creating[x]
    PROVE  /\ grants' \in [Grants -> GrantV] /\ Unpublished' /\ Cached' /\ Policy!IssueWithinPolicy'
           /\ \A x \in Grants : Stamped(x)' /\ Created(x)'
           /\ \A x \in Grants : grants[x].status # "none" => grants'[x].status # "none"
           /\ \A w \in Passers : worker'[w] = worker[w] => Copied(w)' /\ PassWorking(w)'
           /\ \A v \in Revokers : revoker'[v] = revoker[v] => Revoking(v)'
<1>0. grants \in [Grants -> GrantV] /\ UNCHANGED <<pv, art, cache, token>> /\ PolicyTypes
  BY DEF PInv, PolicyTypes, Policy!policy, Policy!hot
<1>1. /\ grants' \in [Grants -> GrantV] /\ grants'[g] = r
      /\ \A x \in Grants \ {g} : grants'[x] = grants[x]
  BY <1>0
<1>2. \A x \in Grants : grants[x].status # "none" => grants'[x].status # "none"
  BY <1>1
<1>3. Unpublished' /\ Cached' /\ Policy!IssueWithinPolicy'
  BY <1>0 DEF PInv, Unpublished, Cached, Policy!IssueWithinPolicy, Policy!Evaluate
<1>4. ASSUME NEW x \in Grants PROVE Stamped(x)' /\ Created(x)'
  <2>1. CASE x = g
    BY <2>1 DEF Created
  <2>2. CASE x # g
    BY <1>0, <1>1, <2>2 DEF PInv, Stamped, Created, Policy!Evaluate, Reads, Policy!DeniedAll
  <2> QED
    BY <2>1, <2>2
<1>5. ASSUME NEW w \in Passers, worker'[w] = worker[w] PROVE Copied(w)' /\ PassWorking(w)'
  <2>1. DOMAIN worker[w].seen \subseteq Grants
    BY <1>0, CopyFacts DEF PolicyTypes, WorkerV
  <2> QED
    BY <1>0, <1>2, <1>5, <2>1 DEF PInv, Copied, PassWorking, Reads
<1>6. ASSUME NEW v \in Revokers, revoker'[v] = revoker[v] PROVE Revoking(v)'
  BY <1>2, <1>6 DEF PInv, Revoking
<1> QED
  BY <1>1, <1>2, <1>3, <1>4, <1>5, <1>6

LEMMA RevisionFacts ==
    ASSUME Policy!PolicyAssumption, NEW n \in 0..MaxGrantRev
    PROVE  Policy!NextRev(n) \in 0..MaxGrantRev /\ (n < MaxGrantRev => n + 1 \in 0..MaxGrantRev)
BY Basics DEF Policy!NextRev

\* The pass writes what it computed, or is refused.
LEMMA WriteStep ==
    ASSUME Policy!PolicyAssumption, OneWorker, PInv, NEW w \in Passers, NEW g \in Grants, Policy!Write(w, g)
    PROVE  PInv'
<1> DEFINE k == worker[w]
           left == [x \in DOMAIN k.seen \ {g} |-> k.seen[x]]
<1>0. /\ k \in WorkerV /\ PassWorking(w) /\ Copied(w) /\ PolicyTypes /\ k.seen \in Copies
      /\ DOMAIN k.seen \subseteq Grants /\ \A x \in DOMAIN k.seen : k.seen[x] \in GrantV
  BY CopyFacts DEF PInv, PolicyTypes, WorkerV
<1>1. /\ k.pc = "write" /\ g \in DOMAIN k.seen /\ Reads(k.policy, k.n)
      /\ UNCHANGED <<Policy!policy, listed, creating, revoker, Policy!hot>>
      /\ worker' = [worker EXCEPT ![w] = IF DOMAIN k.seen \ {g} = {} THEN Policy!PassOver(k)
                                         ELSE [k EXCEPT !.seen = left]]
  BY <1>0 DEF Policy!Write, PassWorking, Policy!Step
<1>2. Policy!Idle \in WorkerV /\ Policy!PassOver(k) \in WorkerV /\ Policy!PassOver(k).seen = <<>>
      /\ Policy!PassOver(k).pc \in {"idle", "version"}
  BY NoCopies DEF Policy!Idle, WorkerV, Policy!PassOver
<1>3. left \in Copies /\ DOMAIN left = DOMAIN k.seen \ {g}
      /\ \A x \in DOMAIN left : left[x] = k.seen[x]
  <2>1. left \in [DOMAIN k.seen \ {g} -> GrantV]
    BY <1>0
  <2> QED
    BY <1>0, <2>1 DEF Copies
<1> HIDE DEF left
<1>4. worker'[w] \in WorkerV
      /\ (worker'[w] = Policy!PassOver(k) \/ worker'[w] = [k EXCEPT !.seen = left])
  <2>1. [k EXCEPT !.seen = left] \in WorkerV
    BY <1>0, <1>3 DEF WorkerV
  <2> QED
    BY <1>0, <1>1, <1>2, <2>1 DEF PolicyTypes
<1>5. ASSUME \A x \in Grants : grants[x].status # "none" => grants'[x].status # "none"
      PROVE  Copied(w)' /\ PassWorking(w)'
  <2>1. CASE worker'[w] = Policy!PassOver(k)
    BY <1>2, <2>1, NoCopies DEF Copied, PassWorking
  <2>2. CASE worker'[w] = [k EXCEPT !.seen = left]
    <3>1. worker'[w].pc = "write" /\ worker'[w].seen = left /\ worker'[w].n = k.n
          /\ worker'[w].policy = k.policy /\ UNCHANGED <<pv, art>>
      BY <1>0, <1>1, <2>2 DEF WorkerV, Policy!policy
    <3> QED
      BY <1>0, <1>1, <1>3, <1>5, <3>1 DEF Copied, PassWorking, Reads
  <2> QED
    BY <1>4, <2>1, <2>2
<1>6. CASE ~Policy!WriteCommits(k, g)
  <2>1. UNCHANGED grants
    BY <1>6 DEF Policy!Write
  <2>2. worker' \in [Passers -> WorkerV] /\ \A x \in Passers : Copied(x)' /\ PassWorking(x)'
    BY <1>0, <1>1, <1>4, <1>5, <2>1, WorkerFrame DEF PolicyTypes
  <2>3. PolicyTypes' /\ Published /\ Unpublished'
    BY <1>0, <1>1, <2>1, <2>2, Basics
       DEF PInv, PolicyTypes, Published, Unpublished, Policy!policy, Policy!Versions
  <2> QED
    BY <1>1, <2>1, <2>2, <2>3, PublicationFrame DEF PInv, Policy!policy, Policy!hot
<1>7. CASE Policy!WriteCommits(k, g)
  <2> DEFINE r == Policy!Recomputed(k, g)
  <2>1. grants' = [grants EXCEPT ![g] = r] /\ UNCHANGED <<pv, art>>
    BY <1>1, <1>7 DEF Policy!Write, Policy!Put, Policy!policy
  <2>2. /\ grants[g] \in GrantV /\ k.seen[g] \in GrantV /\ k.seen[g].status = "active"
        /\ grants[g].status # "none" /\ Created(g)
        /\ Consent[g] = {} => k.seen[g].eff = {}
    BY <1>0, <1>1 DEF PInv, PolicyTypes, Copied
  <2>3. k.n \in 1..pv /\ pv \in 0..MaxPv /\ k.policy = art[k.n] /\ k.policy # NoValue /\ k.n \in Policy!Versions
    BY <1>0, <1>1, Basics DEF Reads, PolicyTypes, Policy!Versions
  <2>4. r \in GrantV /\ r.status # "none" /\ Stamped(g)'
    <3>1. CASE Policy!DeniedAll(k.policy, g)
      <4>1. r = [grants[g] EXCEPT !.status = "revoked", !.rev = Policy!NextRev(@)]
        BY <3>1 DEF Policy!Recomputed
      <4>2. Policy!NextRev(grants[g].rev) \in 0..MaxGrantRev
        BY <2>2, RevisionFacts DEF GrantV
      <4>3. r \in GrantV /\ r.status = "revoked"
        BY <2>2, <4>1, <4>2 DEF GrantV
      <4> QED
        BY <1>0, <2>1, <4>3 DEF Stamped, PolicyTypes
    <3>2. CASE ~Policy!DeniedAll(k.policy, g)
      <4> DEFINE e == IF Consent[g] = {} THEN k.seen[g].eff ELSE Policy!Evaluate(k.policy, g)
                 n == Policy!NextRev(k.seen[g].rev)
      <4>1. r = [k.seen[g] EXCEPT !.eff = e, !.pv = k.n, !.rev = n]
        BY <3>2 DEF Policy!Recomputed
      <4>2. n \in 0..MaxGrantRev /\ e \in SUBSET Scopes /\ k.n \in 0..MaxPv
        BY <2>2, <2>3, RevisionFacts, EvaluateFacts, Basics DEF GrantV
      <4>3. e = Policy!Evaluate(k.policy, g) /\ (Consent[g] = {} => e = {})
            /\ (Consent[g] # {} => e # {})
        BY <2>2, <3>2, EvaluateFacts
      <4> HIDE DEF e, n
      <4>4. r \in GrantV /\ r.status = "active" /\ r.pv = k.n /\ r.eff = e
        BY <2>2, <4>1, <4>2 DEF GrantV
      <4>5. grants'[g] = r
        BY <1>0, <2>1 DEF PolicyTypes
      <4>6. k.n <= pv
        BY <2>3
      <4>7. Policy!Evaluate(art'[k.n], g) = Policy!Evaluate(k.policy, g)
        BY <2>1, <2>3
      <4> HIDE DEF r, k
      <4>8. art'[grants'[g].pv] = art[k.n] /\ grants'[g].eff = e /\ grants'[g].pv = k.n
        BY <2>1, <4>4, <4>5
      <4>9. e = Policy!Evaluate(art'[k.n], g)
        BY <4>3, <4>7
      <4>10. Stamped(g)'
        BY <2>1, <2>3, <4>3, <4>6, <4>8, <4>9 DEF Stamped, Policy!Evaluate
      <4> QED
        BY <4>4, <4>10
    <3> QED
      BY <3>1, <3>2
  <2> HIDE DEF r
  <2>5. creating' \in [Grants -> CreatorV] /\ creating'[g].pc \notin {"artifact", "put"}
        /\ \A x \in Grants \ {g} : creating'[x] = creating[x]
    BY <1>0, <1>1, <2>2 DEF PolicyTypes, Created
  <2>6. /\ grants' \in [Grants -> GrantV] /\ Unpublished' /\ Cached' /\ Policy!IssueWithinPolicy'
        /\ \A x \in Grants : Stamped(x)' /\ Created(x)'
        /\ \A x \in Grants : grants[x].status # "none" => grants'[x].status # "none"
        /\ \A v \in Revokers : Revoking(v)'
    BY <1>1, <2>1, <2>4, <2>5, GrantWritten
  <2>7. worker' \in [Passers -> WorkerV] /\ \A x \in Passers : Copied(x)' /\ PassWorking(x)'
    BY <1>0, <1>1, <1>4, <1>5, <2>6, WorkerFrame DEF PolicyTypes
  <2>8. PolicyTypes'
    BY <1>0, <1>1, <2>6, <2>7 DEF PolicyTypes, Policy!policy
  <2> QED
    BY <2>6, <2>7, <2>8 DEF PInv
<1> QED
  BY <1>6, <1>7

LEMMA CreationStep ==
    ASSUME Policy!PolicyAssumption, PInv, NEW g \in Grants,
           Policy!CreateVersion(g) \/ Policy!CreateArtifact(g) \/ Policy!CreatePut(g)
    PROVE  PInv'
<1> DEFINE c == creating[g]
<1>0. /\ PolicyTypes /\ c \in CreatorV /\ Created(g) /\ pv \in 0..MaxPv /\ NoValue \notin Policies
      /\ MaxPv \in Nat /\ MaxGrantRev \in Nat
  BY Basics DEF PInv, PolicyTypes
<1>1. UNCHANGED <<Policy!policy, listed, worker, revoker, Policy!hot>>
  BY DEF Policy!CreateVersion, Policy!CreateArtifact, Policy!CreatePut
<1>2. CASE Policy!CreateVersion(g) \/ Policy!CreateArtifact(g)
  <2>1. UNCHANGED grants /\ \E z \in CreatorV : creating' = [creating EXCEPT ![g] = z]
    <3>1. CASE Policy!CreateVersion(g)
      <4>1. [pc |-> IF pv = 0 THEN "put" ELSE "artifact", n |-> pv, policy |-> NoValue] \in CreatorV
        BY <1>0 DEF CreatorV
      <4> QED
        BY <3>1, <4>1 DEF Policy!CreateVersion
    <3>2. CASE Policy!CreateArtifact(g)
      <4>1. c.pc = "artifact" /\ art[c.n] \in Policies \cup {NoValue}
        BY <1>0, <3>2 DEF Policy!CreateArtifact, Created, PolicyTypes, Policy!Versions
      <4>2. [c EXCEPT !.pc = "done"] \in CreatorV
        BY <1>0 DEF CreatorV
      <4>3. [c EXCEPT !.pc = "put", !.policy = art[c.n]] \in CreatorV
        BY <1>0, <4>1 DEF CreatorV
      <4> QED
        BY <3>2, <4>2, <4>3 DEF Policy!CreateArtifact
    <3> QED
      BY <1>2, <3>1, <3>2
  <2>2. creating' \in [Grants -> CreatorV] /\ \A x \in Grants \ {g} : creating'[x] = creating[x]
    BY <1>0, <2>1 DEF PolicyTypes
  <2>3. Created(g)'
    <3>1. CASE Policy!CreateVersion(g)
      <4>1. /\ creating'[g] = [pc |-> IF pv = 0 THEN "put" ELSE "artifact", n |-> pv,
                               policy |-> NoValue]
            /\ grants'[g].status = "none" /\ pv' = pv
        BY <1>0, <1>1, <3>1 DEF Policy!CreateVersion, PolicyTypes, Policy!Absent, Policy!policy
      <4> QED
        BY <1>0, <4>1 DEF Created
    <3>2. CASE Policy!CreateArtifact(g)
      <4>1. /\ c.pc = "artifact" /\ c.n \in 1..pv /\ grants[g].status = "none"
            /\ art[c.n] \in Policies \cup {NoValue} /\ UNCHANGED <<grants, pv, art>>
        BY <1>0, <1>1, <3>2 DEF Policy!CreateArtifact, Created, PolicyTypes, Policy!Versions,
                                Policy!policy
      <4>2. CASE creating'[g] = [c EXCEPT !.pc = "done"]
        BY <1>0, <4>2 DEF Created, CreatorV
      <4>3. CASE /\ creating'[g] = [c EXCEPT !.pc = "put", !.policy = art[c.n]]
                 /\ art[c.n] # NoValue /\ ~Policy!DeniedAll(art[c.n], g)
        <5>1. creating'[g].n = c.n /\ creating'[g].policy = art[c.n] /\ creating'[g].pc = "put"
          BY <1>0, <4>3 DEF CreatorV
        <5> QED
          BY <4>1, <4>3, <5>1 DEF Created, Reads, Policy!DeniedAll, Policy!Evaluate
      <4> QED
        BY <1>0, <3>2, <4>2, <4>3 DEF Policy!CreateArtifact, PolicyTypes
    <3> QED
      BY <1>2, <3>1, <3>2
  <2>4. ASSUME NEW x \in Grants PROVE Stamped(x)' /\ Created(x)'
    <3>1. UNCHANGED <<pv, art, grants>>
      BY <1>1, <2>1 DEF Policy!policy
    <3>2. x # g => creating'[x] = creating[x]
      BY <2>2
    <3> QED
      BY <2>3, <3>1, <3>2 DEF PInv, Stamped, Created, Policy!Evaluate, Policy!DeniedAll, Reads
  <2> QED
    BY <1>0, <1>1, <2>1, <2>2, <2>4
       DEF PInv, PolicyTypes, Unpublished, Cached, Policy!IssueWithinPolicy, Copied,
       PassWorking, Revoking,
           Reads, Policy!Evaluate, Policy!policy, Policy!hot
<1>3. CASE Policy!CreatePut(g)
  <2> DEFINE e == IF c.n = 0 THEN {} ELSE Policy!Evaluate(c.policy, g)
             r == [status |-> "active", rev |-> 0, pv |-> c.n, eff |-> e]
  <2>1. /\ c.pc = "put" /\ grants' = [grants EXCEPT ![g] = r]
        /\ creating' = [creating EXCEPT ![g].pc = "done"]
    BY <1>3 DEF Policy!CreatePut, Policy!Put
  <2>2. e \in SUBSET Scopes /\ (Consent[g] = {} => e = {})
    BY EvaluateFacts
  <2>3. c.n # 0 => /\ c.n \in 1..pv /\ c.policy = art[c.n] /\ c.policy # NoValue
                   /\ (Consent[g] # {} => e # {}) /\ e = Policy!Evaluate(art[c.n], g)
    BY <1>0, <2>1, EvaluateFacts DEF Created, Reads
  <2>4. c.n \in 0..MaxPv
    BY <1>0 DEF CreatorV
  <2> HIDE DEF e
  <2>5. r \in GrantV /\ r.status = "active" /\ r.pv = c.n /\ r.eff = e
    BY <1>0, <2>2, <2>4 DEF GrantV
  <2>6. grants'[g] = r /\ UNCHANGED <<pv, art>>
    BY <1>0, <1>1, <2>1 DEF PolicyTypes, Policy!policy
  <2> HIDE DEF r
  <2>7. Stamped(g)'
    <3>1. grants'[g].pv = c.n /\ grants'[g].eff = e /\ c.n <= pv
      BY <1>0, <2>3, <2>4, <2>5, <2>6
    <3>2. CASE c.n = 0
      BY <1>0, <2>2, <2>6, <3>1, <3>2 DEF Stamped
    <3>3. CASE c.n # 0
      <4>1. art'[grants'[g].pv] = art[c.n] /\ art[c.n] # NoValue /\ e = Policy!Evaluate(art'[c.n], g)
        BY <2>3, <2>6, <3>1, <3>3
      <4> QED
        BY <2>2, <2>3, <2>6, <3>1, <3>3, <4>1 DEF Stamped, Policy!Evaluate
    <3> QED
      BY <3>2, <3>3
  <2>8. /\ creating' \in [Grants -> CreatorV] /\ creating'[g].pc = "done"
        /\ \A x \in Grants \ {g} : creating'[x] = creating[x]
    BY <1>0, <2>1 DEF PolicyTypes, CreatorV
  <2>9. /\ grants' \in [Grants -> GrantV] /\ Unpublished' /\ Cached' /\ Policy!IssueWithinPolicy'
        /\ \A x \in Grants : Stamped(x)' /\ Created(x)'
        /\ \A w \in Passers : worker'[w] = worker[w] => Copied(w)' /\ PassWorking(w)'
        /\ \A v \in Revokers : revoker'[v] = revoker[v] => Revoking(v)'
    BY <1>1, <2>1, <2>5, <2>7, <2>8, GrantWritten
  <2> QED
    BY <1>0, <1>1, <2>8, <2>9 DEF PInv, PolicyTypes, Policy!policy
<1> QED
  BY <1>2, <1>3

\* A Grant that is revoked carries nothing any more.
LEMMA RevokedWritten ==
    ASSUME Policy!PolicyAssumption, PInv, NEW g \in Grants, NEW r \in GrantV, r.status = "revoked",
           grants[g].status # "none",
           grants' = [grants EXCEPT ![g] = r], UNCHANGED <<Policy!policy, listed, creating, worker, Policy!hot>>,
           revoker' \in [Revokers -> RevokerV],
           \A v \in Revokers : revoker'[v] = revoker[v] \/ revoker'[v].pc = "idle"
    PROVE  PInv'
<1>0. PolicyTypes /\ Created(g)
  BY DEF PInv
<1>1. Stamped(g)'
  BY <1>0 DEF PolicyTypes, Stamped
<1>2. /\ creating' \in [Grants -> CreatorV] /\ creating'[g].pc \notin {"artifact", "put"}
      /\ \A x \in Grants \ {g} : creating'[x] = creating[x]
  BY <1>0 DEF PolicyTypes, Created
<1>3. /\ grants' \in [Grants -> GrantV] /\ Unpublished' /\ Cached' /\ Policy!IssueWithinPolicy'
      /\ \A x \in Grants : Stamped(x)' /\ Created(x)'
      /\ \A w \in Passers : worker'[w] = worker[w] => Copied(w)' /\ PassWorking(w)'
      /\ \A v \in Revokers : revoker'[v] = revoker[v] => Revoking(v)'
  BY <1>1, <1>2, GrantWritten
<1>4. \A v \in Revokers : Revoking(v)'
  BY <1>3 DEF Revoking
<1> QED
  BY <1>0, <1>2, <1>3, <1>4 DEF PInv, PolicyTypes, Policy!policy

LEMMA RevocationStep ==
    ASSUME Policy!PolicyAssumption, PInv, NEW g \in Grants,
           Policy!RevokeBeforeEpoch(g) \/ \E v \in Revokers : Policy!RevokeRead(v, g) \/ Policy!RevokePut(v)
    PROVE  PInv'
<1>0. PolicyTypes /\ grants[g] \in GrantV /\ MaxGrantRev \in Nat
  BY Basics DEF PInv, PolicyTypes
<1>1. CASE Policy!RevokeBeforeEpoch(g)
  <2>1. PICK n \in 0..MaxGrantRev : n = grants[g].rev + 1
    BY <1>0, <1>1, RevisionFacts DEF Policy!RevokeBeforeEpoch, GrantV
  <2>2. [grants[g] EXCEPT !.status = "revoked", !.rev = n] \in GrantV
    BY <1>0 DEF GrantV
  <2>3. /\ grants' = [grants EXCEPT ![g] = [grants[g] EXCEPT !.status = "revoked", !.rev = n]]
        /\ grants[g].status # "none" /\ UNCHANGED <<Policy!policy, listed, creating, worker, revoker, Policy!hot>>
    BY <1>1, <2>1 DEF Policy!RevokeBeforeEpoch, Policy!Put
  <2>4. [grants[g] EXCEPT !.status = "revoked", !.rev = n].status = "revoked"
    BY <1>0 DEF GrantV
  <2>5. revoker' \in [Revokers -> RevokerV] /\ revoker' = revoker
    BY <1>0, <2>3 DEF PolicyTypes
  <2> QED
    BY <2>2, <2>3, <2>4, <2>5, RevokedWritten
<1>2. ASSUME NEW v \in Revokers, Policy!RevokePut(v) PROVE PInv'
  <2> DEFINE q == revoker[v]
  <2>0. q \in RevokerV /\ q.grant \in GrantV /\ q.id \in Grants /\ grants[q.id].status # "none"
        /\ q.grant.rev < MaxGrantRev
    BY <1>0, <1>2 DEF PInv, PolicyTypes, Policy!RevokePut, Revoking, RevokerV
  <2>1. PICK n \in 0..MaxGrantRev : n = q.grant.rev + 1
    BY <2>0, RevisionFacts DEF GrantV
  <2>2. /\ [q.grant EXCEPT !.status = "revoked", !.rev = n] \in GrantV
        /\ [q.grant EXCEPT !.status = "revoked", !.rev = n].status = "revoked"
    BY <2>0 DEF GrantV
  <2>3. /\ grants' = [grants EXCEPT ![q.id] = [q.grant EXCEPT !.status = "revoked", !.rev = n]]
        /\ revoker' = [revoker EXCEPT ![v] = [pc |-> "idle", id |-> NoValue, grant |-> Policy!Absent]]
        /\ UNCHANGED <<Policy!policy, listed, creating, worker, Policy!hot>>
    BY <1>2, <2>1 DEF Policy!RevokePut, Policy!Put
  <2>4. [pc |-> "idle", id |-> NoValue, grant |-> Policy!Absent] \in RevokerV
    BY <1>0, Basics DEF RevokerV, Policy!Absent, GrantV
  <2>5. revoker' \in [Revokers -> RevokerV]
        /\ \A x \in Revokers : revoker'[x] = revoker[x] \/ revoker'[x].pc = "idle"
    <3>1. PICK f \in RevokerV : f.pc = "idle" /\ revoker' = [revoker EXCEPT ![v] = f]
      BY <2>3, <2>4
    <3>2. revoker \in [Revokers -> RevokerV]
      BY <1>0 DEF PolicyTypes
    <3> QED
      BY <3>1, <3>2
  <2>6. PICK r \in GrantV : r = [q.grant EXCEPT !.status = "revoked", !.rev = n]
    BY <2>2
  <2>7. r.status = "revoked" /\ grants' = [grants EXCEPT ![q.id] = r]
    BY <2>2, <2>3, <2>6
  <2>8. UNCHANGED <<Policy!policy, listed, creating, worker, Policy!hot>>
    BY <2>3
  <2> HIDE DEF q
  <2> QED
    BY <2>0, <2>5, <2>7, <2>8, RevokedWritten
<1>3. ASSUME NEW v \in Revokers, Policy!RevokeRead(v, g) PROVE PInv'
  <2>1. /\ grants[g].status # "none" /\ grants[g].rev < MaxGrantRev
        /\ revoker' = [revoker EXCEPT ![v] = [pc |-> "put", id |-> g, grant |-> grants[g]]]
        /\ UNCHANGED <<Policy!policy, grants, listed, creating, worker, Policy!hot>>
    BY <1>3 DEF Policy!RevokeRead
  <2>2. [pc |-> "put", id |-> g, grant |-> grants[g]] \in RevokerV
    BY <1>0 DEF RevokerV
  <2>3. revoker' \in [Revokers -> RevokerV] /\ \A x \in Revokers : Revoking(x)'
    <3>1. PICK f \in RevokerV :
            f.pc = "put" /\ f.id = g /\ f.grant = grants[g] /\ revoker' = [revoker EXCEPT ![v] = f]
      BY <2>1, <2>2
    <3>2. revoker \in [Revokers -> RevokerV] /\ \A x \in Revokers : Revoking(x)
      BY <1>0 DEF PInv, PolicyTypes
    <3>3. \A x \in Revokers : revoker'[x] = IF x = v THEN f ELSE revoker[x]
      BY <3>1, <3>2
    <3> QED
      <4>1. ASSUME NEW x \in Revokers PROVE revoker'[x] \in RevokerV /\ Revoking(x)'
        <5>1. CASE x = v
          BY <2>1, <3>1, <3>3, <5>1 DEF Revoking
        <5>2. CASE x # v
          BY <2>1, <3>2, <3>3, <5>2 DEF Revoking
        <5> QED
          BY <5>1, <5>2
      <4>3. revoker' \in [Revokers -> RevokerV]
        <5>1. \A x \in Revokers : revoker'[x] \in RevokerV
          BY <4>1
        <5> QED
          BY <3>1, <3>2
      <4> QED
        BY <4>1, <4>3
  <2>4. PolicyTypes' /\ Published /\ Unpublished'
    <3>1. UNCHANGED <<deployed, deploys, pv, art, grants, listed, creating, worker>>
      BY <2>1 DEF Policy!policy
    <3>2. PolicyTypes'
      BY <1>0, <2>3, <3>1 DEF PolicyTypes
    <3>3. Published
      BY <1>0, <3>1, Basics DEF Published, PolicyTypes
    <3> QED
      BY <3>1, <3>2, <3>3 DEF PInv, Unpublished
  <2> QED
    BY <2>1, <2>3, <2>4
       DEF PInv, Stamped, Created, Copied, PassWorking, Reads, Policy!Evaluate,
       Policy!DeniedAll, Cached,
           Policy!IssueWithinPolicy, Policy!policy, Policy!hot
<1> QED
  BY <1>1, <1>2, <1>3

\* Issuing reads the Grant and, at least, the version of the cache.
LEMMA IssueStep ==
    ASSUME Policy!PolicyAssumption, PInv, NEW g \in Grants, Policy!Issue(g) \/ Policy!CacheExpire
    PROVE  Cached' /\ Policy!IssueWithinPolicy' /\ UNCHANGED <<Policy!policy, grants, listed, creating, worker, revoker>>
<1>0. /\ Cached /\ Policy!IssueWithinPolicy /\ Stamped(g) /\ pv \in 0..MaxPv /\ MaxPv \in Nat
      /\ grants[g] \in GrantV
  BY Basics DEF PInv, PolicyTypes
<1>1. CASE Policy!CacheExpire
  BY <1>0, <1>1 DEF Policy!CacheExpire, Cached, Policy!IssueWithinPolicy, Policy!Evaluate,
                    Policy!policy
<1>2. CASE Policy!Issue(g)
  <2>1. PICK cur \in 0..pv :
          /\ cache' = cur /\ grants[g].status = "active"
          /\ token' = IF Policy!Stale(grants[g], cur) THEN NoValue
                      ELSE [id |-> g, authority |-> Policy!EffectiveView(g, grants[g]), since |-> cur]
    BY <1>0, <1>2 DEF Policy!Issue, Cached
  <2>2. UNCHANGED <<Policy!policy, grants, listed, creating, worker, revoker>>
        /\ UNCHANGED <<pv, art>>
    BY <1>2 DEF Policy!Issue, Policy!policy
  <2>3. ASSUME token' # NoValue PROVE Policy!IssueWithinPolicy'
    <3>1. /\ token' = [id |-> g, authority |-> Policy!EffectiveView(g, grants[g]), since |-> cur]
          /\ ~Policy!Stale(grants[g], cur)
      BY <2>1, <2>3
    <3>2. grants[g].pv >= cur /\ grants[g].pv \in 0..MaxPv /\ cur \in Nat
      BY <1>0, <2>1, <3>1 DEF Policy!Stale, GrantV
    <3>3. CASE grants[g].pv = 0
      <4>1. token'.since = 0 /\ token'.authority = Consent[token'.id]
        BY <3>1, <3>2, <3>3 DEF Policy!EffectiveView
      <4> QED
        BY <4>1 DEF Policy!IssueWithinPolicy
    <3>4. CASE grants[g].pv > 0
      <4> DEFINE v == grants[g].pv
      <4>1. /\ v \in Policy!Versions /\ v <= pv /\ v >= token'.since /\ art'[v] # NoValue
            /\ token'.authority = Policy!Evaluate(art'[v], token'.id)
        BY <1>0, <2>1, <2>2, <3>1, <3>2, <3>4 DEF Stamped, Policy!Versions, Policy!EffectiveView
      <4> HIDE DEF v
      <4> QED
        BY <2>2, <4>1 DEF Policy!IssueWithinPolicy, Policy!Evaluate
    <3> QED
      BY <3>2, <3>3, <3>4
  <2> QED
    BY <2>1, <2>2, <2>3 DEF Cached, Policy!IssueWithinPolicy
<1> QED
  BY <1>1, <1>2

LEMMA PolicyNext == Policy!PolicyAssumption /\ OneWorker /\ PInv /\ [Policy!Next]_Policy!vars => PInv'
<1> SUFFICES ASSUME Policy!PolicyAssumption, OneWorker, PInv, [Policy!Next]_Policy!vars PROVE PInv'
  OBVIOUS
<1>0. PolicyTypes
  BY DEF PInv
<1>1. ASSUME UNCHANGED <<pv, art, grants, creating, worker, revoker>>,
             PolicyTypes', Cached', Policy!IssueWithinPolicy'
      PROVE  PInv'
  BY <1>1 DEF PInv, Unpublished, Stamped, Created, Copied, PassWorking, Revoking, Reads,
              Policy!Evaluate,
              Policy!DeniedAll
<1>2. CASE UNCHANGED Policy!vars
  BY <1>1, <1>2 DEF Policy!vars, PInv, PolicyTypes, Cached, Policy!IssueWithinPolicy,
                    Policy!Evaluate
<1>3. ASSUME NEW w \in Passers, Policy!WorkerStep(w) \/ Policy!PublishBump(w, 2) \/ Policy!Crash(w)
      PROVE  PInv'
  BY <1>3, WorkerReads, WriteStep DEF Policy!WorkerStep
<1>4. ASSUME NEW g \in Grants, Policy!CreateVersion(g) \/ Policy!CreateArtifact(g) \/ Policy!CreatePut(g)
      PROVE  PInv'
  BY <1>4, CreationStep
<1>5. ASSUME NEW g \in Grants, Policy!IndexCatchUp(g) PROVE PInv'
  <2>1. UNCHANGED <<Policy!policy, grants, creating, worker, revoker, Policy!hot>> /\ DOMAIN listed' \subseteq Grants
    BY <1>0, <1>5 DEF Policy!IndexCatchUp, PolicyTypes
  <2> QED
    BY <1>0, <1>1, <2>1 DEF PInv, PolicyTypes, Cached, Policy!IssueWithinPolicy,
                            Policy!Evaluate, Policy!policy, Policy!hot
<1>6. ASSUME NEW g \in Grants, Policy!RevokeBeforeEpoch(g) PROVE PInv'
  BY <1>6, RevocationStep
<1>7. ASSUME NEW g \in Grants, Policy!Issue(g) \/ Policy!CacheExpire PROVE PInv'
  <2>1. Cached' /\ Policy!IssueWithinPolicy'
        /\ UNCHANGED <<Policy!policy, grants, listed, creating, worker, revoker>>
    BY <1>7, IssueStep
  <2> QED
    BY <1>0, <1>1, <2>1 DEF PolicyTypes, Policy!policy
<1>8. ASSUME NEW v \in Revokers, Policy!RevokePut(v) PROVE PInv'
  <2>1. revoker[v].id \in Grants
    BY <1>8 DEF PInv, Revoking, Policy!RevokePut
  <2> QED
    BY <1>8, <2>1, RevocationStep
<1>9. ASSUME NEW v \in Revokers, NEW g \in Grants, Policy!RevokeRead(v, g) PROVE PInv'
  BY <1>9, RevocationStep
<1>10. ASSUME NEW p \in Policies \cup {Broken}, Policy!Deploy(p) PROVE PInv'
  BY <1>0, <1>1, <1>10 DEF Policy!Deploy, PInv, PolicyTypes, Cached, Policy!IssueWithinPolicy,
                           Policy!Evaluate, Policy!hot
<1>11. CASE Policy!CacheExpire
  BY <1>0, <1>1, <1>11 DEF Policy!CacheExpire, PInv, PolicyTypes, Cached,
                           Policy!IssueWithinPolicy, Policy!Evaluate,
                           Policy!policy
<1> QED
  BY <1>2, <1>3, <1>4, <1>5, <1>6, <1>7, <1>8, <1>9, <1>10, <1>11 DEF Policy!Next

LEMMA PolicyInvariance == ASSUME Policy!PolicyAssumption, OneWorker PROVE Policy!Spec => []PInv
BY PolicyInit, PolicyNext, PTL DEF Policy!Spec

\* The effective authority of a Grant is that of the version it is stamped with, and an
\* active Grant that has something to evaluate is not stored empty, for any Grants, consents
\* and policies, revocations and crashes, with one recomputation at a time.
THEOREM AuthorityIsStamped ==
    ASSUME Policy!PolicyAssumption, OneWorker
    PROVE  Policy!Spec => [](Policy!StampTruthful /\ Policy!NoEmptyAuthority)
<1>1. PInv => Policy!StampTruthful /\ Policy!NoEmptyAuthority
  BY DEF PInv, Policy!StampTruthful, Policy!NoEmptyAuthority, Stamped
<1> QED
  BY <1>1, PolicyInvariance, PTL

\* A token carries nothing beyond what some version in force since the cached version was
\* read permits.
THEOREM TokensFollowPolicy ==
    ASSUME Policy!PolicyAssumption, OneWorker PROVE Policy!Spec => []Policy!IssueWithinPolicy
<1>1. PInv => Policy!IssueWithinPolicy
  BY DEF PInv
<1> QED
  BY <1>1, PolicyInvariance, PTL

LEMMA OrderNext ==
    ASSUME Policy!PolicyAssumption, OneWorker, Revokers = {}, PInv, SInv, [Policy!Next]_Policy!vars
    PROVE  SInv'
<1>0. PolicyTypes /\ \A x \in Passers : worker[x] \in WorkerV /\ Ordered(x) /\ Copied(x)
  BY DEF PInv, PolicyTypes, SInv
<1>1. ASSUME NEW w \in Passers, worker'[w] = worker[w], NEW g \in Grants,
             \A x \in Grants \ {g} : grants'[x] = grants[x],
             g \in DOMAIN worker[w].seen => /\ worker[w].seen[g].rev <= grants'[g].rev
                                            /\ worker[w].seen[g].rev = grants'[g].rev =>
                                                 grants'[g].status = "active"
      PROVE  Ordered(w)'
  <2>1. DOMAIN worker[w].seen \subseteq Grants
    BY <1>0, CopyFacts DEF WorkerV
  <2> QED
    BY <1>0, <1>1, <2>1 DEF Ordered
<1>2. ASSUME UNCHANGED <<grants, worker>> PROVE SInv'
  BY <1>2 DEF SInv, Ordered
<1>3. ASSUME NEW w \in Passers, worker'[w].seen = <<>> PROVE SInv'
  BY <1>3, NoCopies DEF OneWorker, SInv, Ordered
<1>4. ASSUME NEW w \in Passers, UNCHANGED grants, worker'[w].seen = worker[w].seen PROVE SInv'
  BY <1>4 DEF OneWorker, SInv, Ordered
<1>5. ASSUME NEW w \in Passers,
             \/ Policy!Invoke(w) \/ Policy!PublishRead(w) \/ Policy!PublishPut(w)
             \/ Policy!PublishBump(w, 1)
             \/ Policy!PublishBump(w, 2) \/ Policy!PublishHeal(w)
             \/ Policy!ReadVersion(w) \/ Policy!ReadArtifact(w)
             \/ Policy!Query(w) \/ Policy!Listed(w) \/ Policy!Crash(w)
      PROVE  SInv'
  <2>1. Policy!PassOver(worker[w]).seen = <<>> /\ Policy!Idle.seen = <<>>
    BY DEF Policy!PassOver, Policy!Idle
  <2>2. UNCHANGED grants
    BY <1>5 DEF Policy!Invoke, Policy!PublishRead, Policy!PublishPut, Policy!PublishBump,
                Policy!PublishHeal, Policy!ReadVersion,
                Policy!ReadArtifact, Policy!Query, Policy!Listed, Policy!Crash
  <2>3. [Policy!Idle EXCEPT !.pc = "publish", !.text = deployed].seen = <<>>
    BY DEF Policy!Idle
  <2>4. worker'[w].seen \in {<<>>, worker[w].seen}
    <3>1. CASE Policy!Invoke(w) \/ Policy!Crash(w)
      BY <1>0, <2>1, <2>3, <3>1 DEF Policy!Invoke, Policy!Crash, Policy!Step, PolicyTypes
    <3>2. CASE Policy!PublishPut(w) \/ Policy!PublishHeal(w) \/ Policy!Query(w)
      <4>1. worker'[w] \in {[worker[w] EXCEPT !.pc = "bump"], [worker[w] EXCEPT !.pc = "version"]}
            \/ \E z : worker'[w] = [worker[w] EXCEPT !.pc = "get", !.todo = z]
        BY <1>0, <3>2 DEF Policy!PublishPut, Policy!PublishHeal, Policy!Query, Policy!Step,
                          PolicyTypes
      <4> QED
        BY <1>0, <4>1 DEF WorkerV
    <3>7. CASE Policy!PublishRead(w)
      <4>1. worker'[w] \in {[worker[w] EXCEPT !.pc = "version"],
                            [worker[w] EXCEPT !.pc = "version", !.round = 2],
                            [worker[w] EXCEPT !.pc = "put", !.n = pv + 1]}
        BY <1>0, <3>7 DEF Policy!PublishRead, Policy!Step, PolicyTypes
      <4> QED
        BY <1>0, <4>1 DEF WorkerV
    <3>3. ASSUME NEW times \in {1, 2}, Policy!PublishBump(w, times)
          PROVE  worker'[w].seen = worker[w].seen
      BY <1>0, <3>3 DEF Policy!PublishBump, Policy!Step, PolicyTypes, WorkerV
    <3>4. CASE Policy!ReadVersion(w)
      BY <1>0, <2>1, <3>4 DEF Policy!ReadVersion, Policy!Step, PolicyTypes, WorkerV
    <3>5. CASE Policy!ReadArtifact(w)
      BY <1>0, <2>1, <3>5 DEF Policy!ReadArtifact, Policy!Step, PolicyTypes, WorkerV
    <3>6. CASE Policy!Listed(w)
      BY <1>0, <2>1, <3>6 DEF Policy!Listed, Policy!Step, PolicyTypes, WorkerV
    <3> QED
      BY <1>5, <3>1, <3>2, <3>3, <3>4, <3>5, <3>6, <3>7
  <2> QED
    BY <1>3, <1>4, <2>2, <2>4
<1>6. ASSUME NEW w \in Passers, NEW g \in Grants, Policy!Get(w, g) PROVE SInv'
  <2>1. /\ UNCHANGED grants
        /\ worker'[w].seen = [x \in DOMAIN worker[w].seen \cup
                                (IF grants[g].status = "active" THEN {g} ELSE {})
                              |-> IF x = g THEN grants[g] ELSE worker[w].seen[x]]
        /\ worker[w].todo \cap DOMAIN worker[w].seen = {} /\ g \in worker[w].todo
    BY <1>0, <1>6 DEF Policy!Get, Policy!Step, PolicyTypes, WorkerV, Copied
  <2>2. grants[g].rev \in Nat
    BY <1>0, Basics DEF PolicyTypes, GrantV
  <2>3. ASSUME NEW x \in DOMAIN worker'[w].seen
        PROVE  /\ worker'[w].seen[x].rev <= grants[x].rev
               /\ worker'[w].seen[x].rev = grants[x].rev => grants[x].status = "active"
    <3>1. CASE x = g
      BY <2>1, <2>2, <2>3, <3>1
    <3>2. CASE x # g
      BY <1>0, <2>1, <2>3, <3>2 DEF Ordered
    <3> QED
      BY <3>1, <3>2
  <2> QED
    BY <2>1, <2>3 DEF OneWorker, SInv, Ordered
<1>7. ASSUME NEW w \in Passers, NEW g \in Grants, Policy!Write(w, g) PROVE SInv'
  <2> DEFINE left == [x \in DOMAIN worker[w].seen \ {g} |-> worker[w].seen[x]]
  <2>1. worker'[w] = IF DOMAIN worker[w].seen \ {g} = {} THEN Policy!PassOver(worker[w])
                     ELSE [worker[w] EXCEPT !.seen = left]
    BY <1>0, <1>7 DEF Policy!Write, Policy!Step, PolicyTypes
  <2>2. Policy!PassOver(worker[w]).seen = <<>>
    BY DEF Policy!PassOver, Policy!Idle
  <2>3. [worker[w] EXCEPT !.seen = left].seen = left
    BY <1>0 DEF WorkerV
  <2>4. CASE worker'[w].seen = left
    <3>1. \A x \in Grants \ {g} : grants'[x] = grants[x]
      BY <1>0, <1>7 DEF Policy!Write, Policy!Put, PolicyTypes
    <3>2. DOMAIN worker[w].seen \subseteq Grants
      BY <1>0, CopyFacts DEF WorkerV
    <3> QED
      BY <1>0, <2>4, <3>1, <3>2 DEF OneWorker, SInv, Ordered
  <2> QED
    BY <1>3, <2>1, <2>2, <2>3, <2>4
<1>8. ASSUME NEW g \in Grants, Policy!CreatePut(g) PROVE SInv'
  <2>1. grants[g].status = "none" /\ worker' = worker
        /\ \A x \in Grants \ {g} : grants'[x] = grants[x]
    BY <1>0, <1>8 DEF Policy!CreatePut, Policy!Put, PInv, Created, PolicyTypes
  <2>2. \A w \in Passers : g \notin DOMAIN worker[w].seen
    BY <1>0, <2>1 DEF Copied
  <2> QED
    BY <1>1, <2>1, <2>2 DEF SInv
<1>9. ASSUME NEW g \in Grants, Policy!RevokeBeforeEpoch(g) PROVE SInv'
  <2>1. grants[g].rev \in Nat
    BY <1>0, Basics DEF PolicyTypes, GrantV
  <2>2. /\ grants'[g].rev = grants[g].rev + 1 /\ worker' = worker
        /\ \A x \in Grants \ {g} : grants'[x] = grants[x]
    BY <1>0, <1>9 DEF Policy!RevokeBeforeEpoch, Policy!Put, PolicyTypes, GrantV
  <2>3. ASSUME NEW w \in Passers, g \in DOMAIN worker[w].seen
        PROVE  worker[w].seen[g].rev <= grants'[g].rev /\ worker[w].seen[g].rev # grants'[g].rev
    <3>1. worker[w].seen[g].rev \in Nat /\ worker[w].seen[g].rev <= grants[g].rev
      BY <1>0, <2>3, CopyFacts, Basics DEF Ordered, WorkerV, GrantV
    <3> QED
      BY <2>1, <2>2, <3>1
  <2> QED
    BY <1>1, <2>2, <2>3 DEF SInv
<1>10. ASSUME NEW g \in Grants,
              Policy!CreateVersion(g) \/ Policy!CreateArtifact(g) \/ Policy!IndexCatchUp(g) \/ Policy!Issue(g)
       PROVE  SInv'
  BY <1>2, <1>10 DEF Policy!CreateVersion, Policy!CreateArtifact, Policy!IndexCatchUp,
                     Policy!Issue
<1>11. ASSUME NEW p \in Policies \cup {Broken}, Policy!Deploy(p) PROVE SInv'
  BY <1>2, <1>11 DEF Policy!Deploy
<1>12. CASE Policy!CacheExpire \/ UNCHANGED Policy!vars
  BY <1>2, <1>12 DEF Policy!CacheExpire, Policy!vars
<1> QED
  BY <1>5, <1>6, <1>7, <1>8, <1>9, <1>10, <1>11, <1>12 DEF Policy!Next, Policy!WorkerStep

\* The recomputation does not bring a revoked Grant back, as long as revocations are fenced by
\* the revision (revoke_if_epoch_before): a pass only replaces the very revision it read, and
\* that one was active.
THEOREM FencedRevocationStands ==
    ASSUME Policy!PolicyAssumption, OneWorker, Revokers = {}
    PROVE  Policy!Spec => [][Policy!RevokedStays]_Policy!vars
<1>1. Policy!Init => SInv
  <2> SUFFICES ASSUME Policy!Init, NEW w \in Passers PROVE Ordered(w)
    BY DEF SInv
  <2>1. worker[w].seen = <<>>
    BY DEF Policy!Init, Policy!Idle
  <2> QED
    BY <2>1, NoCopies DEF Ordered
<1>2. PInv /\ SInv /\ [Policy!Next]_Policy!vars => SInv'
  BY OrderNext
<1>3. PInv /\ SInv /\ [Policy!Next]_Policy!vars => [Policy!RevokedStays]_Policy!vars
  <2> SUFFICES ASSUME PInv, SInv, Policy!Next, NEW g \in Grants, grants[g].status = "revoked"
               PROVE  grants'[g].status = "revoked"
    BY DEF Policy!RevokedStays
  <2>0. PolicyTypes
    BY DEF PInv
  <2>1. ASSUME grants' = grants PROVE grants'[g].status = "revoked"
    BY <2>1
  <2>2. ASSUME NEW w \in Passers, NEW x \in Grants, Policy!Write(w, x)
        PROVE  grants'[g].status = "revoked"
    <3>1. CASE x # g \/ ~Policy!WriteCommits(worker[w], x)
      BY <2>0, <2>2, <3>1 DEF Policy!Write, Policy!Put, PolicyTypes
    <3>2. CASE x = g /\ Policy!WriteCommits(worker[w], x)
      <4>1. g \in DOMAIN worker[w].seen /\ grants[g].rev = worker[w].seen[g].rev
        BY <2>2, <3>2 DEF Policy!Write, Policy!WriteCommits
      <4> QED
        BY <4>1 DEF SInv, Ordered
    <3> QED
      BY <3>1, <3>2
  <2>3. ASSUME NEW x \in Grants, Policy!CreatePut(x) PROVE grants'[g].status = "revoked"
    <3>1. grants[x].status = "none"
      BY <2>3 DEF PInv, Created, Policy!CreatePut
    <3>2. x # g
      BY <3>1
    <3> QED
      BY <2>0, <2>3, <3>2 DEF Policy!CreatePut, Policy!Put, PolicyTypes
  <2>4. ASSUME NEW x \in Grants, Policy!RevokeBeforeEpoch(x) PROVE grants'[g].status = "revoked"
    BY <2>0, <2>4 DEF Policy!RevokeBeforeEpoch, Policy!Put, PolicyTypes, GrantV
  <2>5. ASSUME NEW w \in Passers,
               \/ Policy!Invoke(w) \/ Policy!PublishRead(w) \/ Policy!PublishPut(w)
               \/ Policy!PublishBump(w, 1)
               \/ Policy!PublishBump(w, 2) \/ Policy!PublishHeal(w)
               \/ Policy!ReadVersion(w) \/ Policy!ReadArtifact(w)
               \/ Policy!Query(w) \/ Policy!Listed(w) \/ Policy!Crash(w) \/ \E x \in Grants : Policy!Get(w, x)
        PROVE  grants' = grants
    BY <2>5 DEF Policy!Invoke, Policy!PublishRead, Policy!PublishPut, Policy!PublishBump,
                Policy!PublishHeal, Policy!ReadVersion,
                Policy!ReadArtifact, Policy!Query, Policy!Listed, Policy!Crash, Policy!Get
  <2>6. ASSUME NEW x \in Grants,
               Policy!CreateVersion(x) \/ Policy!CreateArtifact(x) \/ Policy!IndexCatchUp(x) \/ Policy!Issue(x)
        PROVE  grants' = grants
    BY <2>6 DEF Policy!CreateVersion, Policy!CreateArtifact, Policy!IndexCatchUp, Policy!Issue
  <2>7. ASSUME NEW p \in Policies \cup {Broken}, Policy!Deploy(p) PROVE grants' = grants
    BY <2>7 DEF Policy!Deploy
  <2>8. CASE Policy!CacheExpire
    BY <2>1, <2>8 DEF Policy!CacheExpire
  <2> QED
    BY <2>1, <2>2, <2>3, <2>4, <2>5, <2>6, <2>7, <2>8 DEF Policy!Next, Policy!WorkerStep
<1> QED
  BY <1>1, <1>2, <1>3, PolicyInvariance, PTL DEF Policy!Spec

-----------------------------------------------------------------------------
(***************************************************************************)
(* Administrator credentials: what a runtime accepts is the trusted version*)
(* once the label has been still for the life of a cache, the label of trust*)
(* moves to higher revisions only, and a retired credential stays retired. *)
(*                                                                         *)
(* A load acts on labels it has read; what it may still assume of them when*)
(* it has the lock, and that it commits a version only while a deadline is *)
(* further away than its reserve, is Loading.                              *)
(***************************************************************************)

CONSTANTS Creds, Docs, Legacy, Runtimes, Steady, Migrators, CacheTTL, Reserve, MaxTime,
          MaxVersions
VARIABLES versions, stages, now, load, settled

Rotation == INSTANCE AdminCredentials WITH None <- NoValue, task <- load

StagesV == [cur : Nat, prev : Nat, val : Nat, pend : Nat]
LoadV == [pc : {"idle", "described", "lock", "locked", "commit", "committed", "clear", "final"},
          snap : StagesV, at : Nat]
Known == 2..Len(versions)

CredentialTypes ==
    /\ versions \in Seq(Rotation!Documents \cup {Rotation!Placeholder})
    /\ Len(versions) >= 2 /\ \A i \in Known : versions[i] \in Rotation!Documents
    /\ stages \in StagesV /\ stages.cur \in 1..Len(versions) /\ stages.val \in {0} \cup Known
    /\ now \in 0..MaxTime /\ settled \in 0..CacheTTL
    /\ load \in [Runtimes -> LoadV]
    /\ cache \in [Runtimes -> [ver : Nat, age : 0..CacheTTL]]
    /\ mig \in [Migrators -> [pc : {"idle", "write", "validate"}, cur : Nat]]

\* What validate_transition establishes whatever the time is.
Succeeds(p, c) ==
    c.rev > p.rev /\ p.retired \subseteq c.retired /\ (c.cur # p.cur => p.cur \in c.retired)

\* A load works on a version that may follow the one it found trusted; while it writes the label
\* of trust, the replaced credential's date has not come.
Loading(w) ==
    LET s == load[w].snap IN
    /\ load[w].pc # "idle" =>
         /\ s.cur \in Known /\ s.val \in Known
         /\ s.val # s.cur => Succeeds(versions[s.val], versions[s.cur])
    /\ load[w].pc \in {"lock", "locked", "commit"} => s.val # s.cur
    /\ load[w].pc = "commit" =>
         /\ now <= load[w].at + Reserve
         /\ versions[s.cur].cur = versions[s.val].cur =>
              \/ versions[s.val].retireAt = Rotation!Never
              \/ load[w].at + Reserve < versions[s.val].retireAt

\* What a runtime accepts was trusted when the label moved last, or is trusted.
Agreed(w) == cache[w].age < CacheTTL /\ cache[w].ver # stages.val => settled <= cache[w].age

AInv == CredentialTypes /\ \A w \in Runtimes : Loading(w) /\ Agreed(w)

LEMMA CredentialFacts ==
    Rotation!CredentialsAssumption => /\ Docs \subseteq Rotation!Documents /\ Legacy \in Rotation!Documents
                             /\ CacheTTL \in Nat /\ CacheTTL > 0 /\ Reserve \in Nat /\ Reserve > 0
                             /\ MaxTime \in Nat /\ Rotation!Never = MaxTime + 1 /\ 0 \in 0..CacheTTL
BY DEF Rotation!CredentialsAssumption, Rotation!Never

LEMMA CredentialInit == ASSUME Rotation!CredentialsAssumption, Rotation!Init PROVE AInv
<1>1. versions = <<Rotation!Placeholder, Legacy>> /\ Legacy \in Rotation!Documents
  BY CredentialFacts DEF Rotation!Init
<1>2. /\ versions \in Seq(Rotation!Documents \cup {Rotation!Placeholder}) /\ Len(versions) = 2
      /\ versions[2] = Legacy
  BY <1>1
<1>3. \A i \in Known : versions[i] \in Rotation!Documents
  BY <1>1, <1>2 DEF Known
<1>4. load \in [Runtimes -> LoadV] /\ \A w \in Runtimes : load[w].pc = "idle"
  BY DEF Rotation!Init, Rotation!Idle, LoadV, StagesV
<1>5. CredentialTypes
  BY <1>1, <1>2, <1>3, <1>4, CredentialFacts DEF Rotation!Init, CredentialTypes, StagesV,
     Rotation!NoCache, Known
<1>6. \A w \in Runtimes : Loading(w)
  BY <1>4 DEF Loading
<1>7. \A w \in Runtimes : Agreed(w)
  BY CredentialFacts DEF Rotation!Init, Agreed, Rotation!NoCache
<1> QED
  BY <1>5, <1>6, <1>7 DEF AInv

LEMMA TypeFacts ==
    ASSUME Rotation!CredentialsAssumption, AInv
    PROVE  /\ CredentialTypes /\ Len(versions) \in Nat /\ Len(versions) >= 2
           /\ now \in Nat /\ now <= MaxTime /\ settled \in 0..CacheTTL
           /\ \A i \in Known : i \in Nat /\ versions[i] \in Rotation!Documents /\ Rotation!IsDocument(i)
           /\ \A w \in Runtimes : load[w] \in LoadV /\ load[w].snap \in StagesV
                                  /\ load[w].at \in Nat /\ Loading(w) /\ Agreed(w)
                                  /\ cache[w] \in [ver : Nat, age : 0..CacheTTL]
  BY CredentialFacts DEF AInv, CredentialTypes, LoadV, Known, Rotation!IsDocument

LEMMA PublishStep ==
    ASSUME Rotation!CredentialsAssumption, AInv, NEW d \in Docs, Rotation!Publish(d)
    PROVE  AInv'
<1>0. /\ CredentialTypes /\ d \in Rotation!Documents /\ stages.val \in Known
      /\ versions' = Append(versions, d) /\ UNCHANGED <<now, load, cache, mig, settled>>
      /\ stages' = [stages EXCEPT !.cur = Len(versions) + 1, !.prev = stages.cur]
  BY CredentialFacts, TypeFacts DEF Rotation!Publish, CredentialTypes
<1>1. PICK n \in Nat : n = Len(versions) + 1
  BY TypeFacts
<1>2. /\ versions' \in Seq(Rotation!Documents \cup {Rotation!Placeholder}) /\ Len(versions') = n
      /\ versions'[n] = d /\ \A i \in Known : versions'[i] = versions[i] /\ i \in Known'
  BY <1>0, <1>1 DEF CredentialTypes, Known
<1>3. \A i \in Known' : versions'[i] \in Rotation!Documents
  <2>1. \A i \in Known' : i \in Known \/ i = n
    BY <1>1, <1>2, TypeFacts DEF Known
  <2> QED
    BY <1>0, <1>2, <2>1 DEF CredentialTypes
<1>4. stages' \in StagesV /\ stages'.cur = n /\ stages'.val = stages.val
  BY <1>0, <1>1 DEF CredentialTypes, StagesV
<1>5. CredentialTypes'
  <2>1. stages'.val \in Known' /\ stages'.cur \in 1..Len(versions)' /\ Len(versions)' >= 2
    BY <1>0, <1>1, <1>2, <1>4, TypeFacts
  <2> QED
    BY <1>0, <1>2, <1>3, <1>4, <2>1 DEF CredentialTypes
<1>6. ASSUME NEW w \in Runtimes PROVE Loading(w)' /\ Agreed(w)'
  <2>1. Loading(w) /\ Agreed(w)
    BY TypeFacts
  <2>2. load[w].pc # "idle" => /\ versions'[load[w].snap.cur] = versions[load[w].snap.cur]
                               /\ versions'[load[w].snap.val] = versions[load[w].snap.val]
                               /\ load[w].snap.cur \in Known' /\ load[w].snap.val \in Known'
    BY <1>2, <2>1 DEF Loading
  <2> QED
    BY <1>0, <1>4, <2>1, <2>2 DEF Loading, Agreed, Succeeds
<1> QED
  BY <1>5, <1>6 DEF AInv

\* A step that moves neither the clock nor the label of trust, nor a load.
LEMMA LabelStep ==
    ASSUME Rotation!CredentialsAssumption, AInv, UNCHANGED <<versions, now, load, cache, settled>>,
           stages' \in StagesV, stages'.cur \in 1..Len(versions), stages'.val = stages.val,
           mig' \in [Migrators -> [pc : {"idle", "write", "validate"}, cur : Nat]]
    PROVE  AInv'
BY DEF AInv, CredentialTypes, Loading, Agreed, Succeeds, Known

LEMMA LabelMigration ==
    ASSUME Rotation!CredentialsAssumption, AInv, NEW m \in Migrators, Rotation!Migrate(m) \/ Rotation!MigrateCrash(m)
    PROVE  AInv'
<1>0. CredentialTypes /\ stages \in StagesV /\ Len(versions) \in Nat /\ Len(versions) >= 2
  BY TypeFacts DEF CredentialTypes
<1>1. mig' \in [Migrators -> [pc : {"idle", "write", "validate"}, cur : Nat]]
  <2>1. \E pc \in {"idle", "write", "validate"}, n \in Nat :
          mig' = [mig EXCEPT ![m] = [pc |-> pc, cur |-> n]]
    <3>1. CASE Rotation!MigrateRead(m)
      BY <1>0, <3>1 DEF Rotation!MigrateRead, StagesV
    <3>2. CASE Rotation!MigrateCurrent(m)
      BY <3>2 DEF Rotation!MigrateCurrent
    <3>3. CASE Rotation!MigrateValidate(m) \/ Rotation!MigrateCrash(m)
      BY <3>3 DEF Rotation!MigrateValidate, Rotation!MigrateCrash
    <3> QED
      BY <3>1, <3>2, <3>3 DEF Rotation!Migrate
  <2> QED
    BY <1>0, <2>1 DEF CredentialTypes
<1>2. CASE Rotation!MigrateRead(m) \/ Rotation!MigrateCrash(m) \/ Rotation!MigrateCurrent(m)
  <2>1. /\ UNCHANGED <<versions, now, load, cache, settled>>
        /\ stages' \in {stages, [stages EXCEPT !.cur = 2, !.prev = stages.cur]}
    BY <1>2 DEF Rotation!MigrateRead, Rotation!MigrateCrash, Rotation!MigrateCurrent
  <2>2. stages' \in StagesV /\ stages'.val = stages.val /\ stages'.cur \in {stages.cur, 2}
    <3>1. CASE stages' = stages
      BY <1>0, <3>1
    <3>2. CASE stages' = [stages EXCEPT !.cur = 2, !.prev = stages.cur]
      BY <1>0, <3>2 DEF StagesV
    <3> QED
      BY <2>1, <3>1, <3>2
  <2>3. stages'.cur \in 1..Len(versions)
    BY <1>0, <2>2 DEF CredentialTypes
  <2> QED
    BY <1>1, <2>1, <2>2, <2>3, LabelStep
<1>3. CASE Rotation!MigrateValidate(m)
  <2>1. CASE stages.val # 0
    BY <1>0, <1>1, <1>3, <2>1, LabelStep DEF Rotation!MigrateValidate, CredentialTypes
  <2>2. CASE stages.val = 0
    <3>1. /\ stages' = [stages EXCEPT !.val = 2] /\ settled' = 0
          /\ UNCHANGED <<versions, now, load, cache>>
      BY <1>3, <2>2 DEF Rotation!MigrateValidate
    <3>4. stages' \in StagesV /\ stages'.val = 2 /\ stages'.cur = stages.cur
      BY <1>0, <3>1 DEF StagesV
    <3>5. 2 \in Known /\ Known' = Known
      BY <1>0, <3>1 DEF Known
    <3>2. CredentialTypes'
      BY <1>0, <1>1, <3>1, <3>4, <3>5, CredentialFacts DEF CredentialTypes
    <3>3. \A w \in Runtimes : Loading(w)' /\ Agreed(w)'
      BY <3>1, TypeFacts, CredentialFacts DEF Loading, Agreed, Succeeds, Known
    <3> QED
      BY <3>2, <3>3 DEF AInv
  <2> QED
    BY <2>1, <2>2
<1> QED
  BY <1>2, <1>3 DEF Rotation!Migrate

LEMMA TickStep == ASSUME Rotation!CredentialsAssumption, AInv, Rotation!Tick PROVE AInv'
<1>0. /\ CredentialTypes /\ UNCHANGED <<versions, stages, load, mig>>
      /\ \A w \in Runtimes : load[w].pc = "commit" => now < load[w].at + Reserve
  BY TypeFacts DEF Rotation!Tick
<1>1. now' \in 0..MaxTime /\ now' <= now + 1 /\ settled' \in 0..CacheTTL /\ settled' <= settled + 1
  BY TypeFacts, CredentialFacts DEF Rotation!Tick
<1>2. /\ cache' \in [Runtimes -> [ver : Nat, age : 0..CacheTTL]]
      /\ \A w \in Runtimes : /\ cache'[w].ver = cache[w].ver
                             /\ cache'[w].age < CacheTTL => /\ cache[w].age < CacheTTL
                                                            /\ cache'[w].age = cache[w].age + 1
  <2>1. \A w \in Runtimes :
          \E n \in 0..CacheTTL : /\ n = (IF cache[w].age < CacheTTL THEN cache[w].age + 1
                                         ELSE cache[w].age)
                                 /\ cache'[w] = [cache[w] EXCEPT !.age = n]
    <3> SUFFICES ASSUME NEW w \in Runtimes
                 PROVE  \E n \in 0..CacheTTL :
                          /\ n = (IF cache[w].age < CacheTTL THEN cache[w].age + 1
                                  ELSE cache[w].age)
                          /\ cache'[w] = [cache[w] EXCEPT !.age = n]
      OBVIOUS
    <3> DEFINE n == IF cache[w].age < CacheTTL THEN cache[w].age + 1 ELSE cache[w].age
    <3>1. cache[w].age \in 0..CacheTTL /\ CacheTTL \in Nat
      BY TypeFacts, CredentialFacts
    <3>2. n \in 0..CacheTTL
      BY <3>1
    <3>3. cache'[w] = [cache[w] EXCEPT !.age = n]
      BY DEF Rotation!Tick
    <3> HIDE DEF n
    <3>4. n = (IF cache[w].age < CacheTTL THEN cache[w].age + 1 ELSE cache[w].age)
      BY DEF n
    <3> QED
      BY <3>2, <3>3, <3>4
  <2>2. cache' = [w \in Runtimes |-> cache'[w]]
    BY DEF Rotation!Tick
  <2>3. \A w \in Runtimes : cache[w] \in [ver : Nat, age : 0..CacheTTL]
    BY TypeFacts
  <2>4. \A w \in Runtimes : cache'[w] \in [ver : Nat, age : 0..CacheTTL]
    BY <2>1, <2>3
  <2> QED
    BY <2>1, <2>2, <2>3, <2>4, CredentialFacts
<1>3. CredentialTypes'
  BY <1>0, <1>1, <1>2 DEF CredentialTypes, Known
<1>4. ASSUME NEW w \in Runtimes PROVE Loading(w)' /\ Agreed(w)'
  <2>1. Loading(w) /\ Agreed(w) /\ load[w].at \in Nat /\ Reserve \in Nat /\ now' \in Nat /\ now \in Nat
    BY <1>1, TypeFacts, CredentialFacts
  <2>2. load[w].pc = "commit" => now' <= load[w].at + Reserve
    BY <1>0, <1>1, <2>1
  <2>3. Loading(w)'
    BY <1>0, <2>1, <2>2 DEF Loading, Known, Succeeds
  <2>4. Agreed(w)'
    BY <1>0, <1>1, <1>2, <2>1, TypeFacts, CredentialFacts DEF Agreed
  <2> QED
    BY <2>3, <2>4
<1> QED
  BY <1>3, <1>4 DEF AInv

\* What a step of one load w leaves true, when the label of trust stays.
LEMMA LoadFrame ==
    ASSUME Rotation!CredentialsAssumption, AInv, NEW w \in Runtimes, NEW t \in LoadV,
           UNCHANGED <<versions, now, mig>>, load' = [load EXCEPT ![w] = t], Loading(w)',
           stages' \in StagesV, stages'.cur = stages.cur, stages'.val = stages.val,
           settled' = settled,
           cache' \in [Runtimes -> [ver : Nat, age : 0..CacheTTL]],
           \A x \in Runtimes : \/ cache'[x] = cache[x] \/ cache'[x].ver = stages.val
                               \/ cache'[x].age = CacheTTL
    PROVE  AInv'
<1>0. CredentialTypes
  BY DEF AInv
<1>1. load' \in [Runtimes -> LoadV] /\ \A x \in Runtimes \ {w} : load'[x] = load[x]
  BY <1>0 DEF CredentialTypes
<1>2. CredentialTypes'
  BY <1>0, <1>1 DEF CredentialTypes, Known
<1>3. ASSUME NEW x \in Runtimes PROVE Loading(x)'
  <2>1. CASE x # w
    BY <1>1, <2>1, TypeFacts DEF Loading, Known, Succeeds
  <2> QED
    BY <2>1
<1>4. ASSUME NEW x \in Runtimes PROVE Agreed(x)'
  BY TypeFacts, CredentialFacts DEF Agreed
<1> QED
  BY <1>2, <1>3, <1>4 DEF AInv

LEMMA LoadStep ==
    ASSUME Rotation!CredentialsAssumption, AInv, NEW w \in Runtimes, Rotation!Load(w) \/ Rotation!Abort(w)
    PROVE  AInv'
<1> DEFINE k == load[w]
           s == k.snap
<1>0. /\ CredentialTypes /\ stages \in StagesV /\ k \in LoadV /\ s \in StagesV /\ Loading(w)
      /\ stages.cur \in 1..Len(versions) /\ Len(versions) \in Nat
      /\ now \in 0..MaxTime /\ now \in Nat /\ k.at \in Nat /\ CacheTTL \in Nat /\ Reserve \in Nat
      /\ cache \in [Runtimes -> [ver : Nat, age : 0..CacheTTL]]
  BY TypeFacts, CredentialFacts DEF CredentialTypes
<1>1. Rotation!Idle \in LoadV /\ Rotation!Idle.pc = "idle" /\ Rotation!NoCache \in [ver : Nat, age : 0..CacheTTL]
      /\ Rotation!NoCache.age = CacheTTL
  BY <1>0 DEF Rotation!Idle, LoadV, StagesV, Rotation!NoCache
\* Ending a load is always in order.
<1>2. ASSUME UNCHANGED <<versions, now, mig, settled>>, load' = [load EXCEPT ![w] = Rotation!Idle],
             stages' \in StagesV, stages'.cur = stages.cur, stages'.val = stages.val,
             cache' \in [Runtimes -> [ver : Nat, age : 0..CacheTTL]],
             \A x \in Runtimes : \/ cache'[x] = cache[x] \/ cache'[x].ver = stages.val
                                 \/ cache'[x].age = CacheTTL
      PROVE  AInv'
  <2>1. Loading(w)'
    BY <1>0, <1>1, <1>2 DEF Loading, CredentialTypes
  <2> QED
    BY <1>1, <1>2, <2>1, LoadFrame
\* So is going on to another pc but "commit", and to "lock" or "locked" only from there.
<1>3. ASSUME NEW pc \in {"lock", "locked", "committed", "clear", "final"}, k.pc # "idle",
             pc \in {"lock", "locked"} => s.val # s.cur,
             UNCHANGED <<versions, now, mig, settled, cache>>,
             load' = [load EXCEPT ![w] = [k EXCEPT !.pc = pc]],
             stages' \in StagesV, stages'.cur = stages.cur, stages'.val = stages.val
      PROVE  AInv'
  <2>1. [k EXCEPT !.pc = pc] \in LoadV
    BY <1>0 DEF LoadV
  <2>2. load'[w].pc = pc /\ load'[w].snap = s
    BY <1>0, <1>3 DEF CredentialTypes, LoadV
  <2>3. Loading(w)'
    BY <1>0, <1>3, <2>2 DEF Loading, Succeeds, Known
  <2> QED
    BY <1>0, <1>3, <2>1, <2>3, LoadFrame
<1>4. CASE Rotation!Describe(w)
  <2> DEFINE t == [pc |-> "described", snap |-> stages, at |-> now]
  <2>1. /\ Rotation!Acceptable(stages, now) /\ load' = [load EXCEPT ![w] = t]
        /\ UNCHANGED <<versions, stages, now, cache, mig, settled>>
    BY <1>4 DEF Rotation!Describe
  <2>2. t \in LoadV
    BY <1>0 DEF LoadV
  <2>3. stages.cur \in Known /\ stages.val \in Known
    BY <1>0, <2>1 DEF Rotation!Acceptable, Rotation!IsDocument, Known, CredentialTypes
  <2>4. stages.val # stages.cur => Succeeds(versions[stages.val], versions[stages.cur])
    BY <2>1 DEF Rotation!Acceptable, Rotation!Transition, Succeeds
  <2>5. load'[w] = t
    BY <1>0, <2>1 DEF CredentialTypes
  <2>6. Loading(w)'
    BY <2>1, <2>3, <2>4, <2>5 DEF Loading, Known, Succeeds
  <2> QED
    BY <1>0, <2>1, <2>2, <2>6, LoadFrame
<1>5. CASE Rotation!Recheck(w)
  BY <1>0, <1>2, <1>3, <1>5 DEF Rotation!Recheck, Rotation!Goto
<1>6. CASE Rotation!EnsurePending(w)
  <2>1. stages' \in StagesV /\ stages'.cur = stages.cur /\ stages'.val = stages.val
    BY <1>0, <1>6 DEF Rotation!EnsurePending, StagesV
  <2> QED
    BY <1>0, <1>2, <1>3, <1>6, <2>1 DEF Rotation!EnsurePending, Rotation!Goto, Loading
<1>7. CASE Rotation!CheckLocked(w)
  <2>1. CASE ~(stages = Rotation!Locked(s) /\ ~Rotation!CheckpointDeadlineReached(s))
    BY <1>0, <1>2, <1>7, <2>1 DEF Rotation!CheckLocked
  <2>2. CASE stages = Rotation!Locked(s) /\ ~Rotation!CheckpointDeadlineReached(s)
    <3> DEFINE t == [k EXCEPT !.pc = "commit", !.at = now]
    <3>1. /\ load' = [load EXCEPT ![w] = t] /\ k.pc = "locked"
          /\ UNCHANGED <<versions, stages, now, cache, mig, settled>>
      BY <1>7, <2>2 DEF Rotation!CheckLocked
    <3>2. t \in LoadV
      BY <1>0 DEF LoadV
    <3>3. load'[w].pc = "commit" /\ load'[w].snap = s /\ load'[w].at = now
      BY <1>0, <3>1 DEF CredentialTypes, LoadV
    <3>4. s.cur \in Known /\ s.val \in Known /\ s.val # s.cur
          /\ Succeeds(versions[s.val], versions[s.cur])
      BY <1>0, <3>1 DEF Loading
    <3>5. ASSUME versions[s.cur].cur = versions[s.val].cur, versions[s.val].retireAt # Rotation!Never
          PROVE  now + Reserve < versions[s.val].retireAt
      <4>1. versions[s.val].retireAt \in Rotation!Deadlines(s) /\ versions[s.val].retireAt \in Nat
        <5>1. s.val \in {u \in {s.val, s.prev} :
                 /\ Rotation!IsDocument(u) /\ u # s.cur
                 /\ versions[u].cur = versions[s.cur].cur /\ versions[u].retireAt # Rotation!Never}
          BY <3>4, <3>5, TypeFacts
        <5>2. versions[s.val].retireAt \in 0..Rotation!Never
          <6>1. versions[s.val] \in Rotation!Documents
            BY <3>4, TypeFacts
          <6> QED
            BY <6>1 DEF Rotation!Documents
        <5>3. Rotation!Never \in Nat
          BY CredentialFacts
        <5> QED
          BY <5>1, <5>2, <5>3 DEF Rotation!Deadlines
      <4>2. ~(now + Reserve >= versions[s.val].retireAt)
        BY <2>2, <4>1 DEF Rotation!CheckpointDeadlineReached
      <4> QED
        BY <1>0, <4>1, <4>2
    <3>6. now <= now + Reserve
      BY <1>0
    <3> HIDE DEF s, k
    <3>7. Loading(w)'
      BY <3>1, <3>3, <3>4, <3>5, <3>6 DEF Loading, Known, Succeeds, s, k
    <3> QED
      BY <1>0, <3>1, <3>2, <3>7, LoadFrame
  <2> QED
    BY <2>1, <2>2
<1>8. CASE Rotation!Commit(w)
  <2>0. k.pc = "commit" /\ s.cur \in Known /\ s.val \in Known /\ s.val # s.cur
        /\ UNCHANGED <<versions, now, cache, mig>>
    BY <1>0, <1>8 DEF Rotation!Commit, Loading
  <2>1. CASE stages.val # s.val
    <3>1. stages' = stages /\ settled' = settled
      BY <1>8, <2>1 DEF Rotation!Commit
    <3> QED
      BY <1>0, <1>2, <1>3, <1>8, <2>0, <3>1 DEF Rotation!Commit, Rotation!Goto
  <2>2. CASE stages.val = s.val
    <3>1. /\ stages' = [stages EXCEPT !.val = s.cur] /\ settled' = 0
          /\ stages' \in StagesV /\ stages'.val = s.cur /\ stages'.cur = stages.cur
      BY <1>0, <1>8, <2>2 DEF Rotation!Commit, StagesV
    <3>2. load' = [load EXCEPT ![w] = [k EXCEPT !.pc = "committed"]]
      BY <1>8, <3>1 DEF Rotation!Commit, Rotation!Goto
    <3>3. /\ [k EXCEPT !.pc = "committed"] \in LoadV /\ load'[w].pc = "committed"
          /\ load'[w].snap = s
      BY <1>0, <3>2 DEF LoadV, CredentialTypes
    <3>4. load' \in [Runtimes -> LoadV] /\ \A x \in Runtimes \ {w} : load'[x] = load[x]
      BY <1>0, <3>2, <3>3 DEF CredentialTypes
    <3>5. CredentialTypes'
      BY <1>0, <2>0, <3>1, <3>4 DEF CredentialTypes, Known
    <3>6. Loading(w)'
      BY <1>0, <2>0, <3>3 DEF Loading, Known, Succeeds
    <3>7. \A x \in Runtimes \ {w} : Loading(x)'
      BY <2>0, <3>4, TypeFacts DEF Loading, Known, Succeeds
    <3>8. \A x \in Runtimes : Agreed(x)'
      BY <2>0, <3>1, TypeFacts, CredentialFacts DEF Agreed
    <3> QED
      BY <3>5, <3>6, <3>7, <3>8 DEF AInv
  <2> QED
    BY <2>1, <2>2
<1>9. CASE Rotation!CheckCommitted(w)
  BY <1>0, <1>2, <1>3, <1>9 DEF Rotation!CheckCommitted, Rotation!Goto
<1>10. CASE Rotation!ClearPending(w)
  <2>1. stages' \in StagesV /\ stages'.cur = stages.cur /\ stages'.val = stages.val
    BY <1>0, <1>10 DEF Rotation!ClearPending, StagesV
  <2> QED
    BY <1>0, <1>2, <1>3, <1>10, <2>1 DEF Rotation!ClearPending, Rotation!Goto
<1>11. CASE Rotation!Finish(w)
  <2>1. \/ cache' = cache
        \/ cache' = [cache EXCEPT ![w] = [ver |-> s.cur, age |-> 0]] /\ stages = Rotation!Finalized(s)
    BY <1>11 DEF Rotation!Finish
  <2>2. stages = Rotation!Finalized(s) => stages.val = s.cur
    BY <1>0 DEF Rotation!Finalized, Rotation!Committed, Rotation!Locked, StagesV
  <2>3. [ver |-> s.cur, age |-> 0] \in [ver : Nat, age : 0..CacheTTL]
    BY <1>0 DEF StagesV
  <2>4. /\ cache' \in [Runtimes -> [ver : Nat, age : 0..CacheTTL]]
        /\ \A x \in Runtimes : cache'[x] = cache[x] \/ cache'[x].ver = stages.val
    <3>1. CASE cache' = cache
      BY <1>0, <3>1
    <3>2. CASE cache' # cache
      <4>1. PICK f \in [ver : Nat, age : 0..CacheTTL] :
              f.ver = stages.val /\ cache' = [cache EXCEPT ![w] = f]
        BY <2>1, <2>2, <2>3, <3>2
      <4> QED
        BY <1>0, <4>1
    <3> QED
      BY <3>1, <3>2
  <2>5. /\ UNCHANGED <<versions, now, mig, settled>> /\ load' = [load EXCEPT ![w] = Rotation!Idle]
        /\ stages' \in StagesV /\ stages'.cur = stages.cur /\ stages'.val = stages.val
    BY <1>0, <1>11 DEF Rotation!Finish
  <2> QED
    BY <1>2, <2>4, <2>5
<1>12. CASE Rotation!Abort(w)
  <2>1. /\ cache' \in [Runtimes -> [ver : Nat, age : 0..CacheTTL]]
        /\ \A x \in Runtimes : cache'[x] = cache[x] \/ cache'[x].age = CacheTTL
    BY <1>0, <1>1, <1>12 DEF Rotation!Abort
  <2> QED
    BY <1>0, <1>2, <1>12, <2>1 DEF Rotation!Abort
<1> QED
  BY <1>4, <1>5, <1>6, <1>7, <1>8, <1>9, <1>10, <1>11, <1>12 DEF Rotation!Load

LEMMA CredentialNext == Rotation!CredentialsAssumption /\ AInv /\ [Rotation!Next]_Rotation!vars => AInv'
<1> SUFFICES ASSUME Rotation!CredentialsAssumption, AInv, [Rotation!Next]_Rotation!vars PROVE AInv'
  OBVIOUS
<1>1. CASE Rotation!OperatorClear
  <2>1. stages' \in StagesV /\ stages'.cur = stages.cur /\ stages'.val = stages.val
    BY <1>1 DEF Rotation!OperatorClear, AInv, CredentialTypes, StagesV
  <2> QED
    BY <1>1, <2>1, LabelStep DEF Rotation!OperatorClear, AInv, CredentialTypes
<1>2. CASE UNCHANGED Rotation!vars
  BY <1>2, LabelStep DEF Rotation!vars, AInv, CredentialTypes
<1> QED
  BY <1>1, <1>2, PublishStep, LabelMigration, TickStep, LoadStep DEF Rotation!Next

LEMMA CredentialInvariance == ASSUME Rotation!CredentialsAssumption PROVE Rotation!Spec => []AInv
BY CredentialInit, CredentialNext, PTL DEF Rotation!Spec

\* A cache's lifetime after the label of trust has moved, no runtime accepts anything else than
\* the trusted version.
THEOREM CachesFollowTrust ==
    ASSUME Rotation!CredentialsAssumption
    PROVE  Rotation!Spec => []Rotation!CachesAgree
<1>1. AInv => Rotation!CachesAgree
  <2> SUFFICES ASSUME AInv, settled = CacheTTL, NEW w \in Runtimes, cache[w].age < CacheTTL
               PROVE  cache[w].ver = stages.val
    BY DEF Rotation!CachesAgree
  <2> QED
    BY TypeFacts, CredentialFacts DEF Agreed
<1> QED
  BY <1>1, CredentialInvariance, PTL

\* Only Commit and the first migration move the label of trust.
LEMMA TrustMoves ==
    ASSUME Rotation!CredentialsAssumption, AInv, [Rotation!Next]_Rotation!vars
    PROVE  \/ stages'.val = stages.val
           \/ stages.val = 0
           \/ \E w \in Runtimes : /\ Rotation!Commit(w) /\ stages.val = load[w].snap.val
                                  /\ stages'.val = load[w].snap.cur
<1>0. stages \in StagesV
  BY DEF AInv, CredentialTypes
<1>1. ASSUME NEW m \in Migrators, Rotation!Migrate(m) \/ Rotation!MigrateCrash(m)
      PROVE  stages'.val = stages.val \/ stages.val = 0
  BY <1>0, <1>1 DEF Rotation!Migrate, Rotation!MigrateRead, Rotation!MigrateCurrent,
                    Rotation!MigrateValidate, Rotation!MigrateCrash, StagesV
<1>2. ASSUME NEW w \in Runtimes, Rotation!Load(w) \/ Rotation!Abort(w)
      PROVE  \/ stages'.val = stages.val
             \/ /\ Rotation!Commit(w) /\ stages.val = load[w].snap.val
                /\ stages'.val = load[w].snap.cur
  BY <1>0, <1>2 DEF Rotation!Load, Rotation!Abort, Rotation!Describe, Rotation!Recheck,
                    Rotation!EnsurePending, Rotation!CheckLocked, Rotation!Commit,
                    Rotation!CheckCommitted, Rotation!ClearPending, Rotation!Finish, StagesV
<1>3. ASSUME \/ Rotation!OperatorClear \/ Rotation!Tick \/ UNCHANGED Rotation!vars \/ \E d \in Docs : Rotation!Publish(d)
      PROVE  stages'.val = stages.val
  BY <1>0, <1>3 DEF Rotation!OperatorClear, Rotation!Tick, Rotation!vars, Rotation!Publish,
                    StagesV
<1> QED
  BY <1>1, <1>2, <1>3 DEF Rotation!Next

\* The label of trust only moves to higher revisions, although stale runtimes and repeated
\* migrations write it.
THEOREM TrustAdvances ==
    ASSUME Rotation!CredentialsAssumption
    PROVE  Rotation!Spec => [][Rotation!AnchorAdvances]_Rotation!vars
<1>1. AInv /\ [Rotation!Next]_Rotation!vars => [Rotation!AnchorAdvances]_Rotation!vars
  <2> SUFFICES ASSUME AInv, [Rotation!Next]_Rotation!vars, stages.val # stages'.val, stages.val # 0
               PROVE  versions[stages.val].rev < versions'[stages'.val].rev
    BY DEF Rotation!AnchorAdvances
  <2>1. PICK w \in Runtimes : /\ Rotation!Commit(w) /\ stages.val = load[w].snap.val
                              /\ stages'.val = load[w].snap.cur
    BY TrustMoves
  <2>2. versions' = versions /\ Loading(w) /\ load[w].pc = "commit"
    BY <2>1, TypeFacts DEF Rotation!Commit
  <2>3. /\ versions[load[w].snap.cur].rev > versions[load[w].snap.val].rev
        /\ load[w].snap.cur \in Known /\ load[w].snap.val \in Known
    BY <2>2 DEF Loading, Succeeds
  <2>4. versions[load[w].snap.cur].rev \in Nat /\ versions[load[w].snap.val].rev \in Nat
    BY <2>3, TypeFacts DEF Rotation!Documents
  <2> QED
    BY <2>1, <2>2, <2>3, <2>4
<1> QED
  BY <1>1, CredentialInvariance, PTL DEF Rotation!Spec

\* A credential the trusted version has retired, by name or by its date, stays retired.
THEOREM RetirementIsFinal ==
    ASSUME Rotation!CredentialsAssumption
    PROVE  Rotation!Spec => [][Rotation!DeadStaysDead]_Rotation!vars
<1>1. AInv /\ [Rotation!Next]_Rotation!vars => [Rotation!DeadStaysDead]_Rotation!vars
  <2> SUFFICES ASSUME AInv, [Rotation!Next]_Rotation!vars, NEW c \in Creds, Rotation!Dead(c)
               PROVE  Rotation!Dead(c)'
    BY DEF Rotation!DeadStaysDead
  <2>0. /\ stages.val \in Known /\ Rotation!Trusted = versions[stages.val] /\ stages.val # 0
        /\ c \in Rotation!Trusted.retired \/ (c = Rotation!Trusted.cur /\ now >= Rotation!Trusted.retireAt)
        /\ Rotation!Trusted.retireAt \in 0..Rotation!Never /\ Rotation!Never = MaxTime + 1 /\ MaxTime \in Nat
        /\ now \in Nat /\ now <= MaxTime
    BY TypeFacts, CredentialFacts DEF Rotation!Dead, Rotation!IsDocument, CredentialTypes,
                                      Rotation!Trusted, Rotation!Documents
  <2>1. now' \in Nat /\ now' >= now
    <3>1. now' = now \/ Rotation!Tick
      BY DEF Rotation!Next, Rotation!vars, Rotation!Publish, Rotation!OperatorClear,
             Rotation!Migrate, Rotation!MigrateRead, Rotation!MigrateCurrent,
             Rotation!MigrateValidate, Rotation!MigrateCrash, Rotation!Load, Rotation!Abort,
             Rotation!Describe, Rotation!Recheck, Rotation!EnsurePending,
             Rotation!CheckLocked, Rotation!Commit, Rotation!CheckCommitted,
             Rotation!ClearPending, Rotation!Finish
    <3> QED
      BY <2>0, <3>1 DEF Rotation!Tick
  <2>2. \A i \in Known : versions'[i] = versions[i]
    <3>1. ASSUME NEW d \in Docs, Rotation!Publish(d)
          PROVE  \A i \in Known : versions'[i] = versions[i]
      BY <3>1, CredentialFacts, TypeFacts DEF Rotation!Publish, Known, CredentialTypes
    <3>2. versions' = versions \/ \E d \in Docs : Rotation!Publish(d)
      BY DEF Rotation!Next, Rotation!vars, Rotation!OperatorClear, Rotation!Tick,
             Rotation!Migrate, Rotation!MigrateRead, Rotation!MigrateCurrent,
             Rotation!MigrateValidate, Rotation!MigrateCrash, Rotation!Load, Rotation!Abort,
             Rotation!Describe, Rotation!Recheck, Rotation!EnsurePending,
             Rotation!CheckLocked, Rotation!Commit, Rotation!CheckCommitted,
             Rotation!ClearPending, Rotation!Finish
    <3> QED
      BY <3>1, <3>2
  <2>3. CASE stages'.val = stages.val
    BY <2>0, <2>1, <2>2, <2>3 DEF Rotation!Dead, Rotation!Trusted, Rotation!IsDocument
  <2>4. ASSUME NEW w \in Runtimes, Rotation!Commit(w), stages.val = load[w].snap.val,
               stages'.val = load[w].snap.cur
        PROVE  Rotation!Dead(c)'
    <3> DEFINE p == versions[load[w].snap.val]
               d == versions[load[w].snap.cur]
    <3>1. /\ versions' = versions /\ now' = now /\ Loading(w) /\ load[w].pc = "commit"
          /\ load[w].at \in Nat /\ Reserve \in Nat
      BY <2>4, TypeFacts, CredentialFacts DEF Rotation!Commit
    <3>2. /\ Succeeds(p, d) /\ load[w].snap.cur \in Known
          /\ now <= load[w].at + Reserve
          /\ d.cur = p.cur => p.retireAt = Rotation!Never \/ load[w].at + Reserve < p.retireAt
      BY <3>1 DEF Loading
    <3>3. p = Rotation!Trusted
      BY <2>0, <2>4
    <3>4. Rotation!IsDocument(load[w].snap.cur)
      BY <3>2, TypeFacts
    <3>5. c \in d.retired
      <4>1. CASE c \in p.retired
        BY <3>2, <4>1 DEF Succeeds
      <4>2. CASE c = p.cur /\ now >= p.retireAt
        <5>1. d.cur # p.cur
          BY <2>0, <3>1, <3>2, <3>3, <4>2
        <5> QED
          BY <3>2, <4>2, <5>1 DEF Succeeds
      <4> QED
        BY <2>0, <3>3, <4>1, <4>2
    <3> QED
      BY <2>4, <3>1, <3>4, <3>5 DEF Rotation!Dead, Rotation!Trusted
  <2> QED
    BY <2>0, <2>3, <2>4, TrustMoves
<1> QED
  BY <1>1, CredentialInvariance, PTL DEF Rotation!Spec

-----------------------------------------------------------------------------
(***************************************************************************)
(* What MCBackground checks of its instances, for every value of the       *)
(* constants of each component.                                            *)
(***************************************************************************)

AuthorityFollowsPolicy ==
    Policy!StampTruthful /\ Policy!NoEmptyAuthority /\ Policy!IssueWithinPolicy

ReclaimIsSafe == Reclaim!CoverageIsComplete /\ Reclaim!NothingDangles

LimitsSuffice == DeliveryIsSound /\ Rotation!CachesAgree

NothingIsRevived ==
    /\ Policy!Spec => [][Policy!RevokedStays]_Policy!vars
    /\ Reclaim!Spec => [][Reclaim!TombstoneStays]_Reclaim!vars
    /\ Rotation!Spec => [][Rotation!DeadStaysDead]_Rotation!vars
    /\ Rotation!Spec => [][Rotation!AnchorAdvances]_Rotation!vars

\* With one recomputation at a time, for any Grants, consents, policies, revocations,
\* crashes and repeated bumps: a Grant carries what the version it is stamped with
\* permits, none that has something to evaluate is stored empty, and a token exceeds
\* no version in force since the cached one was read (recompute).
THEOREM PolicyIsFollowed ==
    ASSUME Policy!PolicyAssumption, OneWorker
    PROVE  Policy!Spec => []AuthorityFollowsPolicy
<1>1. Policy!StampTruthful /\ Policy!NoEmptyAuthority /\ Policy!IssueWithinPolicy
        => AuthorityFollowsPolicy
  BY DEF AuthorityFollowsPolicy
<1> QED
  BY <1>1, AuthorityIsStamped, TokensFollowPolicy, PTL

\* Once coverage is published the references show every live code and family, and no
\* live code or family belongs to a tombstone or a deleted client, for any codes,
\* families, passes, metadata updates and migrations (authority_refs.rs, reclaim_one).
THEOREM ReclaimSafe == Reclaim!Spec => []ReclaimIsSafe
<1>1. Reclaim!CoverageIsComplete /\ Reclaim!NothingDangles => ReclaimIsSafe
  BY DEF ReclaimIsSafe
<1> QED
  BY <1>1, CoverageHolds, NothingIsReclaimedInUse, PTL

\* What rests on a time limit: one pass at a time pushes a delivery as long as a pass
\* ends within its lease (DELIVERY_LEASE_SECS), and a cache lifetime after the label of
\* trust has moved every runtime accepts the trusted version only
\* (ensure_stage_snapshots_stable). The two components share no variable.
THEOREM LimitsHold ==
    ASSUME Assumptions, Rotation!CredentialsAssumption
    PROVE  Spec /\ Rotation!Spec => []LimitsSuffice
<1>1. DeliveryIsSound /\ Rotation!CachesAgree => LimitsSuffice
  BY DEF LimitsSuffice
<1> QED
  BY <1>1, DeliverySound, CachesFollowTrust, PTL

\* What was ended stays ended: a revoked Grant, as long as revocations are fenced by the
\* revision, a tombstone, a retired credential and an older label of trust.
THEOREM RevivalExcluded ==
    ASSUME Policy!PolicyAssumption, OneWorker, Revokers = {}, Rotation!CredentialsAssumption
    PROVE  NothingIsRevived
BY FencedRevocationStands, TombstonesStay, RetirementIsFinal, TrustAdvances
   DEF NothingIsRevived

=============================================================================
