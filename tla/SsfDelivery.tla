----------------------------- MODULE SsfDelivery -----------------------------
(***************************************************************************)
(* Shared Signals delivery (crates/http/src: ssf.rs, ssf_worker.rs,        *)
(* adapters/aws/ssf.rs, bin/ssf_delivery.rs): one stream, the deliveries   *)
(* of its events, and overlapping worker passes that lease a delivery,     *)
(* sign its SET, push it to the receiver and record the result.            *)
(*                                                                         *)
(* A pass lists deliveries from an index that lags.  It reads the clock    *)
(* once, so a lease it holds never looks expired to itself: only the lease *)
(* id protects the record from a pass that was overtaken.  Of time, a      *)
(* record keeps four facts: due, the lease has expired (leaseOver), the    *)
(* cycle and the window of the SET are too old (cycleOld, windowOld).      *)
(***************************************************************************)
EXTENDS Naturals, FiniteSets

CONSTANTS
    Events,     \* security events, and requests for a verification event
    Workers,    \* worker tasks
    MaxRev,     \* bound: revisions of the stream
    MaxCycle,   \* SSF_MAX_ATTEMPTS_PER_CYCLE
    MaxTotal,   \* SSF_MAX_TOTAL_ATTEMPTS
    MaxRedrives,\* bound: redrives of a delivery
    MaxCrashes, \* bound: passes that stop half-way
    Timely,     \* a pass is stopped before the leases it took expire
    MayAge      \* deliveries may grow too old

SsfAssumption ==
    /\ {MaxRev, MaxCycle, MaxTotal} \subseteq Nat \ {0}
    /\ {MaxRedrives, MaxCrashes} \subseteq Nat
    /\ Timely \in BOOLEAN /\ MayAge \in BOOLEAN

VARIABLES
    stream,   \* status and revision
    eligible, \* events that occurred since the stream was activated
    removal,  \* offboarding of the tenant: none, running, done
    rec,      \* deliveries
    index,    \* what the due index shows of them
    task,     \* worker tasks
    crashes,  \* passes stopped so far
    pushed    \* history: (event, SET) pairs a receiver may have seen

vars == <<stream, eligible, removal, rec, index, task, crashes, pushed>>

None == "none"
NoSet == 0
Active == {"pending", "retry_wait"}
Statuses == Active \cup {"absent", "delivered", "terminal", "dead_lettered", "suppressed"}
Results == {"accepted", "retryable", "terminal", "fatal"}
\* Signed SETs are numbered; a number nothing refers to any more is used again.
SetIds == 1..Cardinality(Workers) + 3
\* A lease is removed with its end, and a settled delivery from the index.
Deliveries == {d \in [status : Statuses, rev : 0..MaxRev, set : {NoSet} \cup SetIds,
                     lease : {None} \cup Workers, leaseOver : BOOLEAN, due : BOOLEAN,
                     attempts : 0..MaxTotal, cycle : 0..MaxCycle, redrives : 0..MaxRedrives,
                     cycleOld : BOOLEAN, windowOld : BOOLEAN] :
                 /\ d.leaseOver => d.lease # None
                 /\ d.due => d.status \in Active}
PCs == {"idle", "stream", "suppress", "dead_letter", "lease", "sign", "persist", "push", "finish"}
Tasks == [pc : PCs, event : Events \cup {None}, seen : Deliveries, set : {NoSet} \cup SetIds,
          result : Results, current : BOOLEAN]

TypeOK ==
    /\ stream \in [status : {"enabled", "paused", "revoked"}, rev : 1..MaxRev]
    /\ eligible \subseteq Events /\ removal \in {"none", "running", "done"}
    /\ rec \in [Events -> Deliveries] /\ index \in [Events -> Deliveries]
    /\ task \in [Workers -> Tasks]
    /\ crashes \in 0..MaxCrashes
    /\ pushed \subseteq Events \X SetIds

Absent == [status |-> "absent", rev |-> 0, set |-> NoSet, lease |-> None, leaseOver |-> FALSE,
           due |-> FALSE, attempts |-> 0, cycle |-> 0, redrives |-> 0, cycleOld |-> FALSE,
           windowOld |-> FALSE]
Idle == [pc |-> "idle", event |-> None, seen |-> Absent, set |-> NoSet, result |-> "retryable",
         current |-> TRUE]

\* The stream as create_stream registers it.
Init ==
    /\ stream = [status |-> "enabled", rev |-> 1]
    /\ eligible = {} /\ removal = "none"
    /\ rec = [e \in Events |-> Absent] /\ index = [e \in Events |-> Absent]
    /\ task = [w \in Workers |-> Idle]
    /\ crashes = 0 /\ pushed = {}

Current(d) == stream.status = "enabled" /\ stream.rev = d.rev
Goto(w, pc) == task' = [task EXCEPT ![w].pc = pc]
Done(w) == task' = [task EXCEPT ![w] = Idle]

-----------------------------------------------------------------------------
\* The stream's administration

\* apply_stream_mutation under the revision; events before an activation are not delivered.
Mutate(status) ==
    /\ stream.status # "revoked" /\ stream.rev < MaxRev
    /\ status \in {"paused", "enabled", "revoked"}
    /\ (status = "paused") => (stream.status # "paused")
    /\ stream' = [status |-> status, rev |-> stream.rev + 1]
    /\ eligible' = IF status = "enabled" THEN {} ELSE eligible
    /\ UNCHANGED <<removal, rec, index, task, crashes, pushed>>

Occur(e) ==
    /\ e \notin eligible /\ rec[e].status = "absent"
    /\ eligible' = eligible \cup {e}
    /\ UNCHANGED <<stream, removal, rec, index, task, crashes, pushed>>

\* The put does not check the stream.
EnqueueUnchecked(e) ==
    /\ e \in eligible /\ rec[e].status = "absent"
    /\ rec' = [rec EXCEPT ![e] = [Absent EXCEPT !.status = "pending", !.rev = stream.rev,
                                               !.due = TRUE]]
    /\ UNCHANGED <<stream, eligible, removal, index, task, crashes, pushed>>

\* enqueue_event and enqueue_verification; a repeated source record finds the delivery.
Enqueue(e) ==
    /\ e \in eligible /\ rec[e].status = "absent" /\ stream.status = "enabled"
    /\ rec' = [rec EXCEPT ![e] = [Absent EXCEPT !.status = "pending", !.rev = stream.rev,
                                               !.due = TRUE]]
    /\ UNCHANGED <<stream, eligible, removal, index, task, crashes, pushed>>

\* delivery_is_redriveable
Redriveable(d) ==
    d.status \in {"terminal", "dead_lettered"} /\ d.attempts < MaxTotal /\ ~d.windowOld

Redrive(e) ==
    /\ Redriveable(rec[e]) /\ Current(rec[e]) /\ rec[e].redrives < MaxRedrives
    /\ rec' = [rec EXCEPT ![e] =
                 [@ EXCEPT !.status = "pending", !.cycle = 0, !.redrives = rec[e].redrives + 1,
                           !.cycleOld = FALSE, !.due = TRUE, !.lease = None,
                           !.leaseOver = FALSE]]
    /\ UNCHANGED <<stream, eligible, removal, index, task, crashes, pushed>>

\* revoke_all_by_tenant: the stream first, then its deliveries one after another.
RemoveTenant ==
    /\ removal = "none" /\ stream.rev < MaxRev
    /\ removal' = "running"
    /\ stream' = IF stream.status = "revoked" THEN stream
                 ELSE [status |-> "revoked", rev |-> stream.rev + 1]
    /\ UNCHANGED <<eligible, rec, index, task, crashes, pushed>>

\* The record stays in the due index.
SettledStillListed(d, status) ==
    [d EXCEPT !.status = status, !.lease = None, !.leaseOver = FALSE]

Settled(d, status) ==
    [d EXCEPT !.status = status, !.lease = None, !.leaseOver = FALSE, !.due = FALSE]

RemoveDelivery(e) ==
    /\ removal = "running" /\ rec[e].status \in Active
    /\ rec' = [rec EXCEPT ![e] = Settled(@, "suppressed")]
    /\ UNCHANGED <<stream, eligible, removal, index, task, crashes, pushed>>

RemovalDone ==
    /\ removal = "running" /\ \A e \in Events : rec[e].status \notin Active
    /\ removal' = "done"
    /\ UNCHANGED <<stream, eligible, rec, index, task, crashes, pushed>>

-----------------------------------------------------------------------------
\* A worker task: acquire_due

\* The query returns what the index shows.
Query(w, e) ==
    /\ task[w].pc = "idle" /\ index[e].status \in Active /\ index[e].due
    /\ task' = [task EXCEPT ![w] = [Idle EXCEPT !.pc = "stream", !.event = e, !.seen = index[e]]]
    /\ UNCHANGED <<stream, eligible, removal, rec, index, crashes, pushed>>

Exhausted(d) == d.windowOld \/ d.cycleOld \/ d.cycle >= MaxCycle \/ d.attempts >= MaxTotal

ReadStream(w) ==
    LET d == task[w].seen IN
    /\ task[w].pc = "stream"
    /\ Goto(w, IF ~Current(d) THEN "suppress" ELSE IF Exhausted(d) THEN "dead_letter" ELSE "lease")
    /\ UNCHANGED <<stream, eligible, removal, rec, index, crashes, pushed>>

\* The condition of acquire_due and of suppress_or_dead_letter on the record itself.
Takeable(d) == d.status \in Active /\ d.due /\ (d.lease = None \/ d.leaseOver)

\* suppress_or_dead_letter
GiveUp(w) ==
    LET e == task[w].event
        status == IF task[w].pc = "suppress" THEN "suppressed" ELSE "dead_lettered" IN
    /\ task[w].pc \in {"suppress", "dead_letter"}
    /\ rec' = IF Takeable(rec[e]) THEN [rec EXCEPT ![e] = Settled(@, status)] ELSE rec
    /\ Done(w)
    /\ UNCHANGED <<stream, eligible, removal, index, crashes, pushed>>

\* What the task goes on to use of the delivery it was shown.
Kept(d) == [Absent EXCEPT !.rev = d.rev, !.set = d.set]

\* The lease ends when it begins.
LeasedForNoTime(d, w) == [d EXCEPT !.lease = w, !.leaseOver = TRUE, !.due = TRUE]

Leased(d, w) == [d EXCEPT !.lease = w, !.leaseOver = FALSE, !.due = FALSE]

\* The transaction relies on the stream that was read before.
LeaseUnchecked(w) ==
    LET e == task[w].event IN
    /\ task[w].pc = "lease"
    /\ IF Takeable(rec[e])
         THEN /\ rec' = [rec EXCEPT ![e] = Leased(@, w)]
              /\ task' = [task EXCEPT ![w] = [@ EXCEPT !.pc = "sign", !.current = Current(rec[e]),
                                                    !.seen = Kept(task[w].seen)]]
         ELSE UNCHANGED rec /\ Done(w)
    /\ UNCHANGED <<stream, eligible, removal, index, crashes, pushed>>

Lease(w) ==
    LET e == task[w].event IN
    /\ task[w].pc = "lease"
    /\ IF Takeable(rec[e]) /\ Current(task[w].seen)
         THEN /\ rec' = [rec EXCEPT ![e] = Leased(@, w)]
              /\ task' = [task EXCEPT ![w] = [@ EXCEPT !.pc = "sign", !.current = Current(rec[e]),
                                                    !.seen = Kept(task[w].seen)]]
         ELSE UNCHANGED rec /\ Done(w)
    /\ UNCHANGED <<stream, eligible, removal, index, crashes, pushed>>

-----------------------------------------------------------------------------
\* process_delivery

InUse(e) == {rec[e].set, index[e].set} \cup {task[w].set : w \in Workers}
            \cup {task[w].seen.set : w \in Workers} \cup {p[2] : p \in pushed}

\* The SET the query showed is sent as it is; otherwise one is signed, or the signer fails.
Sign(w) ==
    LET e == task[w].event IN
    /\ task[w].pc = "sign"
    /\ \/ /\ task[w].seen.set # NoSet
          /\ task' = [task EXCEPT ![w] = [@ EXCEPT !.pc = "push", !.set = task[w].seen.set]]
       \/ /\ task[w].seen.set = NoSet
          /\ \E n \in SetIds \ InUse(e) :
               /\ \A k \in SetIds \ InUse(e) : n <= k
               /\ task' = [task EXCEPT ![w] = [@ EXCEPT !.pc = "persist", !.set = n]]
       \/ /\ task[w].seen.set = NoSet
          /\ \E r \in {"retryable", "fatal"} :
               task' = [task EXCEPT ![w] = [@ EXCEPT !.pc = "finish", !.result = r]]
    /\ UNCHANGED <<stream, eligible, removal, rec, index, crashes, pushed>>

Holds(w) == rec[task[w].event].lease = w

\* A SET that is already there is replaced.
PersistableAgain(w) ==
    Holds(w) /\ Current(task[w].seen) /\ rec[task[w].event].status \in Active

Persistable(w) ==
    /\ Holds(w) /\ Current(task[w].seen) /\ rec[task[w].event].status \in Active
    /\ rec[task[w].event].set = NoSet

\* persist_signed_set; a refused task ends and leaves the lease to expire.
Persist(w) ==
    LET e == task[w].event IN
    /\ task[w].pc = "persist"
    /\ IF Persistable(w)
         THEN /\ rec' = [rec EXCEPT ![e] = [@ EXCEPT !.set = task[w].set, !.windowOld = FALSE]]
              /\ Goto(w, "push")
         ELSE UNCHANGED rec /\ Done(w)
    /\ UNCHANGED <<stream, eligible, removal, index, crashes, pushed>>

\* The receiver accepts, refuses for good, fails for now, or the answer is lost.
Push(w) ==
    LET e == task[w].event IN
    /\ task[w].pc = "push"
    /\ pushed' = pushed \cup {<<e, task[w].set>>}
    /\ \E r \in {"accepted", "terminal", "retryable"} :
         task' = [task EXCEPT ![w] = [@ EXCEPT !.pc = "finish", !.result = r]]
    /\ UNCHANGED <<stream, eligible, removal, rec, index, crashes>>

\* The last attempt of a cycle is not noticed.
SpentLate(d) == d.attempts + 1 >= MaxTotal \/ d.cycle + 1 > MaxCycle \/ d.cycleOld \/ d.windowOld

\* apply_attempt_result: this attempt was the last one.
Spent(d) == d.attempts + 1 >= MaxTotal \/ d.cycle + 1 >= MaxCycle \/ d.cycleOld \/ d.windowOld

Applied(d, r) ==
    LET status == CASE r = "accepted" -> "delivered"
                    [] r = "terminal" -> "terminal"
                    [] r = "fatal" -> "dead_lettered"
                    [] r = "retryable" -> IF Spent(d) THEN "dead_lettered" ELSE "retry_wait" IN
    [Settled(d, status) EXCEPT !.attempts = @ + 1, !.cycle = @ + 1]

\* Whoever holds the lease, the result is recorded.
FinishAnyLease(w) ==
    LET e == task[w].event IN
    /\ task[w].pc = "finish"
    /\ rec' = IF rec[e].lease # None THEN [rec EXCEPT ![e] = Applied(@, task[w].result)] ELSE rec
    /\ Done(w)
    /\ UNCHANGED <<stream, eligible, removal, index, crashes, pushed>>

\* finish_attempt; the lease id fences it.
Finish(w) ==
    LET e == task[w].event IN
    /\ task[w].pc = "finish"
    /\ rec' = IF Holds(w) THEN [rec EXCEPT ![e] = Applied(@, task[w].result)] ELSE rec
    /\ Done(w)
    /\ UNCHANGED <<stream, eligible, removal, index, crashes, pushed>>

\* The pass is stopped by an error, a crash or its time limit.
Crash(w) ==
    /\ task[w].pc # "idle" /\ crashes < MaxCrashes
    /\ crashes' = crashes + 1
    /\ Done(w)
    /\ UNCHANGED <<stream, eligible, removal, rec, index, pushed>>

-----------------------------------------------------------------------------
\* Time and the index

\* The lease id stays, and nothing makes the record due again.
ComeDueUnlessLeased(e) ==
    /\ rec[e].status \in Active /\ ~rec[e].due /\ rec[e].lease = None
    /\ rec' = [rec EXCEPT ![e].due = TRUE]
    /\ UNCHANGED <<stream, eligible, removal, index, task, crashes, pushed>>

\* The retry's time has come, or the lease is over, which makes the record due as well.
ComeDue(e) ==
    /\ rec[e].status \in Active /\ ~rec[e].due
    /\ LET w == rec[e].lease IN
         (Timely /\ w # None) => (task[w].event # e \/ task[w].pc \in {"stream", "suppress",
                                                                     "dead_letter", "lease"})
    /\ rec' = [rec EXCEPT ![e].due = TRUE, ![e].leaseOver = rec[e].lease # None]
    /\ UNCHANGED <<stream, eligible, removal, index, task, crashes, pushed>>

\* Time passes for the index's copy as for the record.
AgeCycle(e) ==
    /\ MayAge /\ rec[e].status # "absent" /\ ~rec[e].cycleOld
    /\ rec' = [rec EXCEPT ![e].cycleOld = TRUE] /\ index' = [index EXCEPT ![e].cycleOld = TRUE]
    /\ UNCHANGED <<stream, eligible, removal, task, crashes, pushed>>

AgeWindow(e) ==
    /\ MayAge /\ rec[e].status # "absent" /\ ~rec[e].windowOld
    /\ rec' = [rec EXCEPT ![e].windowOld = TRUE] /\ index' = [index EXCEPT ![e].windowOld = TRUE]
    /\ UNCHANGED <<stream, eligible, removal, task, crashes, pushed>>

IndexCatchUp(e) ==
    /\ index[e] # rec[e] /\ index' = [index EXCEPT ![e] = rec[e]]
    /\ UNCHANGED <<stream, eligible, removal, rec, task, crashes, pushed>>

-----------------------------------------------------------------------------
WorkerStep(w) ==
    \/ ReadStream(w) \/ GiveUp(w) \/ Lease(w) \/ Sign(w) \/ Persist(w) \/ Push(w) \/ Finish(w)

Next ==
    \/ \E status \in {"enabled", "paused", "revoked"} : Mutate(status)
    \/ \E e \in Events :
         \/ Occur(e) \/ Enqueue(e) \/ Redrive(e) \/ RemoveDelivery(e)
         \/ ComeDue(e) \/ AgeCycle(e) \/ AgeWindow(e) \/ IndexCatchUp(e)
         \/ \E w \in Workers : Query(w, e)
    \/ \E w \in Workers : WorkerStep(w) \/ Crash(w)
    \/ RemoveTenant \/ RemovalDone

Spec == Init /\ [][Next]_vars

-----------------------------------------------------------------------------
\* However often a delivery is pushed, it is the same SET each time, so a receiver can
\* recognise a repetition by its jti (persist_signed_set before every first push).
OneSet == \A p, q \in pushed : p[1] = q[1] => p = q

\* Until its lease runs out, a pass is the only one that changes the delivery it works on,
\* except for the offboarding: an overtaken pass's late result, a redrive or another pass's
\* suppression does not end it (finish_attempt, suppress_or_dead_letter).
LeaseIsKept ==
    [][\A w \in Workers :
         LET e == task[w].event IN
         (/\ task[w].pc \in {"sign", "persist", "push", "finish"}
          /\ Holds(w) /\ ~rec[e].leaseOver)
           => \/ rec'[e].lease = w
              \/ task'[w].pc = "idle"
              \/ removal = "running"]_vars

\* No pass works under a lease that was granted after the stream had been paused, replaced
\* or revoked (the stream condition of acquire_due's transaction).
LeasedWhileCurrent ==
    \A w \in Workers : task[w].pc \in {"sign", "persist", "push", "finish"} => task[w].current

\* A delivery that has used up the attempts of its cycle, or of all cycles together, is not
\* retried (apply_attempt_result, redrive_delivery).
AttemptsEnd ==
    \A e \in Events :
      rec[e].status \in Active => rec[e].cycle < MaxCycle /\ rec[e].attempts < MaxTotal

\* After the offboarding of the tenant is complete, nothing is deliverable any more.
RemovalIsFinal == removal = "done" => \A e \in Events : rec[e].status \notin Active

\* Two passes never push the same delivery at the same time (DELIVERY_LEASE_SECS is the
\* time limit of a pass).
OnePusher ==
    \A v, w \in Workers :
      (v # w /\ {task[v].pc, task[w].pc} \subseteq {"sign", "persist", "push", "finish"})
        => task[v].event # task[w].event

\* What holds of a delivery; only the last part depends on how long a pass takes.
DeliveryIsSound ==
    /\ OneSet /\ AttemptsEnd /\ LeasedWhileCurrent /\ RemovalIsFinal
    /\ Timely => OnePusher
=============================================================================
