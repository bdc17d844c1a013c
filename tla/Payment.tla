------------------------------ MODULE Payment ------------------------------
(***************************************************************************)
(* The payment resource server (crates/http/src/payment): concurrent       *)
(* request handlers and recovery passes over the intent store, with the    *)
(* payment channel and a clock.                                            *)
(*                                                                         *)
(* A handler is a process; between two of its actions lies an await of the *)
(* code.  Its record holds pc, the operation op, the intent id it works    *)
(* on, cur (its snapshot of that intent), newid/new (the intent a          *)
(* preparation wants to create), step and out (what the compare-and-set    *)
(* loop applies), tries (compare-and-set conflicts so far) and since (the  *)
(* instant the handler read the clock or the channel).                     *)
(*                                                                         *)
(* A dependency error and a crash end a handler the same way: nothing more *)
(* is written (Abort).  The channel is external; its contract is idempotent *)
(* submission and query by key for Retention after it processed the key.   *)
(***************************************************************************)
EXTENDS PaymentExecution, Sequences, FiniteSets

CONSTANTS
    Intents,       \* intent ids that preparation can draw
    Orders,        \* (tenant, payee, order) keys
    Procs,         \* concurrent request handlers
    Workers,       \* recovery passes (reconcile_unsettled)
    None,          \* "no intent"
    Window,        \* max_execute_window_secs
    Retention,     \* idempotency retention promised by the channel
    CallLatency,   \* longest time from a handler's last look to the channel call
    CasAttempts,   \* CAS_ATTEMPTS of the update loop
    Limit,         \* attempts listed by one recovery pass
    InitialStates, \* channel states of a new transaction
    Honest,        \* intents on which the channel never contradicts itself or the terms
    MaxTime,       \* bound: the clock
    MaxVersion,    \* bound: registry changes
    MaxCallbacks,  \* bound: callbacks the channel sends
    MaxFaults      \* bound: aborted handlers, failed and lost calls

ASSUME PaymentAssumption ==
    /\ Orders # {} /\ None \notin Intents
    /\ Window \in Nat \ {0} /\ Retention \in Nat /\ CallLatency \in Nat
    /\ CallLatency < Retention
    /\ CasAttempts \in Nat \ {0} /\ Limit \in Nat \ {0}
    /\ InitialStates \subseteq ChannelState
    /\ {MaxTime, MaxVersion, MaxCallbacks, MaxFaults} \subseteq Nat

VARIABLES
    intents,   \* the store: intent id -> record
    orders,    \* the store: order key -> bound intent id
    approval,  \* Grant carrying the intent's detail: "none", "live", "revoked"
    registry,  \* current version of funding source and payee
    proc,      \* handlers
    queue,     \* what each recovery pass has left to reconcile
    channel,   \* intent id (= idempotency key) -> transactions
    callbacks, \* callbacks in flight
    sent,      \* callbacks sent
    now,       \* the clock
    faults     \* faults so far

vars == <<intents, orders, approval, registry, proc, queue, channel,
          callbacks, sent, now, faults>>
store == <<intents, orders>>
world == <<approval, registry, queue, callbacks, sent, now>>

Agents == Procs \cup Workers

PCs == {"idle", "create", "existing", "compare", "replace", "registry",
        "accept", "submit", "query", "window", "update", "reload", "cancel"}

Ops == {"none", "prepare", "get", "cancel", "execute", "reconcile", "callback"}

Steps == {"none", "expire", "outcome", "review"}

Absent(o) == [PreparedIntent(o, 0, 0, 0) EXCEPT !.status = "absent", !.revision = 0]
NoOrder == CHOOSE o \in Orders : TRUE

Idle == [pc |-> "idle", op |-> "none", id |-> None, cur |-> Absent(NoOrder),
         newid |-> None, new |-> Absent(NoOrder), step |-> "none",
         out |-> Indeterminate, tries |-> 0, since |-> 0]

Transactions == [count : Nat, at : Nat, state : ChannelState]

\* count transactions were created for the key, the last one at instant at.
NoTransaction == [count |-> 0, at |-> 0, state |-> "pending"]

HandlerState ==
    [pc : PCs, op : Ops, id : Intents \cup {None}, cur : IntentRecord(Orders),
     newid : Intents \cup {None}, new : IntentRecord(Orders), step : Steps,
     out : Outcome, tries : Nat, since : Nat]

TypeOK ==
    /\ intents \in [Intents -> IntentRecord(Orders)]
    /\ orders \in [Orders -> Intents \cup {None}]
    /\ approval \in [Intents -> {"none", "live", "revoked"}]
    /\ registry \in Nat
    /\ proc \in [Agents -> HandlerState]
    /\ queue \in [Workers -> Seq(Intents)]
    /\ channel \in [Intents -> Transactions]
    /\ callbacks \subseteq [id : Intents, report : Outcome]
    /\ sent \in Nat /\ now \in Nat /\ faults \in Nat

Init ==
    /\ intents = [i \in Intents |-> Absent(NoOrder)]
    /\ orders = [o \in Orders |-> None]
    /\ approval = [i \in Intents |-> "none"]
    /\ registry = 1
    /\ proc = [p \in Agents |-> Idle]
    /\ queue = [w \in Workers |-> <<>>]
    /\ channel = [i \in Intents |-> NoTransaction]
    /\ callbacks = {}
    /\ sent = 0 /\ now = 0 /\ faults = 0

-----------------------------------------------------------------------------
\* The store and the compare-and-set loop.

Exists(i) == intents[i].status # "absent"

\* Mutant: the guard compares the status only.
CasStatusOnly(i, cur) == intents[i].status = cur.status

\* CasGuard::of(cur) holds on the stored record.
CasHolds(i, cur) ==
    intents[i].revision = cur.revision /\ intents[i].status = cur.status

Goto(p, pc) == proc' = [proc EXCEPT ![p].pc = pc]
Return(p)   == proc' = [proc EXCEPT ![p] = Idle]

\* What update's closure derives from the snapshot.
Derived(p) ==
    CASE proc[p].step = "expire"  -> CloseUnaccepted(proc[p].cur, "expired", now)
      [] proc[p].step = "outcome" -> ApplyOutcome(proc[p].cur, proc[p].out, now)
      [] proc[p].step = "review"  -> FlagForReview(proc[p].cur, now)
      [] OTHER                    -> proc[p].cur

\* Where a handler goes on when update returned record rec.
AfterUpdate(p, rec) ==
    CASE proc[p].op = "prepare" -> [proc[p] EXCEPT !.pc = "compare", !.cur = rec]
      [] proc[p].op = "execute" /\ proc[p].step = "expire" /\ rec.status = "prepared"
             -> [proc[p] EXCEPT !.pc = "registry", !.cur = rec]
      [] OTHER -> Idle

\* The closure has nothing to write.
UpdateNothing(p) ==
    /\ proc[p].pc = "update"
    /\ Derived(p) = proc[p].cur
    /\ proc' = [proc EXCEPT ![p] = AfterUpdate(p, proc[p].cur)]
    /\ UNCHANGED <<store, world, channel, faults>>

\* compare_and_set returns Ok(true).
UpdateWritten(p) ==
    /\ proc[p].pc = "update"
    /\ Derived(p) # proc[p].cur
    /\ CasHolds(proc[p].id, proc[p].cur)
    /\ intents' = [intents EXCEPT ![proc[p].id] = Derived(p)]
    /\ proc' = [proc EXCEPT ![p] = AfterUpdate(p, Derived(p))]
    /\ UNCHANGED <<orders, world, channel, faults>>

\* compare_and_set returns Ok(false).
UpdateConflict(p) ==
    /\ proc[p].pc = "update"
    /\ Derived(p) # proc[p].cur
    /\ ~CasHolds(proc[p].id, proc[p].cur)
    /\ proc' = [proc EXCEPT ![p].pc = "reload", ![p].tries = @ + 1]
    /\ UNCHANGED <<store, world, channel, faults>>

\* The write commits but its answer is lost; the client library repeats the
\* conditional put and reports the failed condition: Ok(false) after a commit.
UpdateAnswerLost(p) ==
    /\ proc[p].pc = "update"
    /\ faults < MaxFaults
    /\ Derived(p) # proc[p].cur
    /\ CasHolds(proc[p].id, proc[p].cur)
    /\ intents' = [intents EXCEPT ![proc[p].id] = Derived(p)]
    /\ proc' = [proc EXCEPT ![p].pc = "reload", ![p].tries = @ + 1]
    /\ faults' = faults + 1
    /\ UNCHANGED <<orders, world, channel>>

\* load after a conflict, then the next round or "payment record is changing".
UpdateReload(p) ==
    /\ proc[p].pc = "reload"
    /\ IF proc[p].tries < CasAttempts
       THEN proc' = [proc EXCEPT ![p].pc = "update",
                                 ![p].cur = intents[proc[p].id]]
       ELSE Return(p)
    /\ UNCHANGED <<store, world, channel, faults>>

-----------------------------------------------------------------------------
\* POST /payments/intents

\* The drawn id is random: neither stored nor drawn by another handler.
Fresh(i) == ~Exists(i) /\ \A p \in Agents : proc[p].newid # i

\* Validation, with the registry versions of this instant frozen in the terms.
PrepareTerms(p, i, o) ==
    /\ proc[p].pc = "idle" /\ Fresh(i)
    /\ \E d \in 1..Window :
         proc' = [proc EXCEPT ![p] =
            [Idle EXCEPT !.pc = "create", !.op = "prepare", !.newid = i,
                         !.new = PreparedIntent(o, now + d, registry, now)]]
    /\ UNCHANGED <<store, world, channel, faults>>

\* store.create(intent, None)
PrepareCreate(p) ==
    LET o == proc[p].new.order IN
    /\ proc[p].pc = "create"
    /\ IF orders[o] = None
       THEN /\ orders' = [orders EXCEPT ![o] = proc[p].newid]
            /\ intents' = [intents EXCEPT ![proc[p].newid] = proc[p].new]
            /\ Return(p)
       ELSE /\ proc' = [proc EXCEPT ![p].pc = "existing", ![p].id = orders[o]]
            /\ UNCHANGED store
    /\ UNCHANGED <<world, channel, faults>>

\* load the bound intent, expire_if_due
PrepareExisting(p) ==
    LET cur == intents[proc[p].id]
        due == cur.status = "prepared" /\ EffectiveStatus(cur, now) = "expired"
    IN
    /\ proc[p].pc = "existing"
    /\ proc' = [proc EXCEPT ![p].cur = cur,
                            ![p].step = IF due THEN "expire" ELSE "none",
                            ![p].pc = IF due THEN "update" ELSE "compare"]
    /\ UNCHANGED <<store, world, channel, faults>>

\* Identical terms answer 200; only a replaceable intent goes on.
PrepareCompare(p) ==
    /\ proc[p].pc = "compare"
    /\ IF ~SameTerms(proc[p].cur, proc[p].new) /\ IsReplaceable(proc[p].cur)
       THEN Goto(p, "replace")
       ELSE Return(p)
    /\ UNCHANGED <<store, world, channel, faults>>

\* store.create(intent, Some(existing)): the order moves only if it is still
\* bound to that intent and the stored intent is still replaceable.
PrepareReplace(p) ==
    LET o == proc[p].new.order IN
    /\ proc[p].pc = "replace"
    /\ IF orders[o] = proc[p].id /\ IsReplaceable(intents[proc[p].id])
       THEN /\ orders' = [orders EXCEPT ![o] = proc[p].newid]
            /\ intents' = [intents EXCEPT ![proc[p].newid] = proc[p].new]
       ELSE UNCHANGED store
    /\ Return(p)
    /\ UNCHANGED <<world, channel, faults>>

-----------------------------------------------------------------------------
\* GET /payments/intents/{id}: expire_if_due is its only write.

GetIntent(p, i) ==
    /\ proc[p].pc = "idle" /\ Exists(i)
    /\ intents[i].status = "prepared"
    /\ EffectiveStatus(intents[i], now) = "expired"
    /\ proc' = [proc EXCEPT ![p] =
          [Idle EXCEPT !.pc = "update", !.op = "get", !.id = i,
                       !.cur = intents[i], !.step = "expire"]]
    /\ UNCHANGED <<store, world, channel, faults>>

\* POST /payments/intents/{id}/cancel: one compare-and-set, no retry.

CancelLoad(p, i) ==
    /\ proc[p].pc = "idle"
    /\ CloseUnaccepted(intents[i], "cancelled", now) # intents[i]
    /\ proc' = [proc EXCEPT ![p] =
          [Idle EXCEPT !.pc = "cancel", !.op = "cancel", !.id = i,
                       !.cur = intents[i], !.since = now]]
    /\ UNCHANGED <<store, world, channel, faults>>

CancelWrite(p) ==
    /\ proc[p].pc = "cancel"
    /\ IF CasHolds(proc[p].id, proc[p].cur)
       THEN intents' = [intents EXCEPT ![proc[p].id] =
                          CloseUnaccepted(proc[p].cur, "cancelled", proc[p].since)]
       ELSE UNCHANGED intents
    /\ Return(p)
    /\ UNCHANGED <<orders, world, channel, faults>>

-----------------------------------------------------------------------------
\* POST /payments/intents/{id}/execute

\* authenticate and authorize against a live Grant, load, expire_if_due.  An
\* intent with an attempt is returned as it is and a closed one is a conflict.
ExecuteAuthorize(p, i) ==
    /\ proc[p].pc = "idle" /\ approval[i] = "live"
    /\ intents[i].status = "prepared" /\ ~intents[i].attempt
    /\ LET due == EffectiveStatus(intents[i], now) = "expired" IN
       proc' = [proc EXCEPT ![p] =
          [Idle EXCEPT !.op = "execute", !.id = i, !.cur = intents[i],
                       !.step = IF due THEN "expire" ELSE "none",
                       !.pc = IF due THEN "update" ELSE "registry"]]
    /\ UNCHANGED <<store, world, channel, faults>>

\* registry_terms_are_current, then accept at the clock's reading.
ExecuteRegistry(p) ==
    /\ proc[p].pc = "registry"
    /\ IF proc[p].cur.version = registry /\ Acceptable(proc[p].cur, now)
       THEN proc' = [proc EXCEPT ![p].pc = "accept", ![p].since = now]
       ELSE Return(p)
    /\ UNCHANGED <<store, world, channel, faults>>

\* Mutant: the loser of the acceptance calls the channel all the same.
ExecuteAcceptLoserSubmits(p) ==
    /\ proc[p].pc = "accept"
    /\ IF CasHolds(proc[p].id, proc[p].cur)
       THEN intents' = [intents EXCEPT ![proc[p].id] =
                          Accept(proc[p].cur, Retention, proc[p].since)]
       ELSE UNCHANGED intents
    /\ Goto(p, "submit")
    /\ UNCHANGED <<orders, world, channel, faults>>

\* The conditional acceptance: CasGuard::accepting(cur, since).  A handler
\* that loses reports the persisted record and calls nothing.
ExecuteAccept(p) ==
    /\ proc[p].pc = "accept"
    /\ IF /\ CasHolds(proc[p].id, proc[p].cur)
          /\ proc[p].since < intents[proc[p].id].before
       THEN LET accepted == Accept(proc[p].cur, Retention, proc[p].since) IN
            /\ intents' = [intents EXCEPT ![proc[p].id] = accepted]
            /\ proc' = [proc EXCEPT ![p].pc = "submit", ![p].cur = accepted]
       ELSE Return(p) /\ UNCHANGED intents
    /\ UNCHANGED <<orders, world, channel, faults>>

-----------------------------------------------------------------------------
\* Recovery: reconcile_intent

ReconcileLoad(p, i) ==
    /\ proc[p].pc = "idle"
    /\ intents[i].status \in Unsettled /\ intents[i].attempt
    /\ proc' = [proc EXCEPT ![p] =
          [Idle EXCEPT !.pc = "query", !.op = "reconcile", !.id = i,
                       !.cur = intents[i]]]

\* POST /payments/intents/{id}/reconcile
Reconcile(p, i) ==
    /\ ReconcileLoad(p, i)
    /\ UNCHANGED <<store, world, channel, faults>>

\* The channel still knows the key.
Remembered(i) == channel[i].count > 0 /\ now < channel[i].at + Retention

Report(i) == [state |-> channel[i].state, txn |-> channel[i].count, ok |-> TRUE]

QueryFound(p) ==
    /\ proc[p].pc = "query" /\ Remembered(proc[p].id)
    /\ proc' = [proc EXCEPT ![p].pc = "update", ![p].step = "outcome",
                            ![p].out = Report(proc[p].id)]
    /\ UNCHANGED <<store, world, channel, faults>>

QueryNotFound(p) ==
    /\ proc[p].pc = "query" /\ ~Remembered(proc[p].id)
    /\ proc' = [proc EXCEPT ![p].pc = "window", ![p].since = now]
    /\ UNCHANGED <<store, world, channel, faults>>

\* Mutant: "no such transaction" always allows resubmission.
WindowUnchecked(p) ==
    /\ proc[p].pc = "window"
    /\ Goto(p, "submit")
    /\ UNCHANGED <<store, world, channel, faults>>

\* Mutant: outside the window the attempt is left alone.
WindowClosedForgotten(p) ==
    /\ proc[p].pc = "window"
    /\ IF now < proc[p].cur.expires THEN Goto(p, "submit") ELSE Return(p)
    /\ UNCHANGED <<store, world, channel, faults>>

\* Resubmission only inside the idempotency window, otherwise manual review.
WindowCheck(p) ==
    /\ proc[p].pc = "window"
    /\ IF now < proc[p].cur.expires
       THEN Goto(p, "submit")
       ELSE proc' = [proc EXCEPT ![p].pc = "update", ![p].step = "review"]
    /\ UNCHANGED <<store, world, channel, faults>>

-----------------------------------------------------------------------------
\* adapter.submit: the channel creates a transaction unless it knows the key.

Processed(i, s) ==
    IF Remembered(i) THEN channel[i]
    ELSE [count |-> channel[i].count + 1, at |-> now, state |-> s]

Submitted(p, out) ==
    proc' = [proc EXCEPT ![p].pc = "update", ![p].step = "outcome", ![p].out = out]

SubmitAnswered(p, s) ==
    LET i == proc[p].id IN
    /\ proc[p].pc = "submit"
    /\ channel' = [channel EXCEPT ![i] = Processed(i, s)]
    /\ Submitted(p, [state |-> channel'[i].state, txn |-> channel'[i].count, ok |-> TRUE])
    /\ UNCHANGED <<store, world, faults>>

\* The channel processed the request and its answer was lost.
SubmitAnswerLost(p, s) ==
    LET i == proc[p].id IN
    /\ proc[p].pc = "submit" /\ faults < MaxFaults
    /\ channel' = [channel EXCEPT ![i] = Processed(i, s)]
    /\ Submitted(p, Indeterminate)
    /\ faults' = faults + 1
    /\ UNCHANGED <<store, world>>

\* The request never reached the channel.
SubmitLost(p) ==
    /\ proc[p].pc = "submit" /\ faults < MaxFaults
    /\ Submitted(p, Indeterminate)
    /\ faults' = faults + 1
    /\ UNCHANGED <<store, world, channel>>

-----------------------------------------------------------------------------
\* reconcile_unsettled: list oldest first, then reconcile one by one.

UnsettledIntents == {i \in Intents : intents[i].status \in Unsettled}

\* A list list_unsettled may return: sorted by updated_at, cut at Limit.
IsOldest(list) ==
    LET listed == {list[k] : k \in DOMAIN list} IN
    /\ listed \subseteq UnsettledIntents
    /\ Len(list) = Cardinality(listed)
    /\ Len(list) = Limit \/ (Len(list) < Limit /\ listed = UnsettledIntents)
    /\ \A j, k \in DOMAIN list :
         j < k => intents[list[j]].updated <= intents[list[k]].updated
    /\ \A i \in listed, j \in UnsettledIntents \ listed :
         intents[i].updated <= intents[j].updated

WorkerList(w) ==
    /\ proc[w].pc = "idle" /\ queue[w] = <<>>
    /\ \E n \in 1..Cardinality(UnsettledIntents) :
         \E list \in [1..n -> UnsettledIntents] :
            IsOldest(list) /\ queue' = [queue EXCEPT ![w] = list]
    /\ UNCHANGED <<store, approval, registry, proc, channel, callbacks, sent,
                   now, faults>>

\* The next listed attempt; one that settled meanwhile is returned unchanged.
WorkerNext(w) ==
    /\ proc[w].pc = "idle" /\ queue[w] # <<>>
    /\ queue' = [queue EXCEPT ![w] = Tail(@)]
    /\ \/ ReconcileLoad(w, Head(queue[w]))
       \/ intents[Head(queue[w])].status \notin Unsettled /\ UNCHANGED proc
    /\ UNCHANGED <<store, approval, registry, channel, callbacks, sent, now, faults>>

-----------------------------------------------------------------------------
\* POST /payments/channel/callback, after signature verification.  A callback
\* for an intent without an attempt is rejected.

CallbackLoad(p, m) ==
    /\ proc[p].pc = "idle" /\ m \in callbacks
    /\ callbacks' = callbacks \ {m}
    /\ IF intents[m.id].attempt
       THEN proc' = [proc EXCEPT ![p] =
              [Idle EXCEPT !.pc = "update", !.op = "callback", !.id = m.id,
                           !.cur = intents[m.id], !.step = "outcome",
                           !.out = m.report]]
       ELSE UNCHANGED proc
    /\ UNCHANGED <<store, approval, registry, queue, channel, sent, now, faults>>

-----------------------------------------------------------------------------
\* The channel (external).

ChannelSettle(i, s) ==
    /\ channel[i].count > 0 /\ channel[i].state # s /\ s # "pending"
    /\ i \in Honest => channel[i].state = "pending"
    /\ channel' = [channel EXCEPT ![i].state = s]
    /\ UNCHANGED <<store, world, proc, faults>>

\* A callback about the current state; a dishonest one may name other terms.
ChannelCallback(i, ok) ==
    /\ channel[i].count > 0 /\ sent < MaxCallbacks
    /\ i \in Honest => ok
    /\ callbacks' = callbacks \cup {[id |-> i, report |-> [Report(i) EXCEPT !.ok = ok]]}
    /\ sent' = sent + 1
    /\ UNCHANGED <<store, approval, registry, proc, queue, channel, now, faults>>

-----------------------------------------------------------------------------
\* The rest of the world.

\* consent::admit and the user's decision: a Grant for exactly this intent.
Approve(i) ==
    /\ approval[i] = "none"
    /\ EffectiveStatus(intents[i], now) = "prepared"
    /\ intents[i].version = registry
    /\ approval' = [approval EXCEPT ![i] = "live"]
    /\ UNCHANGED <<store, registry, proc, queue, channel, callbacks, sent, now, faults>>

\* The Grant is revoked or expires, or its user is disabled.
Revoke(i) ==
    /\ approval[i] = "live"
    /\ approval' = [approval EXCEPT ![i] = "revoked"]
    /\ UNCHANGED <<store, registry, proc, queue, channel, callbacks, sent, now, faults>>

RegistryChange ==
    /\ registry < MaxVersion
    /\ registry' = registry + 1
    /\ UNCHANGED <<store, approval, proc, queue, channel, callbacks, sent, now, faults>>

\* A crash, or an error of the store, the registry or the authority: the
\* handler ends with 503 (or nothing) and writes no more.
Abort(p) ==
    /\ proc[p].pc # "idle" /\ faults < MaxFaults
    /\ Return(p)
    /\ faults' = faults + 1
    /\ UNCHANGED <<store, world, channel>>

\* No handler stays longer than CallLatency between its clock reading or
\* query and the channel call that follows from it.
Urgent(p) ==
    /\ proc[p].pc \in {"accept", "window", "submit"}
    /\ now >= proc[p].since + CallLatency

Tick ==
    /\ now < MaxTime
    /\ \A p \in Agents : ~Urgent(p)
    /\ now' = now + 1
    /\ UNCHANGED <<store, approval, registry, proc, queue, channel, callbacks,
                   sent, faults>>

-----------------------------------------------------------------------------
\* Continuation of a handler that has started.
Continue(p) ==
    \/ UpdateNothing(p) \/ UpdateWritten(p) \/ UpdateConflict(p) \/ UpdateReload(p)
    \/ PrepareCreate(p) \/ PrepareExisting(p) \/ PrepareCompare(p) \/ PrepareReplace(p)
    \/ CancelWrite(p)
    \/ ExecuteRegistry(p) \/ ExecuteAccept(p)
    \/ QueryFound(p) \/ QueryNotFound(p) \/ WindowCheck(p)
    \/ \E s \in InitialStates : SubmitAnswered(p, s)

Fault(p) ==
    \/ UpdateAnswerLost(p) \/ SubmitLost(p) \/ Abort(p)
    \/ \E s \in InitialStates : SubmitAnswerLost(p, s)

Request(p) ==
    \/ \E i \in Intents, o \in Orders : PrepareTerms(p, i, o)
    \/ \E i \in Intents :
          GetIntent(p, i) \/ CancelLoad(p, i) \/ ExecuteAuthorize(p, i) \/ Reconcile(p, i)
    \/ \E m \in callbacks : CallbackLoad(p, m)

Environment ==
    \/ \E i \in Intents, s \in ChannelState : ChannelSettle(i, s)
    \/ \E i \in Intents, ok \in BOOLEAN : ChannelCallback(i, ok)
    \/ \E i \in Intents : Approve(i) \/ Revoke(i)
    \/ RegistryChange \/ Tick

Next ==
    \/ \E p \in Agents : Continue(p) \/ Fault(p)
    \/ \E p \in Procs : Request(p)
    \/ \E w \in Workers : WorkerList(w) \/ WorkerNext(w)
    \/ Environment

Spec == Init /\ [][Next]_vars

-----------------------------------------------------------------------------
\* Correctness

\* Concurrent executes, retries, recovery and re-preparation of one order
\* together create at most one channel transaction, although the channel
\* forgets a key after Retention (execute.rs, recovery.rs, store.rs).
OneChargePerOrder ==
    \A i, j \in Intents :
        /\ channel[i].count <= 1
        /\ /\ channel[i].count > 0 /\ channel[j].count > 0
           /\ intents[i].order = intents[j].order
           => i = j

\* The order key of an accepted intent is never moved to another intent, so
\* an accepted or unknown order cannot be bypassed (PaymentStore::create).
AcceptedOwnsOrder ==
    \A i \in Intents : intents[i].attempt => orders[intents[i].order] = i

\* The channel is only ever called for an accepted intent the payer approved,
\* whatever happened to the Grant, the deadline or the order since.
ChargeWasAccepted ==
    \A i \in Intents :
        channel[i].count > 0 =>
            /\ intents[i].attempt /\ approval[i] # "none"
            /\ intents[i].status \in Unsettled \cup Settled

\* Where the channel keeps to its contract the recorded final result is the
\* channel's: a timeout, an expiry or a lost answer never becomes a failure
\* (apply_outcome).
SettlesTruthfully ==
    \A i \in Intents \cap Honest :
        /\ intents[i].status = "succeeded" => channel[i].state = "succeeded"
        /\ intents[i].status = "failed" => channel[i].state = "declined"
        /\ intents[i].status \in Settled => channel[i].count > 0

\* Evidence that contradicts the recorded result, or that speaks of another
\* transaction, has put the attempt under review.
ContradictionIsFlagged ==
    \A i \in Intents : \A e \in intents[i].evidence :
        \/ intents[i].status = "succeeded" /\ e[1] = "declined"
        \/ intents[i].status = "failed" /\ e[1] = "succeeded"
        \/ e[1] # "none" /\ e[2] # intents[i].txn
        => intents[i].review

\* A concurrent callback or recovery is never overwritten: what was recorded
\* stays, and a closed or settled intent keeps its status (recovery::update).
RecordOnlyGrows ==
    [][\A i \in Intents :
         LET old == intents[i]  new == intents'[i] IN
         /\ old.status \in Settled \cup Closed => new.status = old.status
         /\ old.evidence \subseteq new.evidence
         /\ old.review => new.review
         /\ old.txn # 0 => new.txn = old.txn
         /\ old.attempt => new.attempt /\ new.expires = old.expires]_vars

\* Weak fairness: a started handler goes on, the recovery pass is scheduled
\* and the channel settles what it received.  Faults are bounded by MaxFaults.
Fairness ==
    /\ \A p \in Agents : WF_vars(Continue(p))
    /\ \A w \in Workers : WF_vars(WorkerList(w)) /\ WF_vars(WorkerNext(w))
    /\ \A i \in Intents : WF_vars(\E s \in ChannelState : ChannelSettle(i, s))
    /\ WF_vars(Tick)

FairSpec == Spec /\ Fairness

\* Every accepted attempt reaches a channel-final result or an operator.
AttemptResolved ==
    \A i \in Intents :
        intents[i].status \in Unsettled ~>
            (intents[i].status \in Settled \/ intents[i].review)
=============================================================================
