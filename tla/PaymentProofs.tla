--------------------------- MODULE PaymentProofs ---------------------------
(***************************************************************************)
(* Theorems about Payment, for every number of intents, orders, handlers   *)
(* and recovery passes and every value of the bounds.                      *)
(***************************************************************************)
EXTENDS Payment, TLAPS

\* PaymentIntent::next maps records to records.
LEMMA NextRevisionType ==
    ASSUME NEW S, NEW r \in IntentRecord(S), NEW t \in Nat,
           NEW to \in PaymentStatus \cup {"absent"}
    PROVE  NextRevision(r, to, t) \in IntentRecord(S)
<1>1. r.revision + 1 \in Nat
  BY DEF IntentRecord
<1> QED BY <1>1 DEF IntentRecord, NextRevision

\* The functions of execution.rs map records to records.
LEMMA RecordTypes ==
    ASSUME NEW S, NEW r \in IntentRecord(S), NEW t \in Nat, NEW d \in Nat,
           NEW to \in Closed, NEW out \in Outcome
    PROVE  /\ Accept(r, d, t) \in IntentRecord(S)
           /\ CloseUnaccepted(r, to, t) \in IntentRecord(S)
           /\ FlagForReview(r, t) \in IntentRecord(S)
           /\ ApplyOutcome(r, out, t) \in IntentRecord(S)
<1> DEFINE N(s) == NextRevision(r, s, t)
<1>0. /\ \A s \in PaymentStatus \cup {"absent"} : N(s) \in IntentRecord(S)
      /\ r.status \in PaymentStatus \cup {"absent"}
      /\ {"accepted", "unknown", "pending", "succeeded", "failed"} \subseteq PaymentStatus
      /\ to \in PaymentStatus
  BY NextRevisionType
     DEF IntentRecord, PaymentStatus, Unsettled, Settled, Closed
<1>1. Accept(r, d, t) \in IntentRecord(S)
  <2>1. t + d \in Nat
    OBVIOUS
  <2> QED BY <1>0, <2>1 DEF Accept, IntentRecord
<1>2. CloseUnaccepted(r, to, t) \in IntentRecord(S)
  BY <1>0 DEF CloseUnaccepted
<1>3. FlagForReview(r, t) \in IntentRecord(S)
  BY <1>0 DEF FlagForReview, IntentRecord
<1>4. ASSUME NEW q \in IntentRecord(S), NEW e \in Evidence
      PROVE  [q EXCEPT !.evidence = @ \cup {e}] \in IntentRecord(S)
  BY DEF IntentRecord
<1>5. ApplyOutcome(r, out, t) \in IntentRecord(S)
  <2>1. ApplyIndeterminate(r, t) \in IntentRecord(S)
    <3>1. <<"none", 0, "indeterminate">> \in Evidence
      BY DEF Evidence, Disposition
    <3> QED BY <1>0, <1>4, <3>1 DEF ApplyIndeterminate, WithEvidence
  <2>2. CASE out.state # "none"
    <3>1. out.state \in ChannelState /\ out.txn \in Nat
      BY <2>2 DEF Outcome
    <3>2. ASSUME NEW d1 \in Disposition PROVE <<out.state, out.txn, d1>> \in Evidence
      BY <3>1 DEF Evidence
    <3>3. ApplyMismatch(r, out, t) \in IntentRecord(S)
      <4>1. <<out.state, out.txn, "mismatch">> \in Evidence
        BY <3>2 DEF Disposition
      <4> QED BY <1>0, <1>4, <4>1 DEF ApplyMismatch, WithEvidence, IntentRecord
    <3>4. TargetStatus(out.state) \in PaymentStatus
      BY <3>1, <1>0 DEF TargetStatus, ChannelState
    <3>5. ApplyReport(r, out, t) \in IntentRecord(S)
      <4> DEFINE target == TargetStatus(out.state)
                 disp   == DispositionOf(r.status, target)
                 goal   == IF disp = "applied" THEN target ELSE r.status
                 w      == WithEvidence(N(goal), out.state, out.txn, disp)
      <4>1. disp \in Disposition \cup {"none"}
        BY DEF DispositionOf, Disposition
      <4>2. N(goal) \in IntentRecord(S)
        BY <1>0, <3>4
      <4>3. CASE disp # "none"
        <5>1. w \in IntentRecord(S)
          BY <4>1, <4>2, <4>3, <1>4, <3>2 DEF WithEvidence
        <5>2. [w EXCEPT !.txn = IF @ = 0 THEN out.txn ELSE @,
                        !.review = @ \/ disp = "conflict"] \in IntentRecord(S)
          BY <5>1, <3>1 DEF IntentRecord
        <5> QED BY <5>2 DEF ApplyReport
      <4>4. CASE disp = "none"
        BY <4>4 DEF ApplyReport
      <4> QED BY <4>3, <4>4
    <3> QED BY <2>1, <3>3, <3>5 DEF ApplyOutcome
  <2> QED BY <2>1, <2>2 DEF ApplyOutcome
<1> QED BY <1>1, <1>2, <1>3, <1>5

-----------------------------------------------------------------------------

\* The records the specification starts from are well typed.
LEMMA ConstantTypes ==
    /\ NoOrder \in Orders
    /\ \A o \in Orders : Absent(o) \in IntentRecord(Orders)
    /\ \A o \in Orders : \A b, v, t \in Nat :
          PreparedIntent(o, b, v, t) \in IntentRecord(Orders)
    /\ Indeterminate \in Outcome
    /\ Idle \in HandlerState
    /\ NoTransaction \in Transactions
<1>1. NoOrder \in Orders
  BY PaymentAssumption DEF NoOrder
<1>2. ASSUME NEW o \in Orders, NEW b \in Nat, NEW v \in Nat, NEW t \in Nat
      PROVE  PreparedIntent(o, b, v, t) \in IntentRecord(Orders)
  BY DEF PreparedIntent, IntentRecord, PaymentStatus
<1>3. ASSUME NEW o \in Orders PROVE Absent(o) \in IntentRecord(Orders)
  BY DEF Absent, PreparedIntent, IntentRecord
<1>4. Indeterminate \in Outcome
  BY DEF Indeterminate, Outcome
<1>5. Idle \in HandlerState
  BY <1>1, <1>3, <1>4 DEF Idle, HandlerState, PCs, Ops, Steps
<1>6. NoTransaction \in Transactions
  BY DEF NoTransaction, Transactions, ChannelState
<1> QED BY <1>1, <1>2, <1>3, <1>4, <1>5, <1>6

\* The empty store and channel of Init are well typed.
LEMMA TypeInit == Init => TypeOK
BY ConstantTypes DEF Init, TypeOK, Agents

\* What update's closure derives, and where it leads, is well typed.
LEMMA DerivedType ==
    ASSUME TypeOK, NEW p \in Agents
    PROVE  /\ Derived(p) \in IntentRecord(Orders)
           /\ \A rec \in IntentRecord(Orders) : AfterUpdate(p, rec) \in HandlerState
<1>0. proc[p] \in HandlerState /\ now \in Nat
  BY DEF TypeOK
<1>1. proc[p].cur \in IntentRecord(Orders) /\ proc[p].out \in Outcome /\ "expired" \in Closed
  BY <1>0 DEF HandlerState, Closed
<1>2. /\ CloseUnaccepted(proc[p].cur, "expired", now) \in IntentRecord(Orders)
      /\ FlagForReview(proc[p].cur, now) \in IntentRecord(Orders)
      /\ ApplyOutcome(proc[p].cur, proc[p].out, now) \in IntentRecord(Orders)
  BY <1>0, <1>1, RecordTypes
<1>3. Derived(p) \in IntentRecord(Orders)
  BY <1>1, <1>2 DEF Derived
<1>4. ASSUME NEW rec \in IntentRecord(Orders) PROVE AfterUpdate(p, rec) \in HandlerState
  BY <1>0, ConstantTypes DEF AfterUpdate, HandlerState, PCs
<1> QED BY <1>3, <1>4

-----------------------------------------------------------------------------
(***************************************************************************)
(* The inductive invariant.                                                *)
(*                                                                         *)
(* OneChargePerOrder is not inductive: it needs that a compare-and-set on  *)
(* a revision is a compare-and-set on the whole record (Snapshot), that a  *)
(* live intent owns its order (LiveOwnsOrder), that only accepted intents  *)
(* reach the channel (Accepted) and that a handler about to submit has     *)
(* looked recently enough for the channel to remember what others did      *)
(* since (Timely).                                                         *)
(***************************************************************************)

\* The handler's ids are bound where its next action uses them.
Bound(p) ==
    /\ proc[p].pc = "create" => proc[p].op = "prepare"
    /\ proc[p].pc \notin {"idle", "create"} \/ proc[p].op = "execute" =>
          proc[p].id \in Intents
    /\ \/ proc[p].pc \in {"create", "existing", "compare", "replace"}
       \/ proc[p].op = "prepare"
       => proc[p].newid \in Intents

\* The attempt exists exactly in the statuses after acceptance.
WellFormed(r) ==
    /\ r.status = "absent" <=> r.revision = 0
    /\ r.attempt <=> r.status \in Unsettled \cup Settled

\* A candidate of prepare is not stored yet and belongs to one handler.
Candidate(p) ==
    proc[p].newid \in Intents =>
        /\ ~Exists(proc[p].newid)
        /\ proc[p].new.status = "prepared" /\ proc[p].new.revision = 1
        /\ ~proc[p].new.attempt
        /\ \A q \in Agents : proc[q].newid = proc[p].newid => q = p

\* The statuses in which cur is the record the handler has loaded.
Loaded(p) == proc[p].pc \notin {"idle", "create", "existing"}

\* A snapshot with the stored revision is the stored record; an older one
\* agrees with it on everything that never changes.
Snapshot(p) ==
    LET i == proc[p].id  cur == proc[p].cur IN
    /\ proc[p].pc \notin {"idle", "create"} => Exists(i)
    /\ Loaded(p) =>
         /\ WellFormed(cur) /\ cur.revision >= 1
         /\ cur.revision <= intents[i].revision
         /\ cur.revision = intents[i].revision => cur = intents[i]
         /\ cur.attempt => intents[i].attempt /\ intents[i].expires = cur.expires

\* What a handler knows when it may accept or call the channel.
Entitled(p) ==
    /\ proc[p].op = "execute" => approval[proc[p].id] # "none"
    /\ proc[p].pc \in {"registry", "accept"} =>
          proc[p].op = "execute" /\ ~proc[p].cur.attempt
    /\ proc[p].pc = "accept" => proc[p].cur.status = "prepared"
    /\ proc[p].pc \in {"query", "window", "submit"} => proc[p].cur.attempt

\* Whatever the channel did for the key after the handler last looked, it
\* still remembers when the handler's submission arrives.
Timely(p) ==
    LET c == channel[proc[p].id] IN
    /\ proc[p].pc \in {"accept", "window", "submit"} =>
          proc[p].since <= now /\ now <= proc[p].since + CallLatency
    /\ proc[p].pc = "window" /\ c.count > 0 =>
          proc[p].since <= c.at \/ proc[p].cur.expires <= proc[p].since
    /\ proc[p].pc = "submit" /\ c.count > 0 => proc[p].since <= c.at

\* Order keys: a bound intent exists and carries the order, and an intent that
\* is prepared or accepted is bound.
LiveOwnsOrder ==
    /\ \A o \in Orders : orders[o] # None =>
          Exists(orders[o]) /\ intents[orders[o]].order = o
    /\ \A i \in Intents :
          intents[i].status \notin Closed \cup {"absent"} => orders[intents[i].order] = i

\* An attempt was approved; the channel knows only attempts, at most one
\* transaction each, processed after the acceptance.
Accepted(i) ==
    /\ WellFormed(intents[i])
    /\ intents[i].attempt =>
          approval[i] # "none" /\ intents[i].expires <= now + Retention
    /\ channel[i].count <= 1
    /\ channel[i].count > 0 =>
          /\ intents[i].attempt
          /\ channel[i].at <= now /\ intents[i].expires <= channel[i].at + Retention

IInv ==
    /\ TypeOK
    /\ \A p \in Agents :
          Bound(p) /\ Candidate(p) /\ Snapshot(p) /\ Entitled(p) /\ Timely(p)
    /\ LiveOwnsOrder
    /\ \A i \in Intents : Accepted(i)

-----------------------------------------------------------------------------

\* The five facts about one handler.
HandlerInv(p) ==
    Bound(p) /\ Candidate(p) /\ Snapshot(p) /\ Entitled(p) /\ Timely(p)

\* What one write may do to a stored record.
Succeeds(r, q) ==
    /\ q.revision = r.revision + 1 /\ q.order = r.order /\ WellFormed(q)
    /\ r.attempt => q.attempt /\ q.expires = r.expires
    /\ q.status \notin Closed => r.status \notin Closed \cup {"absent"}

\* No other handler moves.
OnlyHandler(p) == \A z \in Agents : z # p => proc'[z] = proc[z]

\* A handler that returns knows nothing and owes nothing.
LEMMA IdleHandler ==
    ASSUME NEW p \in Agents, proc' = [proc EXCEPT ![p] = Idle], TypeOK
    PROVE  HandlerInv(p)'
BY PaymentAssumption
   DEF TypeOK, HandlerInv, Bound, Candidate, Snapshot, Loaded, Entitled, Timely, Idle

\* A step that changes one handler and nothing another one depends on.
LEMMA LocalStep ==
    ASSUME IInv, NEW p \in Agents, OnlyHandler(p),
           UNCHANGED <<intents, orders, approval, channel, now>>,
           TypeOK', HandlerInv(p)'
    PROVE  IInv'
<1>1. ASSUME NEW q \in Agents, q # p
      PROVE  (Bound(q) /\ Snapshot(q) /\ Entitled(q) /\ Timely(q))'
  <2>1. proc'[q] = proc[q]
    BY <1>1 DEF OnlyHandler, IInv, TypeOK
  <2> QED BY <2>1, <1>1
       DEF IInv, Bound, Snapshot, Loaded, Entitled, Timely, Exists
<1>2. ASSUME NEW q \in Agents, q # p PROVE Candidate(q)'
  <2>1. proc'[q] = proc[q] /\ \A z \in Agents : z # p => proc'[z] = proc[z]
    BY <1>2 DEF OnlyHandler, IInv, TypeOK
  <2>2. Candidate(q) /\ Candidate(p)'
    BY <1>2 DEF IInv, HandlerInv
  <2> QED BY <2>1, <2>2, <1>2 DEF Candidate, Exists
<1>3. LiveOwnsOrder' /\ \A i \in Intents : Accepted(i)'
  BY DEF IInv, LiveOwnsOrder, Accepted, Exists
<1> QED BY <1>1, <1>2, <1>3 DEF IInv, HandlerInv

\* A step that writes a successor of the stored record.
LEMMA WriteStep ==
    ASSUME IInv, NEW p \in Agents, OnlyHandler(p),
           NEW i \in Intents, NEW q \in IntentRecord(Orders),
           Exists(i), Succeeds(intents[i], q),
           q.attempt => intents[i].attempt
                        \/ (approval[i] # "none" /\ q.expires <= now + Retention),
           intents' = [intents EXCEPT ![i] = q],
           UNCHANGED <<orders, approval, channel, now>>,
           TypeOK', HandlerInv(p)'
    PROVE  IInv'
<1>0. /\ intents'[i] = q
      /\ \A j \in Intents : j # i => intents'[j] = intents[j]
      /\ intents[i] \in IntentRecord(Orders)
      /\ intents[i].revision \in Nat
  BY DEF IInv, TypeOK, IntentRecord
<1>1. ASSUME NEW z \in Agents, z # p
      PROVE  (Bound(z) /\ Entitled(z) /\ Timely(z))'
  <2>1. proc'[z] = proc[z]
    BY <1>1 DEF OnlyHandler, IInv, TypeOK
  <2> QED BY <2>1, <1>1 DEF IInv, Bound, Entitled, Timely
<1>2. q.status # "absent"
  BY <1>0 DEF Succeeds, WellFormed
<1>3. ASSUME NEW z \in Agents, z # p PROVE Candidate(z)'
  <2>1. proc'[z] = proc[z] /\ \A y \in Agents : y # p => proc'[y] = proc[y]
    BY <1>3 DEF OnlyHandler, IInv, TypeOK
  <2>2. Candidate(z) /\ Candidate(p)'
    BY <1>3 DEF IInv, HandlerInv
  <2> QED BY <1>0, <2>1, <2>2, <1>3 DEF Candidate, Exists
<1>4. ASSUME NEW z \in Agents, z # p PROVE Snapshot(z)'
  <2>1. proc'[z] = proc[z] /\ Snapshot(z) /\ Bound(z)
    BY <1>4 DEF OnlyHandler, IInv, TypeOK
  <2>2. proc[z].cur \in IntentRecord(Orders)
    BY DEF IInv, TypeOK, HandlerState
  <2>3. proc[z].cur.revision \in Nat
    BY <2>2 DEF IntentRecord
  <2>4. CASE proc[z].pc \in {"idle", "create"}
    BY <2>1, <2>4 DEF Snapshot, Loaded
  <2>5. CASE proc[z].pc \notin {"idle", "create"} /\ proc[z].id # i
    BY <1>0, <2>1, <2>5 DEF Snapshot, Loaded, Exists, Bound
  <2>6. CASE proc[z].pc \notin {"idle", "create"} /\ proc[z].id = i
    BY <1>0, <1>2, <2>1, <2>3, <2>6 DEF Snapshot, Loaded, Exists, Succeeds
  <2> QED BY <2>4, <2>5, <2>6
<1>5. LiveOwnsOrder'
  BY <1>0, <1>2 DEF IInv, LiveOwnsOrder, Exists, Succeeds
<1>6. ASSUME NEW j \in Intents PROVE Accepted(j)'
  <2>1. CASE j # i
    BY <1>0, <2>1 DEF IInv, Accepted
  <2>2. CASE j = i
    BY <1>0, <2>2 DEF IInv, Accepted, Succeeds
  <2> QED BY <2>1, <2>2
<1> QED BY <1>1, <1>3, <1>4, <1>5, <1>6 DEF IInv, HandlerInv

\* A step that stores a prepared candidate and binds its order, which was free
\* or belonged to a replaceable intent.
LEMMA CreateStep ==
    ASSUME IInv, NEW p \in Agents, NEW i, NEW o, NEW n,
           i = proc[p].newid, n = proc[p].new, o = n.order,
           i \in Intents, o \in Orders,
           orders[o] = None \/ IsReplaceable(intents[orders[o]]),
           orders' = [orders EXCEPT ![o] = i],
           intents' = [intents EXCEPT ![i] = n],
           proc' = [proc EXCEPT ![p] = Idle],
           UNCHANGED <<approval, channel, now>>, TypeOK'
    PROVE  IInv'
<1>0. /\ intents'[i] = n /\ \A j \in Intents : j # i => intents'[j] = intents[j]
      /\ orders'[o] = i /\ \A x \in Orders : x # o => orders'[x] = orders[x]
      /\ \A z \in Agents : z # p => proc'[z] = proc[z]
      /\ proc'[p] = Idle
  BY DEF IInv, TypeOK
<1>1. /\ ~Exists(i) /\ n.status = "prepared" /\ n.revision = 1 /\ ~n.attempt
      /\ \A z \in Agents : proc[z].newid = i => z = p
  BY DEF IInv, Candidate
<1>2. HandlerInv(p)'
  BY IdleHandler DEF IInv
<1>3. ASSUME NEW z \in Agents, z # p PROVE HandlerInv(z)'
  <2>1. proc'[z] = proc[z] /\ HandlerInv(z)
    BY <1>0, <1>3 DEF IInv, HandlerInv
  <2>2. Bound(z)' /\ Entitled(z)' /\ Timely(z)'
    BY <2>1 DEF HandlerInv, Bound, Entitled, Timely
  <2>3. Candidate(z)'
    <3>1. proc[z].newid # i
      BY <1>1, <1>3
    <3>2. proc'[p].newid \notin Intents
      BY <1>0, PaymentAssumption DEF Idle
    <3> QED BY <1>0, <2>1, <3>1, <3>2 DEF HandlerInv, Candidate, Exists
  <2>4. Snapshot(z)'
    <3>1. proc[z].pc \notin {"idle", "create"} => proc[z].id \in Intents /\ proc[z].id # i
      BY <1>1, <2>1 DEF HandlerInv, Bound, Snapshot, Exists
    <3> QED BY <1>0, <2>1, <3>1 DEF HandlerInv, Snapshot, Loaded, Exists
  <2> QED BY <2>2, <2>3, <2>4 DEF HandlerInv
<1>4. LiveOwnsOrder'
  <2>1. ASSUME NEW x \in Orders, orders'[x] # None
        PROVE  (Exists(orders[x]) /\ intents[orders[x]].order = x)'
    <3>1. CASE x = o
      BY <1>0, <1>1, <3>1 DEF Exists
    <3>2. CASE x # o
      <4>1. orders[x] \in Intents /\ Exists(orders[x]) /\ intents[orders[x]].order = x
        BY <1>0, <2>1, <3>2 DEF IInv, TypeOK, LiveOwnsOrder
      <4> QED BY <1>0, <1>1, <3>2, <4>1 DEF Exists
    <3> QED BY <3>1, <3>2
  <2>2. ASSUME NEW j \in Intents, intents'[j].status \notin Closed \cup {"absent"}
        PROVE  orders'[intents'[j].order] = j
    <3>1. CASE j = i
      BY <1>0, <3>1
    <3>2. CASE j # i
      <4>1. orders[intents[j].order] = j /\ intents[j].order \in Orders
        BY <1>0, <2>2, <3>2 DEF IInv, TypeOK, LiveOwnsOrder, IntentRecord
      <4>2. intents[j].order # o
        BY <1>0, <2>2, <3>2, <4>1, PaymentAssumption DEF IsReplaceable
      <4> QED BY <1>0, <3>2, <4>1, <4>2
    <3> QED BY <3>1, <3>2
  <2> QED BY <2>1, <2>2 DEF LiveOwnsOrder
<1>5. ASSUME NEW j \in Intents PROVE Accepted(j)'
  <2>1. CASE j # i
    BY <1>0, <2>1 DEF IInv, Accepted
  <2>2. CASE j = i
    <3>1. WellFormed(intents[i]) /\ ~intents[i].attempt
      BY <1>1 DEF IInv, Accepted, WellFormed, Exists, Unsettled, Settled
    <3>2. channel[i].count <= 1 /\ ~(channel[i].count > 0)
      BY <3>1 DEF IInv, Accepted
    <3>3. WellFormed(n)
      BY <1>1 DEF WellFormed, Unsettled, Settled
    <3> QED BY <1>0, <1>1, <2>2, <3>2, <3>3 DEF Accepted
  <2> QED BY <2>1, <2>2
<1> QED BY <1>2, <1>3, <1>4, <1>5 DEF IInv, HandlerInv

\* A submission that reaches the channel: the key is new or still remembered.
LEMMA SubmitStep ==
    ASSUME IInv, NEW p \in Agents, NEW s \in ChannelState, NEW out \in Outcome,
           proc[p].pc = "submit",
           channel' = [channel EXCEPT ![proc[p].id] = Processed(proc[p].id, s)],
           Submitted(p, out),
           UNCHANGED <<intents, orders, approval, now>>, TypeOK'
    PROVE  IInv'
<1> DEFINE i == proc[p].id
<1>0. /\ i \in Intents /\ proc[p] \in HandlerState
      /\ channel[i] \in Transactions /\ now \in Nat
      /\ proc[p].since \in Nat /\ Accepted(i) /\ HandlerInv(p)
      /\ proc[p].cur.attempt
  BY DEF IInv, Bound, TypeOK, HandlerState, HandlerInv, Entitled
<1>1. /\ proc'[p] = [proc[p] EXCEPT !.pc = "update", !.step = "outcome", !.out = out]
      /\ \A z \in Agents : z # p => proc'[z] = proc[z]
  BY <1>0 DEF IInv, TypeOK, Submitted
<1>2. /\ channel'[i] = Processed(i, s)
      /\ \A j \in Intents : j # i => channel'[j] = channel[j]
  BY <1>0 DEF IInv, TypeOK
<1>3. intents[i].attempt /\ intents[i].expires <= now + Retention
  BY <1>0 DEF HandlerInv, Snapshot, Loaded, Accepted
<1>4. \/ channel[i].count = 0 /\ channel'[i] = [count |-> 1, at |-> now, state |-> s]
      \/ channel'[i] = channel[i]
  <2>1. CASE channel[i].count > 0
    <3>1. proc[p].since <= channel[i].at /\ now <= proc[p].since + CallLatency
      BY <1>0, <2>1 DEF HandlerInv, Timely
    <3>2. channel[i].at \in Nat
      BY <1>0 DEF Transactions
    <3>3. now < channel[i].at + Retention
      BY <1>0, <3>1, <3>2, PaymentAssumption
    <3> QED BY <1>2, <2>1, <3>3 DEF Processed, Remembered
  <2>2. CASE ~(channel[i].count > 0)
    <3>1. channel[i].count = 0
      BY <1>0, <2>2 DEF Transactions
    <3> QED BY <1>2, <3>1 DEF Processed, Remembered
  <2> QED BY <2>1, <2>2
<1>5. ASSUME NEW z \in Agents, z # p PROVE HandlerInv(z)'
  <2>1. proc'[z] = proc[z] /\ HandlerInv(z) /\ proc[z] \in HandlerState
    BY <1>1, <1>5 DEF IInv, HandlerInv, TypeOK
  <2>2. Bound(z)' /\ Entitled(z)' /\ Snapshot(z)'
    BY <2>1 DEF HandlerInv, Bound, Entitled, Snapshot, Loaded, Exists
  <2>3. Candidate(z)'
    <3>1. proc'[p].newid = proc[p].newid
      BY <1>0, <1>1 DEF HandlerState
    <3>2. \A q \in Agents : proc'[q].newid = proc[q].newid
      BY <1>1, <3>1
    <3>3. Candidate(z) /\ proc'[z].new = proc[z].new /\ intents' = intents
      BY <2>1 DEF HandlerInv
    <3> QED BY <1>5, <3>2, <3>3 DEF Candidate, Exists
  <2>4. Timely(z)'
    <3>1. CASE proc[z].pc \in {"accept", "window", "submit"}
      <4>1. proc[z].id \in Intents
        BY <2>1, <3>1 DEF HandlerInv, Bound
      <4> QED BY <1>2, <1>4, <2>1, <3>1, <4>1 DEF HandlerInv, Timely
    <3>2. CASE proc[z].pc \notin {"accept", "window", "submit"}
      BY <2>1, <3>2 DEF HandlerInv, Timely
    <3> QED BY <3>1, <3>2
  <2> QED BY <2>2, <2>3, <2>4 DEF HandlerInv
<1>6. HandlerInv(p)'
  <2>1. /\ proc'[p].pc = "update" /\ proc'[p].id = i /\ proc'[p].cur = proc[p].cur
        /\ proc'[p].op = proc[p].op /\ proc'[p].newid = proc[p].newid
        /\ proc'[p].new = proc[p].new
    BY <1>0, <1>1 DEF HandlerState
  <2>2. Bound(p)' /\ Entitled(p)' /\ Snapshot(p)' /\ Timely(p)'
    BY <1>0, <2>1 DEF HandlerInv, Bound, Entitled, Snapshot, Loaded, Exists, Timely
  <2>3. Candidate(p)'
    BY <1>0, <1>1, <2>1 DEF HandlerInv, Candidate, Exists
  <2> QED BY <2>2, <2>3 DEF HandlerInv
<1>7. ASSUME NEW j \in Intents PROVE Accepted(j)'
  <2>1. CASE j # i
    BY <1>2, <2>1 DEF IInv, Accepted
  <2>2. CASE j = i
    <3>1. CASE channel'[i] = channel[i]
      BY <1>0, <2>2, <3>1 DEF Accepted
    <3>2. CASE channel'[i] = [count |-> 1, at |-> now, state |-> s]
      <4>1. channel'[i].count = 1 /\ channel'[i].at = now /\ now <= now /\ 1 <= 1
        BY <1>0, <3>2
      <4>2. /\ intents'[j] = intents[i] /\ approval'[j] = approval[i] /\ now' = now
            /\ channel'[j].count = 1 /\ channel'[j].at = now
        BY <2>2, <4>1
      <4>3. /\ WellFormed(intents[i]) /\ approval[i] # "none"
            /\ intents[i].expires <= now + Retention
        BY <1>0, <1>3 DEF Accepted
      <4> QED BY <1>3, <4>1, <4>2, <4>3 DEF Accepted
    <3> QED BY <1>4, <3>1, <3>2
  <2> QED BY <2>1, <2>2
<1>8. LiveOwnsOrder'
  BY DEF IInv, LiveOwnsOrder, Exists
<1> QED BY <1>5, <1>6, <1>7, <1>8 DEF IInv, HandlerInv

-----------------------------------------------------------------------------

\* Every function of execution.rs but accept returns its argument or a
\* successor of it with the same attempt.
LEMMA Successor ==
    ASSUME NEW r \in IntentRecord(Orders), NEW t \in Nat, NEW to \in Closed,
           NEW out \in Outcome, NEW q,
           WellFormed(r), r.revision >= 1,
           \/ q = CloseUnaccepted(r, to, t)
           \/ q = FlagForReview(r, t)
           \/ q = ApplyOutcome(r, out, t)
    PROVE  q = r \/ (Succeeds(r, q) /\ q.attempt = r.attempt)
<1>0. /\ r.revision \in Nat /\ r.attempt \in BOOLEAN
      /\ r.revision + 1 # 0 /\ r.status # "absent"
      /\ r.status \in PaymentStatus
  BY DEF IntentRecord, WellFormed
<1>1. ASSUME NEW s \in PaymentStatus, NEW n,
             r.attempt <=> s \in Unsettled \cup Settled,
             s \notin Closed => r.status \notin Closed,
             n.revision = r.revision + 1, n.order = r.order, n.status = s,
             n.attempt = r.attempt, n.expires = r.expires
      PROVE  Succeeds(r, n) /\ n.attempt = r.attempt
  <2>1. s # "absent"
    BY DEF PaymentStatus, Unsettled, Settled, Closed
  <2> QED BY <1>0, <1>1, <2>1 DEF Succeeds, WellFormed
<1>2. ASSUME NEW s \in PaymentStatus
      PROVE  LET n == NextRevision(r, s, t) IN
             /\ n.revision = r.revision + 1 /\ n.order = r.order /\ n.status = s
             /\ n.attempt = r.attempt /\ n.expires = r.expires
             /\ n \in IntentRecord(Orders)
  BY NextRevisionType DEF NextRevision, IntentRecord
<1>3. r.attempt <=> r.status \in Unsettled \cup Settled
  BY DEF WellFormed
<1>4. CASE q = CloseUnaccepted(r, to, t)
  <2>1. CASE q # r
    <3>1. r.status = "prepared" /\ q = NextRevision(r, to, t)
      BY <1>4, <2>1 DEF CloseUnaccepted
    <3>2. /\ to \in PaymentStatus /\ to \notin Unsettled \cup Settled
          /\ r.status \notin Closed /\ ~r.attempt
      BY <1>3, <3>1 DEF PaymentStatus, Unsettled, Settled, Closed
    <3> QED BY <1>1, <1>2, <3>1, <3>2
  <2> QED BY <2>1
<1>5. CASE q = FlagForReview(r, t)
  <2>1. CASE q # r
    <3>1. q = [NextRevision(r, r.status, t) EXCEPT !.review = TRUE]
      BY <1>5, <2>1 DEF FlagForReview
    <3>2. /\ q.revision = r.revision + 1 /\ q.order = r.order /\ q.status = r.status
          /\ q.attempt = r.attempt /\ q.expires = r.expires
      BY <1>0, <1>2, <3>1 DEF IntentRecord
    <3> QED BY <1>0, <1>1, <1>3, <3>2
  <2> QED BY <2>1
<1>6. CASE q = ApplyOutcome(r, out, t)
  <2>1. CASE ~r.attempt
    BY <1>6, <2>1 DEF ApplyOutcome
  <2>2. CASE r.attempt
    <3>0. r.status \in Unsettled \cup Settled /\ r.status \notin Closed
      BY <1>3, <2>2 DEF Unsettled, Settled, Closed
    <3>1. \/ q = ApplyIndeterminate(r, t)
          \/ q = ApplyMismatch(r, out, t)
          \/ q = ApplyReport(r, out, t) /\ out.state # "none"
      BY <1>6, <2>2 DEF ApplyOutcome
    <3>2. ASSUME NEW s \in Unsettled \cup Settled, NEW n,
                 n.revision = r.revision + 1, n.order = r.order, n.status = s,
                 n.attempt = r.attempt, n.expires = r.expires
          PROVE  Succeeds(r, n) /\ n.attempt = r.attempt
      <4>1. s \in PaymentStatus
        BY DEF PaymentStatus
      <4> QED BY <1>1, <2>2, <3>0, <3>2, <4>1
    <3>3. CASE q = ApplyIndeterminate(r, t) /\ q # r
      <4>1. q = WithEvidence(NextRevision(r, "unknown", t), "none", 0, "indeterminate")
        BY <3>3 DEF ApplyIndeterminate
      <4>2. "unknown" \in PaymentStatus /\ "unknown" \in Unsettled
        BY DEF PaymentStatus, Unsettled
      <4>3. /\ q.revision = r.revision + 1 /\ q.order = r.order /\ q.status = "unknown"
            /\ q.attempt = r.attempt /\ q.expires = r.expires
        BY <1>2, <4>1, <4>2 DEF WithEvidence, IntentRecord
      <4> QED BY <3>2, <4>2, <4>3
    <3>4. CASE q = ApplyMismatch(r, out, t)
      <4>1. /\ q.revision = r.revision + 1 /\ q.order = r.order /\ q.status = r.status
            /\ q.attempt = r.attempt /\ q.expires = r.expires
        BY <1>0, <1>2, <3>4 DEF ApplyMismatch, WithEvidence, IntentRecord
      <4> QED BY <3>0, <3>2, <4>1
    <3>5. CASE q = ApplyReport(r, out, t) /\ out.state # "none" /\ q # r
      <4> DEFINE target == TargetStatus(out.state)
                 disp   == DispositionOf(r.status, target)
                 goal   == IF disp = "applied" THEN target ELSE r.status
                 n      == NextRevision(r, goal, t)
                 w      == WithEvidence(n, out.state, out.txn, disp)
      <4>1. q = [w EXCEPT !.txn = IF @ = 0 THEN out.txn ELSE @,
                          !.review = @ \/ disp = "conflict"]
        BY <3>5 DEF ApplyReport
      <4>2. disp = "applied" => target \in Unsettled \cup Settled
        <5>1. out.state \in ChannelState
          BY <3>5 DEF Outcome
        <5> QED BY <5>1 DEF TargetStatus, ChannelState, Unsettled, Settled
      <4>3. goal \in Unsettled \cup Settled
        BY <3>0, <4>2
      <4>4. goal \in PaymentStatus
        BY <4>3 DEF PaymentStatus
      <4> HIDE DEF goal
      <4>5. /\ n.revision = r.revision + 1 /\ n.order = r.order /\ n.status = goal
            /\ n.attempt = r.attempt /\ n.expires = r.expires
            /\ n \in IntentRecord(Orders)
        BY <1>2, <4>4
      <4>6. /\ q.revision = r.revision + 1 /\ q.order = r.order /\ q.status = goal
            /\ q.attempt = r.attempt /\ q.expires = r.expires
        BY <4>1, <4>5 DEF WithEvidence, IntentRecord
      <4> QED BY <3>2, <4>3, <4>6
    <3> QED BY <3>1, <3>3, <3>4, <3>5
  <2> QED BY <1>0, <2>1, <2>2
<1> QED BY <1>4, <1>5, <1>6

-----------------------------------------------------------------------------

\* What is known of a handler before it moves.
LEMMA HandlerFacts ==
    ASSUME IInv, NEW p \in Agents
    PROVE  /\ proc[p] \in HandlerState /\ HandlerInv(p)
           /\ proc[p].cur \in IntentRecord(Orders)
           /\ proc[p].new \in IntentRecord(Orders)
           /\ proc[p].new.order \in Orders
           /\ proc[p].since \in Nat /\ proc[p].tries \in Nat /\ proc[p].tries + 1 \in Nat
           /\ now \in Nat /\ registry \in Nat /\ faults \in Nat /\ faults + 1 \in Nat
           /\ \A i \in Intents : intents[i] \in IntentRecord(Orders)
<1>1. proc[p] \in HandlerState /\ now \in Nat /\ registry \in Nat /\ faults \in Nat
  BY DEF IInv, TypeOK
<1>2. /\ proc[p].cur \in IntentRecord(Orders) /\ proc[p].new \in IntentRecord(Orders)
      /\ proc[p].since \in Nat /\ proc[p].tries \in Nat
  BY <1>1 DEF HandlerState
<1>3. proc[p].new.order \in Orders
  BY <1>2 DEF IntentRecord
<1>4. proc[p].tries + 1 \in Nat /\ faults + 1 \in Nat
  BY <1>1, <1>2
<1>5. \A i \in Intents : intents[i] \in IntentRecord(Orders)
  BY DEF IInv, TypeOK
<1> QED BY <1>1, <1>2, <1>3, <1>4, <1>5 DEF IInv, HandlerInv

\* A handler's step is well typed when its parts are.
LEMMA StepType ==
    ASSUME TypeOK, NEW p \in Agents, NEW h \in HandlerState,
           proc' = [proc EXCEPT ![p] = h],
           intents' \in [Intents -> IntentRecord(Orders)],
           orders' \in [Orders -> Intents \cup {None}],
           channel' \in [Intents -> Transactions], faults' \in Nat,
           UNCHANGED world
    PROVE  TypeOK' /\ OnlyHandler(p) /\ proc'[p] = h
<1>1. proc' \in [Agents -> HandlerState] /\ OnlyHandler(p) /\ proc'[p] = h
  BY DEF TypeOK, OnlyHandler
<1>2. UNCHANGED <<approval, registry, queue, callbacks, sent, now>>
  BY DEF world
<1> QED BY <1>1, <1>2 DEF TypeOK

\* The handler moves and nothing but the fault counter does.
LEMMA QuietStep ==
    ASSUME IInv, NEW p \in Agents, NEW h \in HandlerState,
           proc' = [proc EXCEPT ![p] = h], faults' \in Nat,
           UNCHANGED <<store, world, channel>>,
           proc'[p] = h => HandlerInv(p)'
    PROVE  IInv'
<1>1. /\ UNCHANGED <<intents, orders, approval, channel, now>>
      /\ UNCHANGED world
  BY DEF store, world
<1>2. TypeOK' /\ OnlyHandler(p) /\ proc'[p] = h
  <2>1. /\ intents' \in [Intents -> IntentRecord(Orders)]
        /\ orders' \in [Orders -> Intents \cup {None}]
        /\ channel' \in [Intents -> Transactions] /\ TypeOK
    BY <1>1 DEF IInv, TypeOK
  <2> QED BY <1>1, <2>1, StepType
<1> QED BY <1>1, <1>2, LocalStep

\* Every return.
LEMMA ReturnStep ==
    ASSUME IInv, NEW p \in Agents, Return(p), faults' \in Nat,
           UNCHANGED <<store, world, channel>>
    PROVE  IInv'
<1>1. proc' = [proc EXCEPT ![p] = Idle] /\ Idle \in HandlerState
  BY ConstantTypes DEF Return
<1>2. HandlerInv(p)'
  BY <1>1, IdleHandler DEF IInv
<1> QED BY <1>1, <1>2, QuietStep

\* The handler goes on with the snapshot it has or with the stored record; the
\* last three assumptions are what its new place obliges it to know.
LEMMA MoveStep ==
    ASSUME IInv, NEW p \in Agents, NEW h \in HandlerState,
           proc' = [proc EXCEPT ![p] = h], faults' \in Nat,
           UNCHANGED <<store, world, channel>>,
           proc[p].pc \notin {"idle", "create"}, h.pc \notin {"idle", "create"},
           h.id = proc[p].id, h.op = proc[p].op,
           h.newid = proc[p].newid, h.new = proc[p].new,
           (h.cur = proc[p].cur /\ Loaded(p)) \/ h.cur = intents[proc[p].id],
           h.pc \in {"existing", "compare", "replace"} => proc[p].newid \in Intents,
           /\ h.pc \in {"registry", "accept"} => h.op = "execute" /\ ~h.cur.attempt
           /\ h.pc = "accept" => h.cur.status = "prepared"
           /\ h.pc \in {"query", "window", "submit"} => h.cur.attempt,
           LET c == channel[h.id] IN
           /\ h.pc \in {"accept", "window", "submit"} =>
                 h.since <= now /\ now <= h.since + CallLatency
           /\ h.pc = "window" /\ c.count > 0 => h.since <= c.at \/ h.cur.expires <= h.since
           /\ h.pc = "submit" /\ c.count > 0 => h.since <= c.at
    PROVE  IInv'
<1>0. /\ HandlerInv(p) /\ proc[p] \in HandlerState /\ proc[p].id \in Intents
      /\ UNCHANGED <<intents, channel, approval, now>>
  BY HandlerFacts DEF HandlerInv, Bound, store, world
<1>1. SUFFICES ASSUME proc'[p] = h PROVE HandlerInv(p)'
  BY QuietStep
<1>2. Bound(p)'
  BY <1>0, <1>1 DEF HandlerInv, Bound
<1>3. Snapshot(p)'
  <2>1. CASE h.cur = proc[p].cur /\ Loaded(p)
    BY <1>0, <1>1, <2>1 DEF HandlerInv, Snapshot, Loaded, Exists
  <2>2. CASE h.cur = intents[proc[p].id]
    <3>1. WellFormed(h.cur) /\ h.cur.status # "absent" /\ h.cur \in IntentRecord(Orders)
      BY <1>0, <2>2 DEF IInv, Accepted, TypeOK, HandlerInv, Snapshot, Exists
    <3>2. h.cur.revision \in Nat /\ h.cur.revision >= 1
      BY <3>1 DEF WellFormed, IntentRecord
    <3> QED BY <1>0, <1>1, <2>2, <3>1, <3>2 DEF Snapshot, Exists
  <2> QED BY <2>1, <2>2
<1>4. Entitled(p)' /\ Timely(p)'
  BY <1>0, <1>1 DEF HandlerInv, Entitled, Timely
<1>5. Candidate(p)'
  <2>1. \A z \in Agents : proc'[z].newid = proc[z].newid
    BY <1>1 DEF IInv, TypeOK
  <2> QED BY <1>0, <1>1, <2>1 DEF HandlerInv, Candidate, Exists
<1> QED BY <1>2, <1>3, <1>4, <1>5 DEF HandlerInv

\* apply_with_retry (recovery.rs) keeps the invariant: it reads, derives
\* an update of the record it read and writes it only over that record.
LEMMA UpdateInv ==
    ASSUME IInv, NEW p \in Agents,
           UpdateNothing(p) \/ UpdateConflict(p) \/ UpdateReload(p)
    PROVE  IInv'
<1>0. /\ proc[p] \in HandlerState /\ HandlerInv(p)
      /\ proc[p].cur \in IntentRecord(Orders) /\ proc[p].tries + 1 \in Nat
      /\ faults \in Nat
  BY HandlerFacts
<1>1. CASE UpdateNothing(p)
  <2> DEFINE h == AfterUpdate(p, proc[p].cur)
  <2>1. /\ proc[p].pc = "update" /\ proc' = [proc EXCEPT ![p] = h]
        /\ UNCHANGED <<store, world, channel>> /\ faults' \in Nat
    BY <1>0, <1>1 DEF UpdateNothing
  <2>2. h \in HandlerState
    BY <1>0, DerivedType DEF IInv
  <2>3. CASE h = Idle
    BY <2>1, <2>3, <1>0, ReturnStep DEF Return
  <2>4. CASE h # Idle
    <3>1. \/ proc[p].op = "prepare" /\ h = [proc[p] EXCEPT !.pc = "compare"]
          \/ /\ proc[p].op = "execute" /\ proc[p].cur.status = "prepared"
             /\ h = [proc[p] EXCEPT !.pc = "registry"]
      BY <1>0, <2>4 DEF AfterUpdate, HandlerState
    <3>2. /\ h.id = proc[p].id /\ h.cur = proc[p].cur /\ h.newid = proc[p].newid
          /\ h.new = proc[p].new /\ h.op = proc[p].op
          /\ h.pc \in {"compare", "registry"}
          /\ h.pc = "registry" => proc[p].op = "execute" /\ proc[p].cur.status = "prepared"
          /\ h.pc = "compare" => proc[p].op = "prepare"
      BY <1>0, <3>1 DEF HandlerState
    <3>3. h.pc = "registry" => ~proc[p].cur.attempt
      BY <1>0, <2>1, <3>2 DEF HandlerInv, Snapshot, Loaded, WellFormed, Unsettled, Settled
    <3>4. h.pc = "compare" => proc[p].newid \in Intents
      BY <1>0, <3>2 DEF HandlerInv, Bound
    <3> HIDE DEF h
    <3> QED BY <2>1, <2>2, <3>2, <3>3, <3>4, MoveStep DEF Loaded
  <2> QED BY <2>3, <2>4
<1>2. CASE UpdateConflict(p)
  <2> DEFINE h == [proc[p] EXCEPT !.pc = "reload", !.tries = @ + 1]
  <2>1. /\ proc[p].pc = "update" /\ proc' = [proc EXCEPT ![p] = h]
        /\ UNCHANGED <<store, world, channel>> /\ faults' \in Nat
    BY <1>0, <1>2 DEF UpdateConflict
  <2>2. /\ h \in HandlerState /\ h.pc = "reload" /\ h.id = proc[p].id
        /\ h.cur = proc[p].cur /\ h.newid = proc[p].newid
        /\ h.new = proc[p].new /\ h.op = proc[p].op
    BY <1>0 DEF HandlerState, PCs
  <2> HIDE DEF h
  <2> QED BY <2>1, <2>2, MoveStep DEF Loaded
<1>3. CASE UpdateReload(p)
  <2> DEFINE h == [proc[p] EXCEPT !.pc = "update", !.cur = intents[proc[p].id]]
  <2>1. /\ proc[p].pc = "reload" /\ UNCHANGED <<store, world, channel>> /\ faults' \in Nat
    BY <1>0, <1>3 DEF UpdateReload
  <2>2. CASE Return(p)
    BY <2>1, <2>2, ReturnStep
  <2>3. CASE proc' = [proc EXCEPT ![p] = h]
    <3>1. proc[p].id \in Intents
      BY <1>0, <2>1 DEF HandlerInv, Bound
    <3>2. intents[proc[p].id] \in IntentRecord(Orders)
      BY <3>1, HandlerFacts
    <3>3. /\ h \in HandlerState /\ h.pc = "update" /\ h.id = proc[p].id
          /\ h.cur = intents[proc[p].id] /\ h.newid = proc[p].newid
          /\ h.new = proc[p].new /\ h.op = proc[p].op
      BY <1>0, <3>2 DEF HandlerState, PCs
    <3> HIDE DEF h
    <3> QED BY <2>1, <2>3, <3>3, MoveStep
  <2> QED BY <1>3, <2>2, <2>3 DEF UpdateReload
<1> QED BY <1>1, <1>2, <1>3

\* The handler starts: it was idle and owes only what its first place says.
LEMMA StartStep ==
    ASSUME IInv, NEW p \in Agents, NEW h \in HandlerState, NEW i \in Intents,
           proc' = [proc EXCEPT ![p] = h],
           UNCHANGED <<intents, orders, approval, channel, now>>, TypeOK',
           Exists(i), h.id = i, h.cur = intents[i], h.newid = None,
           h.pc \in {"update", "cancel", "registry", "query"}, h.op # "prepare",
           h.op = "execute" => approval[i] # "none",
           h.pc = "registry" => h.op = "execute" /\ ~h.cur.attempt,
           h.pc = "query" => h.cur.attempt
    PROVE  IInv'
<1>0. OnlyHandler(p) /\ proc'[p] = h
  BY DEF IInv, TypeOK, OnlyHandler
<1>1. /\ WellFormed(h.cur) /\ h.cur.status # "absent" /\ h.cur \in IntentRecord(Orders)
  BY DEF IInv, Accepted, TypeOK, Exists
<1>2. h.cur.revision \in Nat /\ h.cur.revision >= 1
  BY <1>1 DEF WellFormed, IntentRecord
<1>3. Bound(p)' /\ Candidate(p)' /\ Entitled(p)' /\ Timely(p)'
  BY <1>0, PaymentAssumption DEF Bound, Candidate, Entitled, Timely
<1>4. Snapshot(p)'
  BY <1>0, <1>1, <1>2 DEF Snapshot, Loaded, Exists
<1> QED BY <1>0, <1>3, <1>4, LocalStep DEF HandlerInv

\* A start that leaves the world alone.
LEMMA QuietStart ==
    ASSUME IInv, NEW p \in Agents, NEW h \in HandlerState, NEW i \in Intents,
           proc' = [proc EXCEPT ![p] = h], UNCHANGED <<store, world, channel, faults>>,
           Exists(i), h.id = i, h.cur = intents[i], h.newid = None,
           h.pc \in {"update", "cancel", "registry", "query"}, h.op # "prepare",
           h.op = "execute" => approval[i] # "none",
           h.pc = "registry" => h.op = "execute" /\ ~h.cur.attempt,
           h.pc = "query" => h.cur.attempt
    PROVE  IInv'
<1>1. UNCHANGED <<intents, orders, approval, channel, now>> /\ UNCHANGED world
  BY DEF store, world
<1>2. TypeOK'
  <2>1. /\ intents' \in [Intents -> IntentRecord(Orders)]
        /\ orders' \in [Orders -> Intents \cup {None}]
        /\ channel' \in [Intents -> Transactions] /\ TypeOK /\ faults' \in Nat
    BY <1>1 DEF IInv, TypeOK
  <2> QED BY <1>1, <2>1, StepType
<1> QED BY <1>1, <1>2, StartStep

\* The first step of get, cancel, execute and reconcile
\* keeps the invariant: only the handler that starts changes.
LEMMA RequestInv ==
    ASSUME IInv, NEW p \in Agents, NEW i \in Intents,
           \/ GetIntent(p, i) \/ CancelLoad(p, i) \/ ExecuteAuthorize(p, i)
           \/ Reconcile(p, i)
    PROVE  IInv'
<1>0. /\ intents[i] \in IntentRecord(Orders) /\ Idle \in HandlerState
      /\ WellFormed(intents[i]) /\ now \in Nat /\ Idle.newid = None
      /\ {"update", "cancel", "registry", "query"} \subseteq PCs
      /\ {"none", "expire"} \subseteq Steps
      /\ {"get", "cancel", "execute", "reconcile"} \subseteq Ops
  <2>1. Idle \in HandlerState
    BY ConstantTypes
  <2> QED BY <2>1 DEF IInv, TypeOK, Accepted, PCs, Steps, Ops, Idle
<1>1. CASE GetIntent(p, i)
  <2> DEFINE h == [Idle EXCEPT !.pc = "update", !.op = "get", !.id = i,
                               !.cur = intents[i], !.step = "expire"]
  <2>2. /\ h \in HandlerState /\ h.id = i /\ h.cur = intents[i] /\ h.newid = None
        /\ h.pc = "update" /\ h.op = "get"
    BY <1>0 DEF HandlerState
  <2> HIDE DEF h
  <2>3. /\ proc' = [proc EXCEPT ![p] = h] /\ Exists(i)
        /\ UNCHANGED <<store, world, channel, faults>>
    BY <1>1 DEF GetIntent, h
  <2> QED BY <2>2, <2>3, QuietStart
<1>2. CASE CancelLoad(p, i)
  <2> DEFINE h == [Idle EXCEPT !.pc = "cancel", !.op = "cancel", !.id = i,
                               !.cur = intents[i], !.since = now]
  <2>2. /\ h \in HandlerState /\ h.id = i /\ h.cur = intents[i] /\ h.newid = None
        /\ h.pc = "cancel" /\ h.op = "cancel"
    BY <1>0 DEF HandlerState
  <2> HIDE DEF h
  <2>3. /\ proc' = [proc EXCEPT ![p] = h] /\ Exists(i)
        /\ UNCHANGED <<store, world, channel, faults>>
    BY <1>2 DEF CancelLoad, CloseUnaccepted, Exists, h
  <2> QED BY <2>2, <2>3, QuietStart
<1>3. CASE ExecuteAuthorize(p, i)
  <2> DEFINE due == EffectiveStatus(intents[i], now) = "expired"
             st  == IF due THEN "expire" ELSE "none"
             pc  == IF due THEN "update" ELSE "registry"
             h == [Idle EXCEPT !.op = "execute", !.id = i, !.cur = intents[i],
                               !.step = st, !.pc = pc]
  <2>1. st \in {"expire", "none"} /\ pc \in {"update", "registry"}
    OBVIOUS
  <2>2. /\ proc' = [proc EXCEPT ![p] = h] /\ intents[i].status = "prepared"
        /\ approval[i] = "live" /\ ~intents[i].attempt
        /\ UNCHANGED <<store, world, channel, faults>>
    BY <1>3 DEF ExecuteAuthorize
  <2> HIDE DEF st, pc
  <2>4. /\ h \in HandlerState /\ h.id = i /\ h.cur = intents[i] /\ h.newid = None
        /\ h.pc = pc /\ h.op = "execute"
    BY <1>0, <2>1 DEF HandlerState
  <2> HIDE DEF h
  <2>5. Exists(i)
    BY <2>2 DEF Exists
  <2> QED BY <2>1, <2>2, <2>4, <2>5, QuietStart
<1>4. CASE Reconcile(p, i)
  <2> DEFINE h == [Idle EXCEPT !.pc = "query", !.op = "reconcile", !.id = i,
                               !.cur = intents[i]]
  <2>2. /\ h \in HandlerState /\ h.id = i /\ h.cur = intents[i] /\ h.newid = None
        /\ h.pc = "query" /\ h.op = "reconcile"
    BY <1>0 DEF HandlerState
  <2> HIDE DEF h
  <2>3. /\ proc' = [proc EXCEPT ![p] = h] /\ Exists(i) /\ intents[i].attempt
        /\ UNCHANGED <<store, world, channel, faults>>
    BY <1>4 DEF Reconcile, ReconcileLoad, Exists, Unsettled, h
  <2> QED BY <2>2, <2>3, QuietStart
<1> QED BY <1>1, <1>2, <1>3, <1>4

\* What a handler that goes on with h after writing q has to know.
GoesOn(p, h, q) ==
    /\ h.pc \notin {"idle", "create", "accept", "window"} /\ h.id = proc[p].id
    /\ h.op = proc[p].op /\ h.newid = proc[p].newid /\ h.new = proc[p].new
    /\ h.cur \in {q, proc[p].cur}
    /\ h.pc \in {"existing", "compare", "replace"} => proc[p].newid \in Intents
    /\ h.pc = "registry" => h.op = "execute" /\ ~h.cur.attempt
    /\ h.pc \in {"query", "submit"} => h.cur.attempt
    /\ h.pc = "submit" => h.since <= now /\ now <= h.since + CallLatency
    /\ h.pc = "submit" => ~(channel[proc[p].id].count > 0)

\* A handler writes a successor of the stored record and returns, or goes on
\* with the record it wrote or with its old snapshot.
LEMMA WriteMove ==
    ASSUME IInv, NEW p \in Agents, NEW h \in HandlerState,
           NEW q \in IntentRecord(Orders), Loaded(p),
           Succeeds(intents[proc[p].id], q),
           q.attempt => intents[proc[p].id].attempt
                        \/ (approval[proc[p].id] # "none" /\ q.expires <= now + Retention),
           intents' = [intents EXCEPT ![proc[p].id] = q], proc' = [proc EXCEPT ![p] = h],
           UNCHANGED <<orders, world, channel>>, faults' \in Nat,
           h = Idle \/ GoesOn(p, h, q)
    PROVE  IInv'
<1> DEFINE i == proc[p].id
<1>0. /\ HandlerInv(p) /\ proc[p] \in HandlerState /\ i \in Intents /\ Exists(i)
      /\ proc[p].cur \in IntentRecord(Orders)
      /\ proc[p].pc \notin {"idle", "create", "existing"}
      /\ UNCHANGED <<channel, approval, now, orders>> /\ UNCHANGED world
  BY HandlerFacts DEF HandlerInv, Bound, Loaded, Snapshot, world
<1>1. TypeOK' /\ OnlyHandler(p) /\ proc'[p] = h
  <2>1. /\ intents' \in [Intents -> IntentRecord(Orders)]
        /\ orders' \in [Orders -> Intents \cup {None}]
        /\ channel' \in [Intents -> Transactions] /\ TypeOK
    BY <1>0 DEF IInv, TypeOK
  <2> QED BY <1>0, <2>1, StepType
<1>2. HandlerInv(p)'
  <2>1. CASE h = Idle
    BY <2>1, IdleHandler DEF IInv
  <2>2. CASE GoesOn(p, h, q)
    <3>0. /\ intents'[i] = q /\ \A j \in Intents : j # i => intents'[j] = intents[j]
          /\ intents[i].revision \in Nat /\ proc[p].cur.revision \in Nat
          /\ q.revision = intents[i].revision + 1 /\ q.status # "absent"
          /\ q.revision \in Nat /\ WellFormed(q) /\ q.revision >= 1
          /\ intents[i].attempt => q.attempt /\ q.expires = intents[i].expires
      <4>1. intents[i] \in IntentRecord(Orders) /\ intents'[i] = q
            /\ \A j \in Intents : j # i => intents'[j] = intents[j]
        BY <1>0 DEF IInv, TypeOK
      <4>2. intents[i].revision \in Nat /\ proc[p].cur.revision \in Nat /\ q.revision \in Nat
        BY <1>0, <4>1 DEF IntentRecord
      <4>3. q.revision = intents[i].revision + 1 /\ WellFormed(q)
        BY DEF Succeeds
      <4>4. q.revision >= 1 /\ q.status # "absent"
        BY <4>2, <4>3 DEF WellFormed
      <4>5. intents[i].attempt => q.attempt /\ q.expires = intents[i].expires
        BY DEF Succeeds
      <4> QED BY <4>1, <4>2, <4>3, <4>4, <4>5
    <3>1. Bound(p)' /\ Entitled(p)'
      BY <1>0, <1>1, <2>2 DEF GoesOn, HandlerInv, Bound, Entitled
    <3>2. Timely(p)'
      BY <1>0, <1>1, <2>2 DEF GoesOn, Timely
    <3>3. Candidate(p)'
      <4>1. \A z \in Agents : proc'[z].newid = proc[z].newid
        BY <1>1, <2>2 DEF GoesOn, OnlyHandler
      <4>2. proc[p].newid # i \/ proc[p].newid \notin Intents
        BY <1>0 DEF HandlerInv, Candidate
      <4> QED BY <1>0, <1>1, <2>2, <3>0, <4>1, <4>2 DEF GoesOn, HandlerInv, Candidate, Exists
    <3>4. Snapshot(p)'
      <4>1. CASE h.cur = q
        BY <1>0, <1>1, <2>2, <3>0, <4>1 DEF GoesOn, Snapshot, Exists
      <4>2. CASE h.cur = proc[p].cur
        BY <1>0, <1>1, <2>2, <3>0, <4>2 DEF GoesOn, HandlerInv, Snapshot, Loaded, Exists
      <4> QED BY <2>2, <4>1, <4>2 DEF GoesOn
    <3> QED BY <3>1, <3>2, <3>3, <3>4 DEF HandlerInv
  <2> QED BY <2>1, <2>2
<1> QED BY <1>0, <1>1, <1>2, WriteStep

\* A compare-and-set that holds compares the whole record.
LEMMA CasExact ==
    ASSUME IInv, NEW p \in Agents, Loaded(p), CasHolds(proc[p].id, proc[p].cur)
    PROVE  /\ proc[p].cur = intents[proc[p].id] /\ proc[p].id \in Intents
           /\ WellFormed(proc[p].cur) /\ proc[p].cur.revision >= 1
           /\ proc[p].cur \in IntentRecord(Orders)
BY HandlerFacts DEF HandlerInv, Snapshot, CasHolds, Loaded, Bound

\* A compare-and-set write of an existing record keeps the invariant,
\* whether it lands, is refused, or lands with its answer lost.
LEMMA WriteInv ==
    ASSUME IInv, NEW p \in Agents,
           UpdateWritten(p) \/ UpdateAnswerLost(p) \/ CancelWrite(p)
    PROVE  IInv'
<1>0. /\ proc[p] \in HandlerState /\ HandlerInv(p) /\ Idle \in HandlerState
      /\ proc[p].tries + 1 \in Nat /\ faults \in Nat /\ faults + 1 \in Nat
      /\ now \in Nat /\ proc[p].since \in Nat /\ proc[p].out \in Outcome
      /\ "expired" \in Closed /\ "cancelled" \in Closed
  BY HandlerFacts, ConstantTypes DEF HandlerState, Closed
<1> DEFINE i == proc[p].id
           q == Derived(p)
<1>1. ASSUME proc[p].pc = "update", q # proc[p].cur, CasHolds(i, proc[p].cur)
      PROVE  /\ Loaded(p) /\ i \in Intents /\ q \in IntentRecord(Orders)
             /\ Succeeds(intents[i], q) /\ q.attempt = intents[i].attempt
             /\ WellFormed(q)
  <2>1. Loaded(p)
    BY <1>1 DEF Loaded
  <2>2. /\ proc[p].cur = intents[i] /\ i \in Intents /\ WellFormed(proc[p].cur)
        /\ proc[p].cur.revision >= 1 /\ proc[p].cur \in IntentRecord(Orders)
    BY <1>1, <2>1, CasExact
  <2>3. \/ q = CloseUnaccepted(proc[p].cur, "expired", now)
        \/ q = FlagForReview(proc[p].cur, now)
        \/ q = ApplyOutcome(proc[p].cur, proc[p].out, now)
    BY <1>1 DEF Derived
  <2>4. q \in IntentRecord(Orders)
    BY DerivedType DEF IInv
  <2> HIDE DEF q
  <2>5. Succeeds(proc[p].cur, q) /\ q.attempt = proc[p].cur.attempt
    BY <1>0, <1>1, <2>2, <2>3, Successor
  <2> QED BY <2>1, <2>2, <2>4, <2>5 DEF Succeeds
<1>2. CASE UpdateWritten(p)
  <2> DEFINE h == AfterUpdate(p, q)
  <2>1. /\ proc[p].pc = "update" /\ q # proc[p].cur /\ CasHolds(i, proc[p].cur)
        /\ intents' = [intents EXCEPT ![i] = q] /\ proc' = [proc EXCEPT ![p] = h]
        /\ UNCHANGED <<orders, world, channel>> /\ faults' \in Nat
    BY <1>0, <1>2 DEF UpdateWritten
  <2>2. /\ Loaded(p) /\ i \in Intents /\ q \in IntentRecord(Orders)
        /\ Succeeds(intents[i], q) /\ q.attempt = intents[i].attempt /\ WellFormed(q)
    BY <1>1, <2>1
  <2>3. h \in HandlerState
    BY <2>2, DerivedType DEF IInv
  <2> HIDE DEF q
  <2>4. \/ h = Idle
        \/ /\ h.id = i /\ h.cur = q /\ h.newid = proc[p].newid
           /\ h.new = proc[p].new /\ h.op = proc[p].op
           /\ \/ h.pc = "compare" /\ proc[p].op = "prepare"
              \/ h.pc = "registry" /\ proc[p].op = "execute" /\ q.status = "prepared"
    BY <1>0, <2>2 DEF AfterUpdate, HandlerState
  <2>5. q.status = "prepared" => ~q.attempt
    BY <2>2 DEF WellFormed, Unsettled, Settled
  <2>6. proc[p].op = "prepare" => proc[p].newid \in Intents
    BY <1>0 DEF HandlerInv, Bound
  <2> HIDE DEF h
  <2>7. h = Idle \/ GoesOn(p, h, q)
    BY <2>4, <2>5, <2>6 DEF GoesOn
  <2> QED BY <2>1, <2>2, <2>3, <2>7, WriteMove
<1>3. CASE UpdateAnswerLost(p)
  <2> DEFINE h == [proc[p] EXCEPT !.pc = "reload", !.tries = @ + 1]
  <2>1. /\ proc[p].pc = "update" /\ q # proc[p].cur /\ CasHolds(i, proc[p].cur)
        /\ intents' = [intents EXCEPT ![i] = q] /\ proc' = [proc EXCEPT ![p] = h]
        /\ UNCHANGED <<orders, world, channel>> /\ faults' \in Nat
    BY <1>0, <1>3 DEF UpdateAnswerLost
  <2>2. /\ Loaded(p) /\ i \in Intents /\ q \in IntentRecord(Orders)
        /\ Succeeds(intents[i], q) /\ q.attempt = intents[i].attempt
    BY <1>1, <2>1
  <2>3. /\ h \in HandlerState /\ h.pc = "reload" /\ h.id = i
        /\ h.cur = proc[p].cur /\ h.newid = proc[p].newid
        /\ h.new = proc[p].new /\ h.op = proc[p].op
    BY <1>0 DEF HandlerState, PCs
  <2> HIDE DEF h, q
  <2>4. GoesOn(p, h, q)
    BY <2>3 DEF GoesOn
  <2> QED BY <2>1, <2>2, <2>3, <2>4, WriteMove
<1>4. CASE CancelWrite(p)
  <2> DEFINE c == CloseUnaccepted(proc[p].cur, "cancelled", proc[p].since)
  <2>1. /\ proc[p].pc = "cancel" /\ Return(p) /\ Loaded(p)
        /\ UNCHANGED <<orders, world, channel>> /\ faults' \in Nat
    BY <1>0, <1>4 DEF CancelWrite, Loaded
  <2>2. CASE UNCHANGED intents
    BY <2>1, <2>2, ReturnStep DEF store
  <2>3. CASE intents' # intents
    <3>1. CasHolds(i, proc[p].cur) /\ intents' = [intents EXCEPT ![i] = c]
      BY <1>4, <2>3 DEF CancelWrite
    <3>2. /\ proc[p].cur = intents[i] /\ i \in Intents /\ WellFormed(proc[p].cur)
          /\ proc[p].cur.revision >= 1 /\ proc[p].cur \in IntentRecord(Orders)
      BY <2>1, <3>1, CasExact
    <3>3. c \in IntentRecord(Orders) /\ (c = proc[p].cur \/
              (Succeeds(proc[p].cur, c) /\ c.attempt = proc[p].cur.attempt))
      BY <1>0, <3>2, RecordTypes, Successor
    <3> HIDE DEF c
    <3>4. c # proc[p].cur
      BY <2>3, <3>1, <3>2 DEF IInv, TypeOK
    <3> QED BY <1>0, <2>1, <3>1, <3>2, <3>3, <3>4, WriteMove DEF Return
  <2> QED BY <2>2, <2>3
<1> QED BY <1>2, <1>3, <1>4

\* The steps of prepare keep the invariant: a record is created only when
\* its order is free or the holder of the order is closed.
LEMMA PrepareInv ==
    ASSUME IInv, NEW p \in Agents,
           \/ \E i \in Intents, o \in Orders : PrepareTerms(p, i, o)
           \/ PrepareCreate(p) \/ PrepareExisting(p) \/ PrepareCompare(p)
           \/ PrepareReplace(p)
    PROVE  IInv'
<1>0. /\ proc[p] \in HandlerState /\ HandlerInv(p) /\ Idle \in HandlerState
      /\ proc[p].new \in IntentRecord(Orders) /\ proc[p].new.order \in Orders
      /\ now \in Nat /\ registry \in Nat /\ faults \in Nat
      /\ {"create", "existing", "compare", "replace", "update"} \subseteq PCs
      /\ {"none", "expire"} \subseteq Steps /\ "prepare" \in Ops
  BY HandlerFacts, ConstantTypes DEF PCs, Steps, Ops
<1>1. ASSUME NEW i \in Intents, NEW o \in Orders, PrepareTerms(p, i, o) PROVE IInv'
  <2>1. PICK d \in 1..Window :
           proc' = [proc EXCEPT ![p] =
              [Idle EXCEPT !.pc = "create", !.op = "prepare", !.newid = i,
                           !.new = PreparedIntent(o, now + d, registry, now)]]
    BY <1>1 DEF PrepareTerms
  <2> DEFINE n == PreparedIntent(o, now + d, registry, now)
             h == [Idle EXCEPT !.pc = "create", !.op = "prepare", !.newid = i, !.new = n]
  <2>2. /\ n \in IntentRecord(Orders) /\ n.status = "prepared" /\ n.revision = 1
        /\ ~n.attempt
    <3>1. now + d \in Nat
      BY <1>0, PaymentAssumption
    <3>2. n \in IntentRecord(Orders)
      BY <1>0, <3>1, ConstantTypes
    <3> QED BY <3>2 DEF PreparedIntent
  <2> HIDE DEF n
  <2>3. /\ h \in HandlerState /\ h.pc = "create" /\ h.op = "prepare" /\ h.newid = i
        /\ h.new = n
    BY <1>0, <2>2 DEF HandlerState
  <2> HIDE DEF h
  <2>4. /\ proc' = [proc EXCEPT ![p] = h] /\ Fresh(i) /\ faults' \in Nat
        /\ UNCHANGED <<store, world, channel>>
    BY <1>0, <1>1, <2>1 DEF PrepareTerms, h, n
  <2>5. ASSUME proc'[p] = h PROVE HandlerInv(p)'
    <3>1. Bound(p)' /\ Snapshot(p)' /\ Entitled(p)' /\ Timely(p)'
      BY <2>3, <2>5 DEF Bound, Snapshot, Loaded, Entitled, Timely
    <3>2. intents' = intents /\ \A z \in Agents : z # p => proc'[z] = proc[z]
      BY <2>4 DEF IInv, TypeOK, store
    <3>3. Candidate(p)'
      BY <2>2, <2>3, <2>4, <2>5, <3>2 DEF Candidate, Fresh, Exists
    <3> QED BY <3>1, <3>3 DEF HandlerInv
  <2> QED BY <2>3, <2>4, <2>5, QuietStep
<1>2. ASSUME proc[p].newid \in Intents,
             orders' = [orders EXCEPT ![proc[p].new.order] = proc[p].newid],
             intents' = [intents EXCEPT ![proc[p].newid] = proc[p].new],
             \/ orders[proc[p].new.order] = None
             \/ IsReplaceable(intents[orders[proc[p].new.order]]),
             Return(p), UNCHANGED <<world, channel, faults>>
      PROVE  IInv'
  <2>1. UNCHANGED <<approval, channel, now>> /\ UNCHANGED world /\ faults' \in Nat
    BY <1>0, <1>2 DEF world
  <2>2. /\ intents' \in [Intents -> IntentRecord(Orders)]
        /\ orders' \in [Orders -> Intents \cup {None}]
        /\ channel' \in [Intents -> Transactions] /\ TypeOK
    BY <1>0, <1>2, <2>1 DEF IInv, TypeOK
  <2>3. proc' = [proc EXCEPT ![p] = Idle]
    BY <1>2 DEF Return
  <2>4. TypeOK'
    BY <1>0, <2>1, <2>2, <2>3, StepType
  <2> QED BY <1>0, <1>2, <2>1, <2>3, <2>4, CreateStep
<1>3. CASE PrepareCreate(p)
  <2> DEFINE o == proc[p].new.order
             h == [proc[p] EXCEPT !.pc = "existing", !.id = orders[o]]
  <2>1. proc[p].pc = "create" /\ UNCHANGED <<world, channel, faults>>
        /\ proc[p].newid \in Intents
    BY <1>0, <1>3 DEF PrepareCreate, HandlerInv, Bound
  <2>2. CASE orders[o] = None
    BY <1>2, <1>3, <2>1, <2>2 DEF PrepareCreate
  <2>3. CASE orders[o] # None
    <3>1. orders[o] \in Intents /\ Exists(orders[o])
      BY <1>0, <2>3 DEF IInv, TypeOK, LiveOwnsOrder
    <3>2. proc' = [proc EXCEPT ![p] = h] /\ UNCHANGED <<store, world, channel>>
          /\ faults' \in Nat
      BY <1>0, <1>3, <2>3 DEF PrepareCreate
    <3>3. /\ h \in HandlerState /\ h.pc = "existing" /\ h.id = orders[o]
          /\ h.newid = proc[p].newid /\ h.new = proc[p].new /\ h.op = proc[p].op
      BY <1>0, <3>1 DEF HandlerState
    <3> HIDE DEF h
    <3>4. ASSUME proc'[p] = h PROVE HandlerInv(p)'
      <4>0. UNCHANGED <<intents, approval>>
        BY <3>2 DEF store, world
      <4>1. Bound(p)' /\ Snapshot(p)' /\ Timely(p)'
        BY <2>1, <3>1, <3>3, <3>4, <4>0 DEF Bound, Snapshot, Loaded, Timely, Exists
      <4>2. Candidate(p)'
        <5>1. \A z \in Agents : proc'[z].newid = proc[z].newid
          BY <3>2, <3>3, <3>4 DEF IInv, TypeOK
        <5> QED BY <1>0, <3>3, <3>4, <4>0, <5>1 DEF HandlerInv, Candidate, Exists
      <4>3. Entitled(p)'
        BY <1>0, <2>1, <3>3, <3>4, <4>0 DEF Entitled, HandlerInv, Bound
      <4> QED BY <4>1, <4>2, <4>3 DEF HandlerInv
    <3> QED BY <3>2, <3>3, <3>4, QuietStep
  <2> QED BY <2>2, <2>3
<1>4. CASE PrepareExisting(p)
  <2> DEFINE cur == intents[proc[p].id]
             due == cur.status = "prepared" /\ EffectiveStatus(cur, now) = "expired"
             st == IF due THEN "expire" ELSE "none"
             pc == IF due THEN "update" ELSE "compare"
             h == [proc[p] EXCEPT !.cur = cur, !.step = st, !.pc = pc]
  <2>1. /\ proc[p].pc = "existing" /\ proc' = [proc EXCEPT ![p] = h]
        /\ UNCHANGED <<store, world, channel>> /\ faults' \in Nat
    BY <1>0, <1>4 DEF PrepareExisting
  <2>2. st \in {"expire", "none"} /\ pc \in {"update", "compare"}
    OBVIOUS
  <2>3. proc[p].id \in Intents /\ proc[p].newid \in Intents
    BY <1>0, <2>1 DEF HandlerInv, Bound
  <2>4. cur \in IntentRecord(Orders)
    BY <2>3, HandlerFacts
  <2> HIDE DEF st, pc, due
  <2>5. /\ h \in HandlerState /\ h.pc = pc /\ h.id = proc[p].id /\ h.cur = cur
        /\ h.newid = proc[p].newid /\ h.new = proc[p].new /\ h.op = proc[p].op
    BY <1>0, <2>2, <2>4 DEF HandlerState
  <2> HIDE DEF h
  <2> QED BY <2>1, <2>2, <2>3, <2>5, MoveStep
<1>5. CASE PrepareCompare(p)
  <2> DEFINE h == [proc[p] EXCEPT !.pc = "replace"]
  <2>1. /\ proc[p].pc = "compare" /\ UNCHANGED <<store, world, channel>> /\ faults' \in Nat
    BY <1>0, <1>5 DEF PrepareCompare
  <2>2. CASE Return(p)
    BY <2>1, <2>2, ReturnStep
  <2>3. CASE proc' = [proc EXCEPT ![p] = h]
    <3>1. proc[p].newid \in Intents
      BY <1>0, <2>1 DEF HandlerInv, Bound
    <3>2. /\ h \in HandlerState /\ h.pc = "replace" /\ h.id = proc[p].id
          /\ h.cur = proc[p].cur
          /\ h.newid = proc[p].newid /\ h.new = proc[p].new /\ h.op = proc[p].op
      BY <1>0 DEF HandlerState
    <3> HIDE DEF h
    <3> QED BY <2>1, <2>3, <3>1, <3>2, MoveStep DEF Loaded
  <2> QED BY <1>5, <2>2, <2>3 DEF PrepareCompare, Goto
<1>6. CASE PrepareReplace(p)
  <2>1. /\ proc[p].pc = "replace" /\ UNCHANGED <<world, channel, faults>> /\ Return(p)
        /\ proc[p].newid \in Intents /\ faults' \in Nat
    BY <1>0, <1>6 DEF PrepareReplace, HandlerInv, Bound
  <2>2. CASE UNCHANGED store
    BY <2>1, <2>2, ReturnStep
  <2>3. CASE ~UNCHANGED store
    BY <1>2, <1>6, <2>1, <2>3 DEF PrepareReplace
  <2> QED BY <2>2, <2>3
<1> QED BY <1>1, <1>3, <1>4, <1>5, <1>6

\* The steps of execute up to the submission keep the invariant: consent
\* and expiry are checked before the acceptance is written.
LEMMA ExecuteInv ==
    ASSUME IInv, NEW p \in Agents, ExecuteRegistry(p) \/ ExecuteAccept(p)
    PROVE  IInv'
<1>0. /\ proc[p] \in HandlerState /\ HandlerInv(p) /\ Idle \in HandlerState
      /\ now \in Nat /\ faults \in Nat /\ proc[p].since \in Nat
      /\ {"accept", "submit"} \subseteq PCs
      /\ now <= now /\ now <= now + CallLatency
  <2>1. now \in Nat
    BY HandlerFacts
  <2>2. now <= now /\ now <= now + CallLatency
    BY <2>1, PaymentAssumption
  <2> QED BY <2>2, HandlerFacts, ConstantTypes DEF PCs
<1>1. CASE ExecuteRegistry(p)
  <2> DEFINE h == [proc[p] EXCEPT !.pc = "accept", !.since = now]
  <2>1. /\ proc[p].pc = "registry" /\ UNCHANGED <<store, world, channel>> /\ faults' \in Nat
    BY <1>0, <1>1 DEF ExecuteRegistry
  <2>2. CASE Return(p)
    BY <2>1, <2>2, ReturnStep
  <2>3. CASE ~Return(p)
    <3>1. proc' = [proc EXCEPT ![p] = h] /\ proc[p].cur.status = "prepared"
      BY <1>1, <2>3 DEF ExecuteRegistry, Acceptable
    <3>2. proc[p].op = "execute" /\ ~proc[p].cur.attempt
      BY <1>0, <2>1 DEF HandlerInv, Entitled
    <3>3. /\ h \in HandlerState /\ h.pc = "accept" /\ h.id = proc[p].id
          /\ h.cur = proc[p].cur /\ h.since = now
          /\ h.newid = proc[p].newid /\ h.new = proc[p].new /\ h.op = proc[p].op
      BY <1>0 DEF HandlerState
    <3> HIDE DEF h
    <3> QED BY <1>0, <2>1, <3>1, <3>2, <3>3, MoveStep DEF Loaded
  <2> QED BY <2>2, <2>3
<1>2. CASE ExecuteAccept(p)
  <2> DEFINE i == proc[p].id
             r == proc[p].cur
             q == Accept(r, Retention, proc[p].since)
             h == [proc[p] EXCEPT !.pc = "submit", !.cur = q]
  <2>1. /\ proc[p].pc = "accept" /\ UNCHANGED <<orders, world, channel>> /\ faults' \in Nat
        /\ Loaded(p)
    BY <1>0, <1>2 DEF ExecuteAccept, Loaded
  <2>2. CASE Return(p) /\ UNCHANGED intents
    BY <2>1, <2>2, ReturnStep DEF store
  <2>3. CASE ~(Return(p) /\ UNCHANGED intents)
    <3>1. /\ CasHolds(i, r) /\ proc[p].since < intents[i].before
          /\ intents' = [intents EXCEPT ![i] = q] /\ proc' = [proc EXCEPT ![p] = h]
      BY <1>2, <2>3 DEF ExecuteAccept
    <3>2. r = intents[i] /\ i \in Intents /\ r \in IntentRecord(Orders) /\ r.revision \in Nat
      BY <2>1, <3>1, CasExact DEF IntentRecord
    <3>3. /\ r.status = "prepared" /\ ~r.attempt /\ approval[i] # "none"
          /\ proc[p].since <= now /\ now <= proc[p].since + CallLatency
      BY <1>0, <2>1 DEF HandlerInv, Entitled, Timely
    <3>4. /\ q.revision = r.revision + 1 /\ q.order = r.order /\ q.status = "accepted"
          /\ q.attempt /\ q.expires = proc[p].since + Retention
          /\ q \in IntentRecord(Orders)
      <4>1. q = [NextRevision(r, "accepted", proc[p].since)
                   EXCEPT !.attempt = TRUE, !.expires = proc[p].since + Retention]
        BY <3>1, <3>2, <3>3 DEF Accept, Acceptable
      <4>2. "expired" \in Closed /\ Indeterminate \in Outcome /\ Retention \in Nat
        BY PaymentAssumption, ConstantTypes DEF Closed
      <4>3. q \in IntentRecord(Orders)
        BY <1>0, <3>2, <4>2, RecordTypes
      <4> QED BY <3>2, <4>1, <4>3 DEF NextRevision, IntentRecord
    <3> HIDE DEF q
    <3>5. Succeeds(intents[i], q)
      <4>1. WellFormed(q)
        <5>1. q.revision # 0
          BY <3>2, <3>4
        <5> QED BY <3>4, <5>1 DEF WellFormed, Unsettled
      <4> QED BY <3>2, <3>3, <3>4, <4>1 DEF Succeeds, Closed
    <3>6. q.expires <= now + Retention
      BY <1>0, <3>3, <3>4, PaymentAssumption
    <3>7. ~(channel[i].count > 0)
      BY <3>2, <3>3 DEF IInv, Accepted
    <3>8. /\ h \in HandlerState /\ h.pc = "submit" /\ h.id = i
          /\ h.cur = q /\ h.since = proc[p].since
          /\ h.newid = proc[p].newid /\ h.new = proc[p].new /\ h.op = proc[p].op
      BY <1>0, <3>4 DEF HandlerState
    <3> HIDE DEF h
    <3>9. GoesOn(p, h, q)
      BY <3>3, <3>4, <3>7, <3>8 DEF GoesOn
    <3> QED BY <2>1, <3>1, <3>3, <3>4, <3>5, <3>6, <3>8, <3>9, WriteMove
  <2> QED BY <2>2, <2>3
<1> QED BY <1>1, <1>2

\* The steps of reconcile keep the invariant: the channel is asked, and a
\* submission is repeated only inside the idempotency window.
LEMMA ReconcileInv ==
    ASSUME IInv, NEW p \in Agents, QueryFound(p) \/ QueryNotFound(p) \/ WindowCheck(p)
    PROVE  IInv'
<1> DEFINE i == proc[p].id
           c == channel[i]
<1>0. /\ proc[p] \in HandlerState /\ HandlerInv(p)
      /\ now \in Nat /\ faults \in Nat /\ proc[p].since \in Nat
      /\ proc[p].cur \in IntentRecord(Orders)
      /\ {"update", "window", "submit"} \subseteq PCs /\ {"outcome", "review"} \subseteq Steps
      /\ now <= now /\ now <= now + CallLatency
  <2>1. now \in Nat
    BY HandlerFacts
  <2>2. now <= now /\ now <= now + CallLatency
    BY <2>1, PaymentAssumption
  <2> QED BY <2>2, HandlerFacts DEF PCs, Steps
<1>1. ASSUME proc[p].pc \in {"query", "window"}
      PROVE  /\ i \in Intents /\ c \in Transactions /\ c.at \in Nat /\ c.count \in Nat
             /\ proc[p].cur.attempt /\ proc[p].cur.expires \in Nat
             /\ c.count > 0 => proc[p].cur.expires <= c.at + Retention
             /\ Loaded(p)
  <2>1. /\ i \in Intents /\ proc[p].cur.attempt /\ Accepted(i) /\ c \in Transactions
        /\ intents[i].expires = proc[p].cur.expires /\ Loaded(p)
    BY <1>0, <1>1 DEF IInv, TypeOK, HandlerInv, Bound, Entitled, Snapshot, Loaded
  <2>2. c.at \in Nat /\ c.count \in Nat /\ proc[p].cur.expires \in Nat
    BY <1>0, <2>1 DEF Transactions, IntentRecord
  <2> QED BY <2>1, <2>2 DEF Accepted
<1>2. CASE QueryFound(p)
  <2> DEFINE h == [proc[p] EXCEPT !.pc = "update", !.step = "outcome", !.out = Report(i)]
  <2>1. /\ proc[p].pc = "query" /\ proc' = [proc EXCEPT ![p] = h]
        /\ UNCHANGED <<store, world, channel>> /\ faults' \in Nat
    BY <1>0, <1>2 DEF QueryFound
  <2>2. Report(i) \in Outcome /\ Loaded(p)
    BY <1>1, <2>1 DEF Report, Outcome, Transactions
  <2>3. /\ h \in HandlerState /\ h.pc = "update" /\ h.id = i /\ h.cur = proc[p].cur
        /\ h.newid = proc[p].newid /\ h.new = proc[p].new /\ h.op = proc[p].op
    BY <1>0, <2>2 DEF HandlerState
  <2> HIDE DEF h
  <2> QED BY <2>1, <2>2, <2>3, MoveStep
<1>3. CASE QueryNotFound(p)
  <2> DEFINE h == [proc[p] EXCEPT !.pc = "window", !.since = now]
  <2>1. /\ proc[p].pc = "query" /\ proc' = [proc EXCEPT ![p] = h] /\ ~Remembered(i)
        /\ UNCHANGED <<store, world, channel>> /\ faults' \in Nat
    BY <1>0, <1>3 DEF QueryNotFound
  <2>2. /\ Loaded(p) /\ proc[p].cur.attempt
        /\ c.count > 0 => proc[p].cur.expires <= now
    BY <1>0, <1>1, <2>1, PaymentAssumption DEF Remembered
  <2>3. /\ h \in HandlerState /\ h.pc = "window" /\ h.id = i /\ h.cur = proc[p].cur
        /\ h.newid = proc[p].newid /\ h.new = proc[p].new /\ h.op = proc[p].op
        /\ h.since = now
    BY <1>0 DEF HandlerState
  <2> HIDE DEF h
  <2> QED BY <1>0, <2>1, <2>2, <2>3, MoveStep
<1>4. CASE WindowCheck(p)
  <2>1. /\ proc[p].pc = "window" /\ UNCHANGED <<store, world, channel>> /\ faults' \in Nat
        /\ Loaded(p) /\ proc[p].cur.attempt
    BY <1>0, <1>1, <1>4 DEF WindowCheck
  <2>2. CASE now < proc[p].cur.expires
    <3> DEFINE h == [proc[p] EXCEPT !.pc = "submit"]
    <3>1. proc' = [proc EXCEPT ![p] = h]
      BY <1>4, <2>2 DEF WindowCheck, Goto
    <3>2. /\ proc[p].since <= now /\ now <= proc[p].since + CallLatency
          /\ c.count > 0 => proc[p].since <= c.at \/ proc[p].cur.expires <= proc[p].since
      BY <1>0, <2>1 DEF HandlerInv, Timely
    <3>3. c.count > 0 => proc[p].since <= c.at
      BY <1>0, <1>1, <2>1, <2>2, <3>2
    <3>4. /\ h \in HandlerState /\ h.pc = "submit" /\ h.id = i /\ h.cur = proc[p].cur
          /\ h.newid = proc[p].newid /\ h.new = proc[p].new /\ h.op = proc[p].op
          /\ h.since = proc[p].since
      BY <1>0 DEF HandlerState
    <3> HIDE DEF h
    <3> QED BY <2>1, <3>1, <3>2, <3>3, <3>4, MoveStep
  <2>3. CASE ~(now < proc[p].cur.expires)
    <3> DEFINE h == [proc[p] EXCEPT !.pc = "update", !.step = "review"]
    <3>1. proc' = [proc EXCEPT ![p] = h]
      BY <1>4, <2>3 DEF WindowCheck
    <3>2. /\ h \in HandlerState /\ h.pc = "update" /\ h.id = i /\ h.cur = proc[p].cur
          /\ h.newid = proc[p].newid /\ h.new = proc[p].new /\ h.op = proc[p].op
      BY <1>0 DEF HandlerState
    <3> HIDE DEF h
    <3> QED BY <2>1, <3>1, <3>2, MoveStep
  <2> QED BY <2>2, <2>3
<1> QED BY <1>2, <1>3, <1>4

\* A submission to the channel keeps the invariant: the channel charges
\* a key it has not seen, and the key is that of an accepted attempt.
LEMMA SubmitInv ==
    ASSUME IInv, NEW p \in Agents,
           \/ \E s \in InitialStates : SubmitAnswered(p, s) \/ SubmitAnswerLost(p, s)
           \/ SubmitLost(p) \/ Abort(p)
    PROVE  IInv'
<1> DEFINE i == proc[p].id
<1>0. /\ proc[p] \in HandlerState /\ HandlerInv(p) /\ now \in Nat
      /\ faults \in Nat /\ faults + 1 \in Nat /\ Indeterminate \in Outcome
      /\ "update" \in PCs /\ "outcome" \in Steps
  BY HandlerFacts, ConstantTypes DEF PCs, Steps
<1>1. ASSUME NEW s \in ChannelState, NEW out \in Outcome, proc[p].pc = "submit",
             channel' = [channel EXCEPT ![i] = Processed(i, s)],
             Submitted(p, out), UNCHANGED <<store, world>>, faults' \in Nat
      PROVE  IInv'
  <2>1. i \in Intents /\ channel[i] \in Transactions
    BY <1>0, <1>1 DEF HandlerInv, Bound, IInv, TypeOK
  <2>2. Processed(i, s) \in Transactions
    <3>1. channel[i].count + 1 \in Nat
      BY <2>1 DEF Transactions
    <3> QED BY <1>0, <2>1, <3>1 DEF Processed, Transactions
  <2> DEFINE h == [proc[p] EXCEPT !.pc = "update", !.step = "outcome", !.out = out]
  <2>3. proc' = [proc EXCEPT ![p] = h] /\ h \in HandlerState
    BY <1>0, <1>1 DEF Submitted, HandlerState
  <2>4. UNCHANGED <<intents, orders, approval, now>> /\ UNCHANGED world
    BY <1>1 DEF store, world
  <2>5. /\ intents' \in [Intents -> IntentRecord(Orders)]
        /\ orders' \in [Orders -> Intents \cup {None}]
        /\ channel' \in [Intents -> Transactions] /\ TypeOK
    BY <1>1, <2>1, <2>2, <2>4 DEF IInv, TypeOK
  <2> HIDE DEF h
  <2>6. TypeOK'
    BY <1>1, <2>3, <2>4, <2>5, StepType
  <2> QED BY <1>1, <2>4, <2>6, SubmitStep
<1>2. ASSUME NEW s \in InitialStates, SubmitAnswered(p, s) PROVE IInv'
  <2> DEFINE out == [state |-> channel'[i].state, txn |-> channel'[i].count, ok |-> TRUE]
  <2>0. s \in ChannelState
    BY PaymentAssumption
  <2>1. /\ proc[p].pc = "submit" /\ channel' = [channel EXCEPT ![i] = Processed(i, s)]
        /\ Submitted(p, out) /\ UNCHANGED <<store, world>> /\ faults' \in Nat
    BY <1>0, <1>2 DEF SubmitAnswered
  <2>2. i \in Intents /\ channel[i] \in Transactions
    BY <1>0, <2>1 DEF HandlerInv, Bound, IInv, TypeOK
  <2>3. Processed(i, s) \in Transactions
    <3>1. channel[i].count + 1 \in Nat
      BY <2>2 DEF Transactions
    <3> QED BY <1>0, <2>0, <2>2, <3>1 DEF Processed, Transactions
  <2>4. channel'[i] \in Transactions
    BY <2>1, <2>2, <2>3 DEF IInv, TypeOK
  <2>5. out \in Outcome
    BY <2>4 DEF Transactions, Outcome
  <2> HIDE DEF out
  <2> QED BY <1>1, <2>0, <2>1, <2>5
<1>3. ASSUME NEW s \in InitialStates, SubmitAnswerLost(p, s) PROVE IInv'
  <2>1. s \in ChannelState
    BY PaymentAssumption
  <2> QED BY <1>0, <1>1, <1>3, <2>1 DEF SubmitAnswerLost
<1>4. CASE SubmitLost(p)
  <2> DEFINE h == [proc[p] EXCEPT !.pc = "update", !.step = "outcome", !.out = Indeterminate]
  <2>1. /\ proc[p].pc = "submit" /\ proc' = [proc EXCEPT ![p] = h]
        /\ UNCHANGED <<store, world, channel>> /\ faults' \in Nat
    BY <1>0, <1>4 DEF SubmitLost, Submitted
  <2>2. /\ h \in HandlerState /\ h.pc = "update" /\ h.id = i /\ h.cur = proc[p].cur
        /\ h.newid = proc[p].newid /\ h.new = proc[p].new /\ h.op = proc[p].op
    BY <1>0 DEF HandlerState
  <2> HIDE DEF h
  <2> QED BY <2>1, <2>2, MoveStep DEF Loaded
<1>5. CASE Abort(p)
  BY <1>0, <1>5, ReturnStep DEF Abort
<1> QED BY <1>2, <1>3, <1>4, <1>5

\* An environment step that no handler's knowledge depends on.
LEMMA OutsideStep ==
    ASSUME IInv, UNCHANGED <<intents, orders, proc>>, TypeOK',
           now <= now', now' \in Nat,
           \A i \in Intents : approval[i] # "none" => approval'[i] # "none",
           \A i \in Intents : channel'[i].count = channel[i].count
                              /\ channel'[i].at = channel[i].at,
           \A p \in Agents : proc[p].pc \in {"accept", "window", "submit"} =>
              now' <= proc[p].since + CallLatency
    PROVE  IInv'
<1>0. now \in Nat /\ Retention \in Nat
  BY PaymentAssumption DEF IInv, TypeOK
<1>1. ASSUME NEW p \in Agents PROVE HandlerInv(p)'
  <2>0. HandlerInv(p) /\ proc[p].since \in Nat
    BY HandlerFacts
  <2>1. Bound(p)' /\ Candidate(p)' /\ Snapshot(p)'
    BY <2>0 DEF HandlerInv, Bound, Candidate, Snapshot, Loaded, Exists
  <2>2. Entitled(p)'
    <3>1. proc[p].op = "execute" => proc[p].id \in Intents
      BY <2>0 DEF HandlerInv, Entitled, Bound
    <3> QED BY <2>0, <3>1 DEF HandlerInv, Entitled
  <2>3. Timely(p)'
    <3>1. proc[p].pc \in {"accept", "window", "submit"} => proc[p].id \in Intents
      BY <2>0 DEF HandlerInv, Bound
    <3> QED BY <1>0, <2>0, <3>1 DEF HandlerInv, Timely
  <2> QED BY <2>1, <2>2, <2>3 DEF HandlerInv
<1>2. LiveOwnsOrder'
  BY DEF IInv, LiveOwnsOrder, Exists
<1>3. ASSUME NEW i \in Intents PROVE Accepted(i)'
  <2>1. /\ Accepted(i) /\ intents[i].expires \in Nat /\ channel[i].at \in Nat
    BY DEF IInv, TypeOK, IntentRecord, Transactions
  <2> QED BY <1>0, <2>1 DEF Accepted
<1> QED BY <1>1, <1>2, <1>3 DEF IInv, HandlerInv

\* Channel settlement, forgetting of keys, the clock, revoked consent and
\* crashes keep the invariant.
LEMMA EnvironmentInv ==
    ASSUME IInv, Environment
    PROVE  IInv'
<1>0. /\ TypeOK /\ now \in Nat /\ registry \in Nat /\ sent \in Nat
      /\ now + 1 \in Nat /\ registry + 1 \in Nat /\ sent + 1 \in Nat
      /\ now <= now /\ now <= now + 1
      /\ \A i \in Intents : channel[i] \in Transactions
  <2>1. TypeOK /\ now \in Nat /\ registry \in Nat /\ sent \in Nat
        /\ \A i \in Intents : channel[i] \in Transactions
    BY DEF IInv, TypeOK
  <2>2. /\ now + 1 \in Nat /\ registry + 1 \in Nat /\ sent + 1 \in Nat
        /\ now <= now /\ now <= now + 1
    BY <2>1
  <2> QED BY <2>1, <2>2
<1>1. \A p \in Agents : proc[p].pc \in {"accept", "window", "submit"} =>
         now <= proc[p].since + CallLatency
  BY DEF IInv, Timely
<1>2. ASSUME NEW i \in Intents, NEW s \in ChannelState, ChannelSettle(i, s) PROVE IInv'
  <2>1. /\ channel' = [channel EXCEPT ![i].state = s] /\ UNCHANGED <<intents, orders, proc>>
        /\ UNCHANGED <<approval, registry, queue, callbacks, sent, now, faults>>
    BY <1>2 DEF ChannelSettle, store, world
  <2>2. channel' = [channel EXCEPT ![i] = [channel[i] EXCEPT !.state = s]]
    BY <2>1
  <2>3. /\ [channel[i] EXCEPT !.state = s] \in Transactions
        /\ [channel[i] EXCEPT !.state = s].count = channel[i].count
        /\ [channel[i] EXCEPT !.state = s].at = channel[i].at
    BY <1>0 DEF Transactions
  <2>4. channel' \in [Intents -> Transactions]
    BY <1>0, <2>2, <2>3 DEF TypeOK
  <2>5. TypeOK'
    BY <1>0, <2>1, <2>4 DEF TypeOK
  <2>6. \A j \in Intents : channel'[j].count = channel[j].count
                           /\ channel'[j].at = channel[j].at
    BY <1>0, <2>2, <2>3 DEF TypeOK
  <2> QED BY <1>0, <1>1, <2>1, <2>5, <2>6, OutsideStep
<1>3. ASSUME NEW i \in Intents, NEW ok \in BOOLEAN, ChannelCallback(i, ok) PROVE IInv'
  <2>1. /\ callbacks' = callbacks \cup {[id |-> i, report |-> [Report(i) EXCEPT !.ok = ok]]}
        /\ sent' = sent + 1 /\ UNCHANGED <<intents, orders, proc>>
        /\ UNCHANGED <<approval, registry, queue, channel, now, faults>>
    BY <1>3 DEF ChannelCallback, store
  <2>2. [Report(i) EXCEPT !.ok = ok] \in Outcome
    <3>1. Report(i) \in Outcome
      BY <1>0 DEF Report, Outcome, Transactions
    <3> QED BY <3>1 DEF Outcome
  <2>3. callbacks' \subseteq [id : Intents, report : Outcome]
    <3> DEFINE r == [Report(i) EXCEPT !.ok = ok]
    <3> HIDE DEF r
    <3>1. r \in Outcome /\ callbacks' = callbacks \cup {[id |-> i, report |-> r]}
      BY <2>1, <2>2 DEF r
    <3>2. [id |-> i, report |-> r] \in [id : Intents, report : Outcome]
      BY <3>1
    <3> QED BY <1>0, <3>1, <3>2 DEF TypeOK
  <2>4. TypeOK'
    BY <1>0, <2>1, <2>3 DEF TypeOK
  <2> QED BY <1>0, <1>1, <2>1, <2>4, OutsideStep
<1>4. ASSUME NEW i \in Intents, Approve(i) \/ Revoke(i) PROVE IInv'
  <2>1. /\ \/ approval' = [approval EXCEPT ![i] = "live"]
           \/ approval' = [approval EXCEPT ![i] = "revoked"]
        /\ UNCHANGED <<intents, orders, proc>>
        /\ UNCHANGED <<registry, queue, channel, callbacks, sent, now, faults>>
    BY <1>4 DEF Approve, Revoke, store
  <2>2. /\ approval' \in [Intents -> {"none", "live", "revoked"}]
        /\ \A j \in Intents : approval[j] # "none" => approval'[j] # "none"
    BY <1>0, <2>1 DEF TypeOK
  <2>3. TypeOK'
    BY <1>0, <2>1, <2>2 DEF TypeOK
  <2> QED BY <1>0, <1>1, <2>1, <2>2, <2>3, OutsideStep
<1>5. CASE RegistryChange
  <2>1. /\ registry' = registry + 1 /\ UNCHANGED <<intents, orders, proc>>
        /\ UNCHANGED <<approval, queue, channel, callbacks, sent, now, faults>>
    BY <1>5 DEF RegistryChange, store
  <2>2. TypeOK'
    BY <1>0, <2>1 DEF TypeOK
  <2> QED BY <1>0, <1>1, <2>1, <2>2, OutsideStep
<1>6. CASE Tick
  <2>1. /\ now' = now + 1 /\ UNCHANGED <<intents, orders, proc>>
        /\ \A p \in Agents : ~Urgent(p)
        /\ UNCHANGED <<approval, registry, queue, channel, callbacks, sent, faults>>
    BY <1>6 DEF Tick, store
  <2>2. TypeOK'
    BY <1>0, <2>1 DEF TypeOK
  <2>3. ASSUME NEW p \in Agents, proc[p].pc \in {"accept", "window", "submit"}
        PROVE  now' <= proc[p].since + CallLatency
    <3>1. proc[p].since \in Nat /\ ~(now >= proc[p].since + CallLatency)
      BY <2>1, <2>3, HandlerFacts DEF Urgent
    <3> QED BY <1>0, <2>1, <3>1, PaymentAssumption
  <2> QED BY <1>0, <2>1, <2>2, <2>3, OutsideStep
<1> QED BY <1>2, <1>3, <1>4, <1>5, <1>6 DEF Environment

\* A callback of the channel keeps the invariant: it enters as an update
\* of the record it names.
LEMMA CallbackInv ==
    ASSUME IInv, NEW p \in Agents, NEW m \in callbacks, CallbackLoad(p, m)
    PROVE  IInv'
<1>0. /\ TypeOK /\ m.id \in Intents /\ m.report \in Outcome /\ Idle \in HandlerState
      /\ Idle.newid = None /\ intents[m.id] \in IntentRecord(Orders)
      /\ WellFormed(intents[m.id])
      /\ "update" \in PCs /\ "callback" \in Ops /\ "outcome" \in Steps
  <2>1. Idle \in HandlerState
    BY ConstantTypes
  <2>2. TypeOK /\ m.id \in Intents /\ m.report \in Outcome
    BY DEF IInv, TypeOK
  <2>3. intents[m.id] \in IntentRecord(Orders) /\ WellFormed(intents[m.id])
    BY <2>2 DEF IInv, TypeOK, Accepted
  <2> QED BY <2>1, <2>2, <2>3 DEF PCs, Ops, Steps, Idle
<1> DEFINE h == [Idle EXCEPT !.pc = "update", !.op = "callback", !.id = m.id,
                             !.cur = intents[m.id], !.step = "outcome",
                             !.out = m.report]
<1>1. /\ h \in HandlerState /\ h.id = m.id /\ h.cur = intents[m.id] /\ h.newid = None
      /\ h.pc = "update" /\ h.op = "callback"
  BY <1>0 DEF HandlerState
<1>2. /\ callbacks' \subseteq callbacks
      /\ UNCHANGED <<intents, orders>>
      /\ UNCHANGED <<approval, registry, queue, channel, sent, now, faults>>
      /\ \/ intents[m.id].attempt /\ proc' = [proc EXCEPT ![p] = h]
         \/ UNCHANGED proc
  BY DEF CallbackLoad, store
<1> HIDE DEF h
<1>3. TypeOK'
  <2>1. proc' \in [Agents -> HandlerState]
    BY <1>0, <1>1, <1>2 DEF TypeOK
  <2>2. callbacks' \subseteq [id : Intents, report : Outcome]
    BY <1>0, <1>2 DEF TypeOK
  <2> QED BY <1>0, <1>2, <2>1, <2>2 DEF TypeOK
<1>4. CASE intents[m.id].attempt /\ proc' = [proc EXCEPT ![p] = h]
  <2>1. Exists(m.id)
    BY <1>0, <1>4 DEF WellFormed, Exists, Unsettled, Settled
  <2>2. UNCHANGED <<intents, orders, approval, channel, now>>
    BY <1>2
  <2> QED BY <1>0, <1>1, <1>3, <1>4, <2>1, <2>2, StartStep
<1>5. CASE UNCHANGED proc
  <2>1. /\ now \in Nat /\ now <= now
        /\ \A z \in Agents : proc[z].pc \in {"accept", "window", "submit"} =>
              now <= proc[z].since + CallLatency
    BY <1>0 DEF IInv, TypeOK, Timely
  <2> QED BY <1>2, <1>3, <1>5, <2>1, OutsideStep
<1> QED BY <1>2, <1>4, <1>5

\* The recovery pass (reconcile_unsettled) keeps the invariant: it drives
\* the reconciliation of the attempts it has listed.
LEMMA WorkerInv ==
    ASSUME IInv, NEW w \in Workers, WorkerList(w) \/ WorkerNext(w)
    PROVE  IInv'
<1>0. /\ TypeOK /\ w \in Agents /\ queue[w] \in Seq(Intents)
      /\ now \in Nat /\ now <= now
      /\ \A z \in Agents : proc[z].pc \in {"accept", "window", "submit"} =>
            now <= proc[z].since + CallLatency
  BY DEF IInv, TypeOK, Agents, Timely
<1>1. CASE WorkerList(w)
  <2>1. PICK n \in 1..Cardinality(UnsettledIntents) :
           \E list \in [1..n -> UnsettledIntents] : queue' = [queue EXCEPT ![w] = list]
    BY <1>1 DEF WorkerList
  <2>2. PICK list \in [1..n -> UnsettledIntents] : queue' = [queue EXCEPT ![w] = list]
    BY <2>1
  <2>3. list \in Seq(Intents)
    <3>1. n \in Nat /\ UnsettledIntents \subseteq Intents
      BY DEF UnsettledIntents
    <3>2. list \in [1..n -> Intents]
      BY <3>1
    <3> QED BY <3>1, <3>2
  <2>4. queue' \in [Workers -> Seq(Intents)]
    BY <1>0, <2>2, <2>3 DEF TypeOK
  <2>5. /\ UNCHANGED <<intents, orders, proc>>
        /\ UNCHANGED <<approval, registry, channel, callbacks, sent, now, faults>>
    BY <1>1 DEF WorkerList, store
  <2>6. TypeOK'
    BY <1>0, <2>4, <2>5 DEF TypeOK
  <2> QED BY <1>0, <2>5, <2>6, OutsideStep
<1>2. CASE WorkerNext(w)
  <2> DEFINE i == Head(queue[w])
             h == [Idle EXCEPT !.pc = "query", !.op = "reconcile", !.id = i,
                               !.cur = intents[i]]
  <2>1. queue[w] # <<>> /\ queue' = [queue EXCEPT ![w] = Tail(@)]
        /\ UNCHANGED <<intents, orders>>
        /\ UNCHANGED <<approval, registry, channel, callbacks, sent, now, faults>>
    BY <1>2 DEF WorkerNext, store
  <2>2. i \in Intents /\ Tail(queue[w]) \in Seq(Intents)
    BY <1>0, <2>1
  <2>3. queue' \in [Workers -> Seq(Intents)]
    BY <1>0, <2>1, <2>2 DEF TypeOK
  <2>4. /\ intents[i] \in IntentRecord(Orders) /\ Idle \in HandlerState
        /\ Idle.newid = None /\ "query" \in PCs /\ "reconcile" \in Ops
    <3>1. Idle \in HandlerState
      BY ConstantTypes
    <3> QED BY <1>0, <2>2, <3>1 DEF TypeOK, PCs, Ops, Idle
  <2>5. /\ h \in HandlerState /\ h.id = i /\ h.cur = intents[i] /\ h.newid = None
        /\ h.pc = "query" /\ h.op = "reconcile"
    BY <2>2, <2>4 DEF HandlerState
  <2>6. \/ /\ proc' = [proc EXCEPT ![w] = h] /\ intents[i].attempt
           /\ intents[i].status \in Unsettled
        \/ UNCHANGED proc
    BY <1>2 DEF WorkerNext, ReconcileLoad
  <2> HIDE DEF h
  <2>7. TypeOK'
    <3>1. proc' \in [Agents -> HandlerState]
      BY <1>0, <2>5, <2>6 DEF TypeOK
    <3> QED BY <1>0, <2>1, <2>3, <3>1 DEF TypeOK
  <2>8. UNCHANGED <<intents, orders, approval, channel, now>>
    BY <2>1
  <2>9. CASE UNCHANGED proc
    BY <1>0, <2>7, <2>8, <2>9, OutsideStep
  <2>10. CASE ~UNCHANGED proc
    <3>1. Exists(i)
      BY <2>6, <2>10 DEF Exists, Unsettled
    <3> QED BY <1>0, <2>2, <2>5, <2>6, <2>7, <2>8, <2>10, <3>1, StartStep
  <2> QED BY <2>9, <2>10
<1> QED BY <1>1, <1>2

-----------------------------------------------------------------------------

\* The initial state satisfies the inductive invariant.
LEMMA InitInv == Init => IInv
<1> SUFFICES ASSUME Init PROVE IInv
  OBVIOUS
<1>1. TypeOK
  BY TypeInit
<1>2. ASSUME NEW p \in Agents PROVE HandlerInv(p)
  <2>1. proc[p] = Idle
    BY DEF Init
  <2> QED BY <2>1, PaymentAssumption
       DEF HandlerInv, Bound, Candidate, Snapshot, Loaded, Entitled, Timely, Idle
<1>3. \A i \in Intents : intents[i].status = "absent" /\ intents[i].revision = 0
                         /\ ~intents[i].attempt
  BY DEF Init, Absent, PreparedIntent
<1>4. LiveOwnsOrder
  BY <1>3 DEF Init, LiveOwnsOrder
<1>5. ASSUME NEW i \in Intents PROVE Accepted(i)
  <2>1. channel[i].count = 0
    BY DEF Init, NoTransaction
  <2> QED BY <1>3, <2>1 DEF Accepted, WellFormed, Unsettled, Settled
<1> QED BY <1>1, <1>2, <1>4, <1>5 DEF IInv, HandlerInv

\* Every step of the payment system keeps the inductive invariant.
LEMMA NextInv == IInv /\ [Next]_vars => IInv'
<1> SUFFICES ASSUME IInv, [Next]_vars PROVE IInv'
  OBVIOUS
<1>1. ASSUME NEW p \in Agents, Continue(p) PROVE IInv'
  BY <1>1, UpdateInv, WriteInv, PrepareInv, ExecuteInv, ReconcileInv, SubmitInv
     DEF Continue
<1>2. ASSUME NEW p \in Agents, Fault(p) PROVE IInv'
  BY <1>2, WriteInv, SubmitInv DEF Fault
<1>3. ASSUME NEW p \in Procs, Request(p) PROVE IInv'
  <2>1. p \in Agents
    BY DEF Agents
  <2> QED BY <1>3, <2>1, PrepareInv, RequestInv, CallbackInv DEF Request
<1>4. CASE UNCHANGED vars
  BY <1>4 DEF vars, IInv, TypeOK, Bound, Candidate, Snapshot, Loaded, Entitled,
              Timely, LiveOwnsOrder, Accepted, Exists
<1> QED BY <1>1, <1>2, <1>3, <1>4, WorkerInv, EnvironmentInv DEF Next

\* The inductive invariant holds in every reachable state, for every set
\* of attempts, orders, handlers and workers.
THEOREM Invariance == Spec => []IInv
BY InitInv, NextInv, PTL DEF Spec

\* Every state the payment server reaches is well typed.
THEOREM TypeCorrect == Spec => []TypeOK
<1>1. IInv => TypeOK
  BY DEF IInv
<1> QED BY <1>1, Invariance, PTL

\* An accepted intent keeps its order: no preparation, whatever it read
\* before, can move the order key past an acceptance.
THEOREM OrderIsNeverBypassed == Spec => []AcceptedOwnsOrder
<1>1. IInv => AcceptedOwnsOrder
  <2> SUFFICES ASSUME IInv, NEW i \in Intents, intents[i].attempt
               PROVE  orders[intents[i].order] = i
    BY DEF AcceptedOwnsOrder
  <2>1. intents[i].status \notin Closed \cup {"absent"}
    BY DEF IInv, Accepted, WellFormed, Unsettled, Settled, Closed
  <2> QED BY <2>1 DEF IInv, LiveOwnsOrder
<1> QED BY <1>1, Invariance, PTL

\* The channel never receives a payment that was not approved and accepted.
THEOREM OnlyAcceptedIsCharged == Spec => []ChargeWasAccepted
<1>1. IInv => ChargeWasAccepted
  BY DEF IInv, Accepted, WellFormed, ChargeWasAccepted
<1> QED BY <1>1, Invariance, PTL

\* No order is ever charged twice, with any number of handlers and recovery
\* passes and any retention longer than the call latency.
THEOREM AtMostOneCharge == Spec => []OneChargePerOrder
<1>1. IInv => OneChargePerOrder
  <2> SUFFICES ASSUME IInv, NEW i \in Intents, NEW j \in Intents
               PROVE  /\ channel[i].count <= 1
                      /\ /\ channel[i].count > 0 /\ channel[j].count > 0
                         /\ intents[i].order = intents[j].order
                         => i = j
    BY DEF OneChargePerOrder
  <2>1. channel[i].count <= 1
    BY DEF IInv, Accepted
  <2>2. ASSUME NEW k \in Intents, channel[k].count > 0
        PROVE  orders[intents[k].order] = k
    <3>1. intents[k].status \notin Closed \cup {"absent"}
      BY <2>2 DEF IInv, Accepted, WellFormed, Unsettled, Settled, Closed
    <3> QED BY <3>1 DEF IInv, LiveOwnsOrder
  <2> QED BY <2>1, <2>2
<1> QED BY <1>1, Invariance, PTL

-----------------------------------------------------------------------------
(***************************************************************************)
(* What a record says.                                                     *)
(*                                                                         *)
(* It only grows, a final result is the channel's, and contradictory       *)
(* evidence ends in review.  A write derives the stored record, not an     *)
(* older one (CasExact), so every step of the specification leaves a       *)
(* record alone, creates it, or replaces it by what one function of        *)
(* execution.rs derives of it (RecordSteps).  Beside the records the       *)
(* invariant speaks of the reports on their way to them, in handlers       *)
(* (Reports) and callbacks (Told): since one transaction is the most the   *)
(* channel has for a key, what it reported once stays true.                *)
(***************************************************************************)

\* A record that is not under review agrees with its evidence.
Agrees(r) ==
    \A e \in r.evidence :
        /\ e[1] # "none" => e[2] = r.txn /\ r.txn # 0
        /\ e[1] = "succeeded" => r.status = "succeeded"
        /\ e[1] = "declined" => r.status = "failed"

Consistent(r) ==
    /\ ~r.review => Agrees(r)
    /\ r.status = "absent" => r.evidence = {} /\ ~r.review /\ r.txn = 0

\* What the channel says of a final result it keeps saying, if it is honest.
Holds(i, report) ==
    report.state # "none" =>
        /\ report.txn > 0 /\ channel[i].count > 0
        /\ i \in Honest /\ report.state # "pending" => channel[i].state = report.state

\* The final result of an attempt is the one of its only transaction.
Truthful(i) ==
    i \in Honest =>
        /\ intents[i].status \in Settled => channel[i].count > 0
        /\ intents[i].status = "succeeded" => channel[i].state = "succeeded"
        /\ intents[i].status = "failed" => channel[i].state = "declined"

\* What a handler is about to record or to create.
Reports(p) ==
    /\ proc[p].pc \in {"idle", "create"} => proc[p].step = "none"
    /\ proc[p].step = "outcome" => Holds(proc[p].id, proc[p].out)
    /\ proc[p].new.evidence = {}

Told == \A m \in callbacks : Holds(m.id, m.report)

SInv ==
    /\ \A i \in Intents : Consistent(intents[i]) /\ Truthful(i)
    /\ \A p \in Agents : Reports(p)
    /\ Told

-----------------------------------------------------------------------------
\* The functions of execution.rs.

\* The body of RecordOnlyGrows for one record.
Grows(old, new) ==
    /\ old.status \in Settled \cup Closed => new.status = old.status
    /\ old.evidence \subseteq new.evidence
    /\ old.review => new.review
    /\ old.txn # 0 => new.txn = old.txn
    /\ old.attempt => new.attempt /\ new.expires = old.expires

\* What every write keeps, and where a final status comes from.
Keeps(r, q, out) ==
    /\ Consistent(q) /\ Grows(r, q)
    /\ q.status \in Settled /\ q.status # r.status =>
         out.state \in {"succeeded", "declined"} /\ q.status = TargetStatus(out.state)

LEMMA StatusSets ==
    /\ Unsettled = {"accepted", "pending", "unknown"} /\ Settled = {"succeeded", "failed"}
    /\ Closed = {"expired", "cancelled"}
BY DEF Unsettled, Settled, Closed

LEMMA SameKeeps ==
    ASSUME NEW S, NEW r \in IntentRecord(S), Consistent(r), NEW out
    PROVE  Keeps(r, r, out)
BY DEF Keeps, Grows

LEMMA AcceptKeeps ==
    ASSUME NEW S, NEW r \in IntentRecord(S), Consistent(r), NEW out, NEW d \in Nat, NEW t \in Nat
    PROVE  Keeps(r, Accept(r, d, t), out)
<1>1. CASE ~Acceptable(r, t)
  BY <1>1, SameKeeps DEF Accept
<1>2. CASE Acceptable(r, t)
  <2> DEFINE q == Accept(r, d, t)
  <2>1. /\ q.status = "accepted" /\ q.evidence = r.evidence /\ q.review = r.review
        /\ q.txn = r.txn /\ q.attempt
        /\ r.status = "prepared" /\ ~r.attempt
    BY <1>2 DEF Accept, Acceptable, NextRevision, IntentRecord
  <2> HIDE DEF q
  <2>3. Keeps(r, q, out)
    BY <2>1, StatusSets DEF Keeps, Grows, Consistent, Agrees
  <2> QED
    BY <2>3 DEF q
<1> QED
  BY <1>1, <1>2

LEMMA CloseKeeps ==
    ASSUME NEW S, NEW r \in IntentRecord(S), Consistent(r), NEW out, NEW to \in Closed,
           NEW t \in Nat
    PROVE  Keeps(r, CloseUnaccepted(r, to, t), out)
<1> DEFINE q == CloseUnaccepted(r, to, t)
<1>1. CASE q = r
  BY <1>1, SameKeeps
<1>2. CASE q # r
  <2>1. /\ q.status = to /\ q.evidence = r.evidence /\ q.review = r.review
        /\ q.txn = r.txn /\ q.attempt = r.attempt /\ q.expires = r.expires
        /\ r.status = "prepared"
    BY <1>2 DEF CloseUnaccepted, NextRevision, IntentRecord
  <2> HIDE DEF q
  <2>3. Keeps(r, q, out)
    BY <2>1, StatusSets DEF Keeps, Grows, Consistent, Agrees
  <2> QED
    BY <2>3 DEF q
<1> QED
  BY <1>1, <1>2

LEMMA FlagKeeps ==
    ASSUME NEW S, NEW r \in IntentRecord(S), Consistent(r), WellFormed(r), NEW out, NEW t \in Nat
    PROVE  Keeps(r, FlagForReview(r, t), out)
<1> DEFINE q == FlagForReview(r, t)
<1>1. CASE ~(r.attempt /\ ~r.review)
  BY <1>1, SameKeeps DEF FlagForReview
<1>2. CASE r.attempt /\ ~r.review
  <2>1. /\ q.status = r.status /\ q.evidence = r.evidence /\ q.review
        /\ q.txn = r.txn /\ q.attempt = r.attempt /\ q.expires = r.expires
    BY <1>2 DEF FlagForReview, NextRevision, IntentRecord
  <2>2. r.status # "absent"
    BY <1>2, StatusSets DEF WellFormed
  <2> HIDE DEF q
  <2>3. Keeps(r, q, out)
    BY <2>1, <2>2 DEF Keeps, Grows, Consistent
  <2> QED
    BY <2>3 DEF q
<1> QED
  BY <1>1, <1>2

\* A timeout, a mismatch and a report, under the monotonic settlement rules.
LEMMA OutcomeKeeps ==
    ASSUME NEW S, NEW r \in IntentRecord(S), Consistent(r), WellFormed(r),
           NEW out \in Outcome, out.state # "none" => out.txn > 0, NEW t \in Nat
    PROVE  Keeps(r, ApplyOutcome(r, out, t), out)
<1>1. CASE ~r.attempt
  BY <1>1, SameKeeps DEF ApplyOutcome
<1>2. CASE r.attempt /\ out.state = "none"
  <2> DEFINE q == ApplyIndeterminate(r, t)
  <2>1. ApplyOutcome(r, out, t) = q
    BY <1>2 DEF ApplyOutcome
  <2>2. CASE r.status # "accepted"
    BY <2>1, <2>2, SameKeeps DEF ApplyIndeterminate
  <2>3. CASE r.status = "accepted"
    <3>1. /\ q.status = "unknown" /\ q.review = r.review /\ q.txn = r.txn
          /\ q.evidence = r.evidence \cup {<<"none", 0, "indeterminate">>}
          /\ q.attempt = r.attempt /\ q.expires = r.expires
      BY <2>3 DEF ApplyIndeterminate, WithEvidence, NextRevision, IntentRecord
    <3> HIDE DEF q
    <3> QED
      BY <2>1, <2>3, <3>1, StatusSets DEF Keeps, Grows, Consistent, Agrees
  <2> QED
    BY <2>2, <2>3
<1>3. CASE r.attempt /\ out.state # "none" /\ ~MatchesTerms(r, out)
  <2> DEFINE q == ApplyMismatch(r, out, t)
  <2>1. ApplyOutcome(r, out, t) = q
    BY <1>3 DEF ApplyOutcome
  <2>2. /\ q.status = r.status /\ q.review /\ q.txn = r.txn
        /\ r.evidence \subseteq q.evidence
        /\ q.attempt = r.attempt /\ q.expires = r.expires
    BY DEF ApplyMismatch, WithEvidence, NextRevision, IntentRecord
  <2>3. r.status # "absent"
    BY <1>3, StatusSets DEF WellFormed
  <2> HIDE DEF q
  <2> QED
    BY <2>1, <2>2, <2>3 DEF Keeps, Grows, Consistent
<1>4. CASE r.attempt /\ out.state # "none" /\ MatchesTerms(r, out)
  <2> DEFINE q      == ApplyReport(r, out, t)
             target == TargetStatus(out.state)
             disp   == DispositionOf(r.status, target)
             to     == IF disp = "applied" THEN target ELSE r.status
  <2>1. ApplyOutcome(r, out, t) = q
    BY <1>4 DEF ApplyOutcome
  <2>2. CASE disp = "none" \/ (disp = "duplicate" /\ r.txn = out.txn)
    BY <2>1, <2>2, SameKeeps DEF ApplyReport
  <2>3. CASE ~(disp = "none" \/ (disp = "duplicate" /\ r.txn = out.txn))
    <3>1. /\ q.status = to /\ q.review = (r.review \/ disp = "conflict")
          /\ q.txn = (IF r.txn = 0 THEN out.txn ELSE r.txn)
          /\ q.evidence = r.evidence \cup {<<out.state, out.txn, disp>>}
          /\ q.attempt = r.attempt /\ q.expires = r.expires
      BY <2>3 DEF ApplyReport, WithEvidence, NextRevision, IntentRecord
    <3>2. /\ out.state \in {"pending", "succeeded", "declined"} /\ out.txn > 0
          /\ r.txn = 0 \/ r.txn = out.txn
      BY <1>4 DEF Outcome, ChannelState, MatchesTerms
    <3>3. /\ target = (CASE out.state = "pending" -> "pending"
                         [] out.state = "succeeded" -> "succeeded"
                         [] out.state = "declined" -> "failed")
          /\ r.status \in Unsettled \cup Settled
      BY <1>4, <3>2 DEF TargetStatus, WellFormed
    <3>4. /\ disp = "duplicate" => r.status = target
          /\ disp = "stale" => r.status \in Settled /\ target = "pending"
          /\ disp = "applied" => r.status \in Unsettled
          /\ disp \in {"duplicate", "stale", "applied", "conflict"}
      BY <2>3, StatusSets DEF DispositionOf
    <3> HIDE DEF q, target, disp
    <3>5. Grows(r, q)
      BY <3>1, <3>4, StatusSets DEF Grows
    <3>6. ~q.review => Agrees(q)
      <4> SUFFICES ASSUME ~q.review, NEW e \in q.evidence
                   PROVE  /\ e[1] # "none" => e[2] = q.txn /\ q.txn # 0
                          /\ e[1] = "succeeded" => q.status = "succeeded"
                          /\ e[1] = "declined" => q.status = "failed"
        BY DEF Agrees
      <4>1. CASE e \in r.evidence
        <5>1. /\ e[1] # "none" => e[2] = r.txn /\ r.txn # 0
              /\ e[1] = "succeeded" => r.status = "succeeded"
              /\ e[1] = "declined" => r.status = "failed"
          BY <3>1, <4>1 DEF Consistent, Agrees
        <5> QED
          BY <3>1, <3>4, <5>1, StatusSets
      <4>2. CASE e = <<out.state, out.txn, disp>>
        <5>1. e[1] = out.state /\ e[2] = out.txn /\ q.txn = out.txn /\ disp # "conflict"
          BY <3>1, <3>2, <4>2
        <5> QED
          BY <3>1, <3>2, <3>3, <3>4, <5>1, StatusSets
      <4> QED
        BY <3>1, <4>1, <4>2
    <3>7. q.status # "absent"
      BY <3>1, <3>2, <3>3, <3>4, StatusSets
    <3>8. q.status \in Settled /\ q.status # r.status =>
            out.state \in {"succeeded", "declined"} /\ q.status = target
      BY <3>1, <3>2, <3>3, StatusSets
    <3> QED
      BY <2>1, <3>5, <3>6, <3>7, <3>8 DEF Keeps, Consistent, target
  <2> QED
    BY <2>2, <2>3
<1> QED
  BY <1>1, <1>2, <1>3, <1>4
-----------------------------------------------------------------------------
\* What a step does to a record: a handler writes what it derives of the stored one.
Derives(p, r, q) ==
    \/ q = Accept(r, Retention, proc[p].since)
    \/ \E to \in Closed, t \in Nat : q = CloseUnaccepted(r, to, t)
    \/ q = FlagForReview(r, now)
    \/ proc[p].step = "outcome" /\ q = ApplyOutcome(r, proc[p].out, now)

Created(i) ==
    ~Exists(i) /\ \E p \in Agents :
        proc[p].newid = i /\ intents'[i] = proc[p].new

Written(i) ==
    \E p \in Agents :
        Loaded(p) /\ proc[p].id = i /\ Derives(p, intents[i], intents'[i])

Recorded(i) == intents'[i] = intents[i] \/ Created(i) \/ Written(i)

LEMMA UpdateRecords ==
    ASSUME IInv, NEW p \in Agents, UpdateWritten(p) \/ UpdateAnswerLost(p), NEW i \in Intents
    PROVE  Recorded(i)
<1>1. /\ proc[p].pc = "update" /\ Derived(p) # proc[p].cur
      /\ CasHolds(proc[p].id, proc[p].cur)
      /\ intents' = [intents EXCEPT ![proc[p].id] = Derived(p)]
  BY DEF UpdateWritten, UpdateAnswerLost
<1>2. Loaded(p) /\ proc[p].cur = intents[proc[p].id] /\ proc[p].id \in Intents
  BY <1>1, CasExact DEF Loaded
<1>3. CASE i # proc[p].id
  BY <1>1, <1>3 DEF IInv, TypeOK, Recorded
<1>4. CASE i = proc[p].id
  <2>1. intents'[i] = Derived(p)
    BY <1>1, <1>4 DEF IInv, TypeOK
  <2>2. "expired" \in Closed /\ now \in Nat
    BY DEF Closed, IInv, TypeOK
  <2>3. Derives(p, proc[p].cur, Derived(p))
    BY <1>1, <2>2 DEF Derives, Derived
  <2> QED
    BY <1>2, <1>4, <2>1, <2>3 DEF Recorded, Written
<1> QED
  BY <1>3, <1>4

LEMMA CancelRecords ==
    ASSUME IInv, NEW p \in Agents, CancelWrite(p), NEW i \in Intents
    PROVE  Recorded(i)
<1>1. CASE ~CasHolds(proc[p].id, proc[p].cur)
  BY <1>1 DEF CancelWrite, Recorded
<1>2. CASE CasHolds(proc[p].id, proc[p].cur)
  <2> DEFINE q == CloseUnaccepted(proc[p].cur, "cancelled", proc[p].since)
  <2>1. /\ proc[p].pc = "cancel"
        /\ intents' = [intents EXCEPT ![proc[p].id] = q]
    BY <1>2 DEF CancelWrite
  <2>2. Loaded(p) /\ proc[p].cur = intents[proc[p].id] /\ proc[p].id \in Intents
    BY <1>2, <2>1, CasExact DEF Loaded
  <2>3. "cancelled" \in Closed /\ proc[p].since \in Nat
    BY DEF Closed, IInv, TypeOK, HandlerState
  <2>4. Derives(p, proc[p].cur, q)
    BY <2>3 DEF Derives
  <2>5. i # proc[p].id => intents'[i] = intents[i]
    BY <2>1 DEF IInv, TypeOK
  <2>6. i = proc[p].id => intents'[i] = q
    BY <2>1 DEF IInv, TypeOK
  <2> QED
    BY <2>2, <2>4, <2>5, <2>6 DEF Recorded, Written
<1> QED
  BY <1>1, <1>2

LEMMA AcceptRecords ==
    ASSUME IInv, NEW p \in Agents, ExecuteAccept(p), NEW i \in Intents
    PROVE  Recorded(i)
<1> DEFINE q == Accept(proc[p].cur, Retention, proc[p].since)
<1>1. CASE UNCHANGED intents
  BY <1>1 DEF Recorded
<1>2. CASE intents' # intents
  <2>1. /\ proc[p].pc = "accept" /\ CasHolds(proc[p].id, proc[p].cur)
        /\ intents' = [intents EXCEPT ![proc[p].id] = q]
    BY <1>2 DEF ExecuteAccept
  <2>2. Loaded(p) /\ proc[p].cur = intents[proc[p].id] /\ proc[p].id \in Intents
    BY <2>1, CasExact DEF Loaded
  <2>3. Derives(p, proc[p].cur, q)
    BY DEF Derives
  <2>4. i # proc[p].id => intents'[i] = intents[i]
    BY <2>1 DEF IInv, TypeOK
  <2>5. i = proc[p].id => intents'[i] = q
    BY <2>1 DEF IInv, TypeOK
  <2> QED
    BY <2>2, <2>3, <2>4, <2>5 DEF Recorded, Written
<1> QED
  BY <1>1, <1>2

LEMMA CreateRecords ==
    ASSUME IInv, NEW p \in Agents, PrepareCreate(p) \/ PrepareReplace(p), NEW i \in Intents
    PROVE  Recorded(i)
<1>1. CASE UNCHANGED intents
  BY <1>1 DEF Recorded
<1>2. CASE intents' # intents
  <2>1. /\ proc[p].pc \in {"create", "replace"}
        /\ intents' = [intents EXCEPT ![proc[p].newid] = proc[p].new]
    BY <1>2 DEF PrepareCreate, PrepareReplace, store
  <2>2. proc[p].newid \in Intents /\ ~Exists(proc[p].newid)
    BY <2>1 DEF IInv, Bound, Candidate
  <2>3. i # proc[p].newid => intents'[i] = intents[i]
    BY <2>1 DEF IInv, TypeOK
  <2>4. i = proc[p].newid => intents'[i] = proc[p].new
    BY <2>1 DEF IInv, TypeOK
  <2> QED
    BY <2>2, <2>3, <2>4 DEF Recorded, Created
<1> QED
  BY <1>1, <1>2

\* Every step leaves a record alone, creates it, or writes what one function of
\* execution.rs derives of it.
LEMMA RecordSteps ==
    ASSUME IInv, Next, NEW i \in Intents
    PROVE  Recorded(i)
<1>1. ASSUME NEW p \in Agents, Continue(p) PROVE Recorded(i)
  <2>1. CASE UNCHANGED intents
    BY <2>1 DEF Recorded
  <2>2. CASE intents' # intents
    <3>1. \/ UpdateWritten(p) \/ CancelWrite(p) \/ ExecuteAccept(p)
          \/ PrepareCreate(p) \/ PrepareReplace(p)
      BY <1>1, <2>2 DEF Continue, UpdateNothing, UpdateConflict, UpdateReload, PrepareExisting,
        PrepareCompare, ExecuteRegistry, QueryFound, QueryNotFound, WindowCheck, SubmitAnswered,
        store
    <3> QED
      BY <3>1, UpdateRecords, CancelRecords, AcceptRecords, CreateRecords
  <2> QED
    BY <2>1, <2>2
<1>2. ASSUME NEW p \in Agents, Fault(p) PROVE Recorded(i)
  <2>1. UNCHANGED intents \/ UpdateAnswerLost(p)
    BY <1>2 DEF Fault, SubmitLost, Abort, SubmitAnswerLost, store
  <2> QED
    BY <2>1, UpdateRecords DEF Recorded
<1>3. ASSUME NEW p \in Procs, Request(p) PROVE UNCHANGED intents
  BY <1>3 DEF Request, PrepareTerms, GetIntent, CancelLoad, ExecuteAuthorize, Reconcile,
    CallbackLoad, store
<1>4. ASSUME NEW w \in Workers, WorkerList(w) \/ WorkerNext(w) PROVE UNCHANGED intents
  BY <1>4 DEF WorkerList, WorkerNext, store
<1>5. ASSUME Environment PROVE UNCHANGED intents
  BY <1>5 DEF Environment, ChannelSettle, ChannelCallback, Approve, Revoke, RegistryChange, Tick,
    store
<1> QED
  BY <1>1, <1>2, <1>3, <1>4, <1>5 DEF Next, Recorded

-----------------------------------------------------------------------------
\* What the channel said, it keeps saying: a key has one transaction at most.
ChannelKeeps(i) ==
    channel[i].count > 0 =>
        /\ channel'[i].count > 0
        /\ i \in Honest /\ channel[i].state # "pending" => channel'[i].state = channel[i].state

LEMMA SubmitKeeps ==
    ASSUME IInv, IInv', NEW p \in Agents, NEW s \in InitialStates,
           SubmitAnswered(p, s) \/ SubmitAnswerLost(p, s)
    PROVE  /\ \A i \in Intents : ChannelKeeps(i)
           /\ channel'[proc[p].id].count > 0
<1> DEFINE j == proc[p].id
<1>1. /\ proc[p].pc = "submit" /\ channel' = [channel EXCEPT ![j] = Processed(j, s)]
      /\ j \in Intents
  BY DEF SubmitAnswered, SubmitAnswerLost, IInv, Bound
<1>2. channel[j] \in Transactions /\ channel'[j] = Processed(j, s) /\ channel'[j].count <= 1
      /\ \A i \in Intents : i # j => channel'[i] = channel[i]
  BY <1>1 DEF IInv, TypeOK, Accepted
<1>3. channel[j].count > 0 => channel'[j] = channel[j]
  BY <1>2 DEF Processed, Transactions
<1>4. channel'[j].count > 0
  BY <1>2 DEF Processed, Remembered, Transactions
<1> QED
  BY <1>1, <1>2, <1>3, <1>4 DEF ChannelKeeps

LEMMA ChannelSteps ==
    ASSUME IInv, IInv', Next
    PROVE  \A i \in Intents : ChannelKeeps(i)
<1>1. CASE UNCHANGED channel
  BY <1>1 DEF ChannelKeeps
<1>2. ASSUME NEW p \in Agents, Continue(p) \/ Fault(p), channel' # channel
      PROVE  \E s \in InitialStates : SubmitAnswered(p, s) \/ SubmitAnswerLost(p, s)
  BY <1>2 DEF Continue, Fault, UpdateNothing, UpdateWritten, UpdateConflict, UpdateReload,
    PrepareCreate, PrepareExisting, PrepareCompare, PrepareReplace, CancelWrite, ExecuteRegistry,
    ExecuteAccept, QueryFound, QueryNotFound, WindowCheck, UpdateAnswerLost, SubmitLost, Abort
<1>3. ASSUME NEW p \in Procs, Request(p) PROVE UNCHANGED channel
  BY <1>3 DEF Request, PrepareTerms, GetIntent, CancelLoad, ExecuteAuthorize, Reconcile,
    CallbackLoad
<1>4. ASSUME NEW w \in Workers, WorkerList(w) \/ WorkerNext(w) PROVE UNCHANGED channel
  BY <1>4 DEF WorkerList, WorkerNext
<1>5. ASSUME NEW j \in Intents, NEW s \in ChannelState, ChannelSettle(j, s)
      PROVE  \A i \in Intents : ChannelKeeps(i)
  <2>1. /\ channel[j].count > 0 /\ j \in Honest => channel[j].state = "pending"
        /\ channel' = [channel EXCEPT ![j].state = s]
        /\ channel \in [Intents -> Transactions]
    BY <1>5 DEF ChannelSettle, IInv, TypeOK
  <2>2. /\ \A i \in Intents : i # j => channel'[i] = channel[i]
        /\ channel'[j].count = channel[j].count
    BY <2>1 DEF Transactions
  <2> QED
    BY <2>1, <2>2 DEF ChannelKeeps
<1>6. ASSUME Environment, channel' # channel
      PROVE  \E j \in Intents, s \in ChannelState : ChannelSettle(j, s)
  BY <1>6 DEF Environment, ChannelCallback, Approve, Revoke, RegistryChange, Tick
<1> QED
  BY <1>1, <1>2, <1>3, <1>4, <1>5, <1>6, SubmitKeeps DEF Next

LEMMA HoldsStays ==
    ASSUME NEW i \in Intents, ChannelKeeps(i), NEW report, Holds(i, report)
    PROVE  Holds(i, report)'
BY DEF ChannelKeeps, Holds

-----------------------------------------------------------------------------
\* Reports on their way.

LEMMA ReportHolds ==
    ASSUME NEW i \in Intents, channel[i] \in Transactions, channel[i].count > 0
    PROVE  Holds(i, Report(i))
BY DEF Holds, Report, Transactions

LEMMA IdleReports ==
    ASSUME NEW p \in Agents, proc'[p] = Idle
    PROVE  Reports(p)'
<1>1. Absent(NoOrder).evidence = {}
  BY DEF Absent, PreparedIntent
<1>2. Idle.pc = "idle" /\ Idle.step = "none" /\ Idle.new.evidence = {}
  BY <1>1 DEF Idle
<1> QED
  BY <1>2 DEF Reports

\* A handler that goes on with the report it has.
LEMMA SameReport ==
    ASSUME IInv, NEW p \in Agents, Reports(p), \A i \in Intents : ChannelKeeps(i),
           proc[p].pc \notin {"idle", "create"}, proc'[p].pc \notin {"idle", "create"},
           proc'[p].id = proc[p].id, proc'[p].step = proc[p].step,
           proc'[p].out = proc[p].out, proc'[p].new = proc[p].new
    PROVE  Reports(p)'
<1>1. proc[p].id \in Intents
  BY DEF IInv, Bound
<1>2. proc[p].step = "outcome" => Holds(proc[p].id, proc[p].out)'
  BY <1>1, HoldsStays DEF Reports
<1> QED
  BY <1>2 DEF Reports, Holds

\* A handler that has no report to apply.
LEMMA NoReport ==
    ASSUME NEW p \in Agents, proc'[p].step # "outcome",
           proc'[p].pc \in {"idle", "create"} => proc'[p].step = "none",
           proc'[p].new.evidence = {}
    PROVE  Reports(p)'
BY DEF Reports

\* A handler that has just got one.
LEMMA NewReport ==
    ASSUME NEW p \in Agents, proc'[p].pc \notin {"idle", "create"},
           Holds(proc[p].id, proc[p].out)', proc'[p].new.evidence = {}
    PROVE  Reports(p)'
BY DEF Reports, Holds

LEMMA UntouchedReport ==
    ASSUME IInv, NEW p \in Agents, Reports(p), \A i \in Intents : ChannelKeeps(i),
           proc'[p] = proc[p]
    PROVE  Reports(p)'
<1>1. CASE proc[p].pc \in {"idle", "create"}
  BY <1>1 DEF Reports
<1>2. CASE proc[p].pc \notin {"idle", "create"}
  BY <1>2, SameReport
<1> QED
  BY <1>1, <1>2

\* update and reload, with the answers of the store.
LEMMA UpdateReports ==
    ASSUME IInv, NEW p \in Agents, Reports(p), \A i \in Intents : ChannelKeeps(i),
           \/ UpdateNothing(p) \/ UpdateWritten(p) \/ UpdateConflict(p) \/ UpdateReload(p)
           \/ UpdateAnswerLost(p)
    PROVE  Reports(p)'
<1>0. proc \in [Agents -> HandlerState] /\ proc[p] \in HandlerState
  BY DEF IInv, TypeOK
<1>1. CASE UpdateConflict(p) \/ UpdateAnswerLost(p)
  <2>1. /\ proc[p].pc = "update"
        /\ proc' = [proc EXCEPT ![p].pc = "reload", ![p].tries = @ + 1]
    BY <1>1 DEF UpdateConflict, UpdateAnswerLost
  <2>2. /\ proc'[p].pc = "reload" /\ proc'[p].id = proc[p].id /\ proc'[p].step = proc[p].step
        /\ proc'[p].out = proc[p].out /\ proc'[p].new = proc[p].new
    BY <1>0, <2>1 DEF HandlerState
  <2> QED
    BY <2>1, <2>2, SameReport
<1>2. CASE UpdateReload(p)
  <2>1. \/ proc'[p] = Idle
        \/ proc' = [proc EXCEPT ![p].pc = "update", ![p].cur = intents[proc[p].id]]
    BY <1>0, <1>2 DEF UpdateReload, Return
  <2>2. ASSUME proc' = [proc EXCEPT ![p].pc = "update", ![p].cur = intents[proc[p].id]]
        PROVE  /\ proc'[p].pc = "update" /\ proc'[p].id = proc[p].id
               /\ proc'[p].step = proc[p].step
               /\ proc'[p].out = proc[p].out /\ proc'[p].new = proc[p].new
    BY <1>0, <2>2 DEF HandlerState
  <2>3. proc[p].pc = "reload"
    BY <1>2 DEF UpdateReload
  <2> QED
    BY <2>1, <2>2, <2>3, SameReport, IdleReports
<1>3. CASE UpdateNothing(p) \/ UpdateWritten(p)
  <2>1. PICK rec : proc' = [proc EXCEPT ![p] = AfterUpdate(p, rec)]
    BY <1>3 DEF UpdateNothing, UpdateWritten
  <2>2. proc[p].pc = "update" /\ proc'[p] = AfterUpdate(p, rec)
    BY <1>0, <1>3, <2>1 DEF UpdateNothing, UpdateWritten
  <2>3. \/ proc'[p] = Idle
        \/ /\ proc'[p].pc \in {"compare", "registry"} /\ proc'[p].id = proc[p].id
           /\ proc'[p].step = proc[p].step
           /\ proc'[p].out = proc[p].out /\ proc'[p].new = proc[p].new
    BY <1>0, <2>2 DEF AfterUpdate, HandlerState
  <2> QED
    BY <2>2, <2>3, SameReport, IdleReports
<1> QED
  BY <1>1, <1>2, <1>3

LEMMA PrepareReports ==
    ASSUME IInv, NEW p \in Agents, Reports(p), \A i \in Intents : ChannelKeeps(i),
           \/ PrepareCreate(p) \/ PrepareExisting(p) \/ PrepareCompare(p)
           \/ PrepareReplace(p) \/ CancelWrite(p)
    PROVE  Reports(p)'
<1>0. proc \in [Agents -> HandlerState] /\ proc[p] \in HandlerState
  BY DEF IInv, TypeOK
<1>1. CASE proc' = [proc EXCEPT ![p] = Idle]
  BY <1>0, <1>1, IdleReports
<1>2. CASE proc[p].pc = "create" /\ PrepareCreate(p) /\ proc' # [proc EXCEPT ![p] = Idle]
  <2>1. PICK i : proc' = [proc EXCEPT ![p].pc = "existing", ![p].id = i]
    BY <1>2 DEF PrepareCreate, Return
  <2>2. proc'[p].pc = "existing" /\ proc'[p].step = proc[p].step /\ proc'[p].new = proc[p].new
    BY <1>0, <2>1 DEF HandlerState
  <2> QED
    BY <1>2, <2>2, NoReport DEF Reports
<1>3. CASE PrepareExisting(p)
  <2>1. PICK t \in {"expire", "none"}, u \in {"update", "compare"} :
          proc' = [proc EXCEPT ![p].cur = intents[proc[p].id], ![p].step = t, ![p].pc = u]
    BY <1>3 DEF PrepareExisting
  <2>2. proc'[p].pc = u /\ proc'[p].step = t /\ proc'[p].new = proc[p].new
    BY <1>0, <2>1 DEF HandlerState
  <2> QED
    BY <2>2, NoReport DEF Reports
<1>4. CASE PrepareCompare(p) /\ proc' # [proc EXCEPT ![p] = Idle]
  <2>1. proc[p].pc = "compare" /\ proc' = [proc EXCEPT ![p].pc = "replace"]
    BY <1>4 DEF PrepareCompare, Return, Goto
  <2>2. /\ proc'[p].pc = "replace" /\ proc'[p].id = proc[p].id /\ proc'[p].step = proc[p].step
        /\ proc'[p].out = proc[p].out /\ proc'[p].new = proc[p].new
    BY <1>0, <2>1 DEF HandlerState
  <2> QED
    BY <2>1, <2>2, SameReport
<1> QED
  BY <1>1, <1>2, <1>3, <1>4 DEF PrepareCreate, PrepareReplace, CancelWrite, Return

\* Acceptance and the query of the channel.
LEMMA ExecuteReports ==
    ASSUME IInv, NEW p \in Agents, Reports(p), \A i \in Intents : ChannelKeeps(i),
           \/ ExecuteRegistry(p) \/ ExecuteAccept(p) \/ QueryFound(p) \/ QueryNotFound(p)
           \/ WindowCheck(p)
    PROVE  Reports(p)'
<1>0. /\ proc \in [Agents -> HandlerState] /\ proc[p] \in HandlerState
      /\ proc[p].new.evidence = {}
      /\ \A i \in Intents : channel[i] \in Transactions
  BY DEF IInv, TypeOK, Reports
<1>1. CASE proc' = [proc EXCEPT ![p] = Idle]
  BY <1>0, <1>1, IdleReports
<1>2. CASE (ExecuteRegistry(p) \/ ExecuteAccept(p)) /\ proc' # [proc EXCEPT ![p] = Idle]
  <2>1. /\ proc[p].pc \in {"registry", "accept"}
        /\ \/ proc' = [proc EXCEPT ![p].pc = "accept", ![p].since = now]
           \/ \E r : proc' = [proc EXCEPT ![p].pc = "submit", ![p].cur = r]
    BY <1>2 DEF ExecuteRegistry, ExecuteAccept, Return
  <2>2. /\ proc'[p].pc \in {"accept", "submit"} /\ proc'[p].id = proc[p].id
        /\ proc'[p].step = proc[p].step
        /\ proc'[p].out = proc[p].out /\ proc'[p].new = proc[p].new
    BY <1>0, <2>1 DEF HandlerState
  <2> QED
    BY <2>1, <2>2, SameReport
<1>3. CASE QueryNotFound(p)
  <2>1. proc[p].pc = "query" /\ proc' = [proc EXCEPT ![p].pc = "window", ![p].since = now]
    BY <1>3 DEF QueryNotFound
  <2>2. /\ proc'[p].pc = "window" /\ proc'[p].id = proc[p].id /\ proc'[p].step = proc[p].step
        /\ proc'[p].out = proc[p].out /\ proc'[p].new = proc[p].new
    BY <1>0, <2>1 DEF HandlerState
  <2> QED
    BY <2>1, <2>2, SameReport
<1>4. CASE WindowCheck(p)
  <2>1. /\ proc[p].pc = "window"
        /\ \/ proc' = [proc EXCEPT ![p].pc = "submit"]
           \/ proc' = [proc EXCEPT ![p].pc = "update", ![p].step = "review"]
    BY <1>4 DEF WindowCheck, Goto
  <2>2. CASE proc' = [proc EXCEPT ![p].pc = "submit"]
    <3>1. /\ proc'[p].pc = "submit" /\ proc'[p].id = proc[p].id
          /\ proc'[p].step = proc[p].step
          /\ proc'[p].out = proc[p].out /\ proc'[p].new = proc[p].new
      BY <1>0, <2>2 DEF HandlerState
    <3> QED
      BY <2>1, <3>1, SameReport
  <2>3. CASE proc' = [proc EXCEPT ![p].pc = "update", ![p].step = "review"]
    <3>1. proc'[p].pc = "update" /\ proc'[p].step = "review" /\ proc'[p].new = proc[p].new
      BY <1>0, <2>3 DEF HandlerState
    <3> QED
      BY <1>0, <3>1, NoReport
  <2> QED
    BY <2>1, <2>2, <2>3
<1>5. CASE QueryFound(p)
  <2> DEFINE i == proc[p].id
  <2>1. /\ proc[p].pc = "query" /\ channel[i].count > 0 /\ UNCHANGED channel
        /\ proc' = [proc EXCEPT ![p].pc = "update", ![p].step = "outcome", ![p].out = Report(i)]
    BY <1>5 DEF QueryFound, Remembered
  <2>2. i \in Intents
    BY <2>1 DEF IInv, Bound
  <2>3. /\ proc'[p].pc = "update" /\ proc'[p].id = i /\ proc'[p].out = Report(i)
        /\ proc'[p].new = proc[p].new
    BY <1>0, <2>1 DEF HandlerState
  <2>4. Holds(i, Report(i))
    BY <1>0, <2>1, <2>2, ReportHolds
  <2>5. Holds(proc[p].id, proc[p].out)'
    BY <2>1, <2>3, <2>4 DEF Holds
  <2> QED
    BY <1>0, <2>3, <2>5, NewReport
<1> QED
  BY <1>1, <1>2, <1>3, <1>4, <1>5 DEF ExecuteRegistry, ExecuteAccept, Return

LEMMA SubmitReports ==
    ASSUME IInv, IInv', NEW p \in Agents, Reports(p),
           \/ \E s \in InitialStates : SubmitAnswered(p, s) \/ SubmitAnswerLost(p, s)
           \/ SubmitLost(p)
    PROVE  Reports(p)'
<1>0. /\ proc \in [Agents -> HandlerState] /\ proc[p] \in HandlerState
      /\ proc[p].new.evidence = {}
      /\ \A i \in Intents : channel'[i] \in Transactions
  BY DEF IInv, TypeOK, Reports
<1> DEFINE i == proc[p].id
           answer == [state |-> channel'[i].state, txn |-> channel'[i].count, ok |-> TRUE]
<1>1. PICK out \in {Indeterminate, answer} :
         /\ proc' = [proc EXCEPT ![p].pc = "update", ![p].step = "outcome", ![p].out = out]
         /\ proc[p].pc = "submit"
         /\ out = Indeterminate \/ channel'[i].count > 0
  <2>1. CASE SubmitLost(p)
    BY <2>1 DEF SubmitLost, Submitted
  <2>2. ASSUME NEW s \in InitialStates, SubmitAnswerLost(p, s)
        PROVE  /\ proc[p].pc = "submit"
               /\ proc' = [proc EXCEPT ![p].pc = "update", ![p].step = "outcome",
                                       ![p].out = Indeterminate]
    BY <2>2 DEF SubmitAnswerLost, Submitted
  <2>3. ASSUME NEW s \in InitialStates, SubmitAnswered(p, s)
        PROVE  /\ proc[p].pc = "submit" /\ channel'[i].count > 0
               /\ proc' = [proc EXCEPT ![p].pc = "update", ![p].step = "outcome",
                                       ![p].out = answer]
    BY <2>3, SubmitKeeps DEF SubmitAnswered, Submitted
  <2> QED
    BY <2>1, <2>2, <2>3
<1>2. i \in Intents
  BY <1>1 DEF IInv, Bound
<1>3. /\ proc'[p].pc = "update" /\ proc'[p].id = i /\ proc'[p].out = out
      /\ proc'[p].new = proc[p].new
  BY <1>0, <1>1 DEF HandlerState
<1>4. Holds(proc[p].id, proc[p].out)'
  BY <1>0, <1>1, <1>2, <1>3 DEF Holds, Indeterminate, Transactions
<1> QED
  BY <1>0, <1>3, <1>4, NewReport

\* A handler that starts, from a request or from the list of a recovery pass.
LEMMA StartReports ==
    ASSUME IInv, SInv, NEW p \in Agents, UNCHANGED channel,
           \/ \E i \in Intents, o \in Orders : PrepareTerms(p, i, o)
           \/ \E i \in Intents :
                 \/ GetIntent(p, i) \/ CancelLoad(p, i) \/ ExecuteAuthorize(p, i)
                 \/ ReconcileLoad(p, i)
           \/ \E m \in callbacks : CallbackLoad(p, m)
    PROVE  Reports(p)'
<1>0. /\ proc \in [Agents -> HandlerState] /\ Reports(p)
      /\ Idle \in HandlerState /\ Idle.new.evidence = {} /\ Idle.step = "none"
  <2>1. Absent(NoOrder).evidence = {}
    BY DEF Absent, PreparedIntent
  <2> QED
    BY <2>1, ConstantTypes DEF IInv, SInv, TypeOK, Idle
<1>1. ASSUME NEW i \in Intents, NEW o \in Orders, PrepareTerms(p, i, o)
      PROVE  Reports(p)'
  <2>1. PICK d \in 1..Window :
          proc' = [proc EXCEPT ![p] =
            [Idle EXCEPT !.pc = "create", !.op = "prepare", !.newid = i,
                         !.new = PreparedIntent(o, now + d, registry, now)]]
    BY <1>1 DEF PrepareTerms
  <2>2. PreparedIntent(o, now + d, registry, now).evidence = {}
    BY DEF PreparedIntent
  <2>3. proc'[p] = [Idle EXCEPT !.pc = "create", !.op = "prepare", !.newid = i,
                                !.new = PreparedIntent(o, now + d, registry, now)]
    BY <1>0, <2>1
  <2>4. /\ proc'[p].pc = "create" /\ proc'[p].step = "none"
        /\ proc'[p].new = PreparedIntent(o, now + d, registry, now)
    BY <1>0, <2>3 DEF HandlerState
  <2> QED
    BY <2>2, <2>4, NoReport
<1>2. ASSUME NEW i \in Intents,
             \/ GetIntent(p, i) \/ CancelLoad(p, i) \/ ExecuteAuthorize(p, i)
             \/ ReconcileLoad(p, i)
      PROVE  Reports(p)'
  <2> SUFFICES /\ proc'[p].pc \in {"update", "cancel", "registry", "query"}
               /\ proc'[p].step \in {"none", "expire"} /\ proc'[p].new = Idle.new
    BY <1>0, NoReport
  <2>1. CASE GetIntent(p, i)
    <3>1. proc' = [proc EXCEPT ![p] =
            [Idle EXCEPT !.pc = "update", !.op = "get", !.id = i,
                         !.cur = intents[i], !.step = "expire"]]
      BY <2>1 DEF GetIntent
    <3>2. proc'[p] =
            [Idle EXCEPT !.pc = "update", !.op = "get", !.id = i,
                         !.cur = intents[i], !.step = "expire"]
      BY <1>0, <3>1
    <3> QED
      BY <1>0, <3>2 DEF HandlerState
  <2>2. CASE CancelLoad(p, i)
    <3>1. proc' = [proc EXCEPT ![p] =
            [Idle EXCEPT !.pc = "cancel", !.op = "cancel", !.id = i,
                         !.cur = intents[i], !.since = now]]
      BY <2>2 DEF CancelLoad
    <3>2. proc'[p] =
            [Idle EXCEPT !.pc = "cancel", !.op = "cancel", !.id = i,
                         !.cur = intents[i], !.since = now]
      BY <1>0, <3>1
    <3> QED
      BY <1>0, <3>2 DEF HandlerState
  <2>3. CASE ExecuteAuthorize(p, i)
    <3>1. PICK t \in {"expire", "none"}, u \in {"update", "registry"} :
            proc' = [proc EXCEPT ![p] =
               [Idle EXCEPT !.op = "execute", !.id = i, !.cur = intents[i],
                            !.step = t, !.pc = u]]
      BY <2>3 DEF ExecuteAuthorize
    <3>2. proc'[p] = [Idle EXCEPT !.op = "execute", !.id = i, !.cur = intents[i],
                                  !.step = t, !.pc = u]
      BY <1>0, <3>1
    <3> QED
      BY <1>0, <3>2 DEF HandlerState
  <2>4. CASE ReconcileLoad(p, i)
    <3>1. proc' = [proc EXCEPT ![p] =
            [Idle EXCEPT !.pc = "query", !.op = "reconcile", !.id = i,
                         !.cur = intents[i]]]
      BY <2>4 DEF ReconcileLoad
    <3>2. proc'[p] =
            [Idle EXCEPT !.pc = "query", !.op = "reconcile", !.id = i,
                         !.cur = intents[i]]
      BY <1>0, <3>1
    <3> QED
      BY <1>0, <3>2 DEF HandlerState
  <2> QED
    BY <1>2, <2>1, <2>2, <2>3, <2>4
<1>3. ASSUME NEW m \in callbacks, CallbackLoad(p, m) PROVE Reports(p)'
  <2>1. CASE proc' = proc
    <3>1. proc[p].pc = "idle"
      BY <1>3 DEF CallbackLoad
    <3> QED
      BY <1>0, <2>1, <3>1 DEF Reports
  <2>2. CASE proc' # proc
    <3>1. proc' = [proc EXCEPT ![p] =
              [Idle EXCEPT !.pc = "update", !.op = "callback", !.id = m.id,
                           !.cur = intents[m.id], !.step = "outcome",
                           !.out = m.report]]
      BY <1>3, <2>2 DEF CallbackLoad
    <3>2. /\ proc'[p].pc = "update" /\ proc'[p].id = m.id /\ proc'[p].out = m.report
          /\ proc'[p].new = Idle.new
      BY <1>0, <3>1 DEF HandlerState
    <3>3. Holds(m.id, m.report)
      BY DEF SInv, Told
    <3>4. Holds(proc[p].id, proc[p].out)'
      BY <3>2, <3>3 DEF Holds
    <3> QED
      BY <1>0, <3>2, <3>4, NewReport
  <2> QED
    BY <2>1, <2>2
<1> QED
  BY <1>1, <1>2, <1>3

\* Only the handler of a step moves.
LEMMA OneMoves ==
    ASSUME IInv, NEW p \in Agents, Continue(p) \/ Fault(p) \/ Request(p)
    PROVE  OnlyHandler(p)
<1>1. proc \in [Agents -> HandlerState]
  BY DEF IInv, TypeOK
<1>2. CASE Continue(p)
  BY <1>1, <1>2 DEF OnlyHandler, Continue, UpdateNothing, UpdateWritten, UpdateConflict,
    UpdateReload, PrepareCreate, PrepareExisting, PrepareCompare, PrepareReplace, CancelWrite,
    ExecuteRegistry, ExecuteAccept, QueryFound, QueryNotFound, WindowCheck, SubmitAnswered,
    Submitted, Return, Goto
<1>3. CASE Fault(p)
  BY <1>1, <1>3 DEF OnlyHandler, Fault, UpdateAnswerLost, SubmitLost, SubmitAnswerLost, Abort,
    Submitted, Return
<1>4. CASE Request(p)
  BY <1>1, <1>4 DEF OnlyHandler, Request, PrepareTerms, GetIntent, CancelLoad,
    ExecuteAuthorize, Reconcile, ReconcileLoad, CallbackLoad
<1> QED
  BY <1>2, <1>3, <1>4

LEMMA ReportsStep ==
    ASSUME IInv, IInv', SInv, Next
    PROVE  \A p \in Agents : Reports(p)'
<1>0. /\ proc \in [Agents -> HandlerState] /\ \A i \in Intents : ChannelKeeps(i)
      /\ \A p \in Agents : Reports(p)
  BY ChannelSteps DEF IInv, TypeOK, SInv
<1>1. ASSUME NEW p \in Agents, OnlyHandler(p), Reports(p)'
      PROVE  \A q \in Agents : Reports(q)'
  <2>1. ASSUME NEW q \in Agents, q # p PROVE Reports(q)'
    BY <1>0, <1>1, <2>1, UntouchedReport DEF OnlyHandler
  <2> QED
    BY <1>1, <2>1
<1>2. ASSUME UNCHANGED proc PROVE \A q \in Agents : Reports(q)'
  BY <1>0, <1>2, UntouchedReport
<1>3. ASSUME NEW p \in Agents, Continue(p) PROVE Reports(p)'
  BY <1>0, <1>3, UpdateReports, PrepareReports, ExecuteReports, SubmitReports DEF Continue
<1>4. ASSUME NEW p \in Agents, Fault(p) PROVE Reports(p)'
  <2>1. CASE Abort(p)
    <3>1. proc'[p] = Idle
      BY <1>0, <2>1 DEF Abort, Return
    <3> QED
      BY <3>1, IdleReports
  <2> QED
    BY <1>0, <1>4, <2>1, UpdateReports, SubmitReports DEF Fault
<1>5. ASSUME NEW p \in Procs, Request(p) PROVE Reports(p)' /\ p \in Agents
  <2>1. p \in Agents /\ UNCHANGED channel
    BY <1>5 DEF Agents, Request, PrepareTerms, GetIntent, CancelLoad, ExecuteAuthorize, Reconcile,
      CallbackLoad
  <2> QED
    BY <1>5, <2>1, StartReports DEF Request, Reconcile
<1>6. ASSUME NEW w \in Workers, WorkerList(w) \/ WorkerNext(w)
      PROVE  UNCHANGED proc \/ (w \in Agents /\ OnlyHandler(w) /\ Reports(w)')
  <2>1. CASE UNCHANGED proc
    BY <2>1
  <2>2. CASE proc' # proc
    <3>1. WorkerNext(w) /\ ReconcileLoad(w, Head(queue[w])) /\ w \in Agents
          /\ Head(queue[w]) \in Intents /\ UNCHANGED channel
      BY <1>6, <2>2 DEF WorkerList, WorkerNext, Agents, IInv, TypeOK
    <3>2. OnlyHandler(w)
      BY <1>0, <3>1 DEF ReconcileLoad, OnlyHandler
    <3> QED
      BY <3>1, <3>2, StartReports
  <2> QED
    BY <2>1, <2>2
<1>7. ASSUME Environment PROVE UNCHANGED proc
  BY <1>7 DEF Environment, ChannelSettle, ChannelCallback, Approve, Revoke, RegistryChange, Tick
<1> QED
  BY <1>1, <1>2, <1>3, <1>4, <1>5, <1>6, <1>7, OneMoves DEF Next

LEMMA ToldStep ==
    ASSUME IInv, IInv', SInv, Next
    PROVE  Told'
<1>0. /\ \A i \in Intents : ChannelKeeps(i) /\ channel[i] \in Transactions
      /\ callbacks \subseteq [id : Intents, report : Outcome]
  BY ChannelSteps DEF IInv, TypeOK
<1>1. ASSUME NEW m \in callbacks PROVE Holds(m.id, m.report)'
  BY <1>0, HoldsStays DEF SInv, Told
<1>2. CASE callbacks' \subseteq callbacks
  BY <1>1, <1>2 DEF Told
<1>3. ASSUME NEW i \in Intents, NEW ok \in BOOLEAN, ChannelCallback(i, ok)
      PROVE  Told'
  <2>1. PICK m : /\ m = [id |-> i, report |-> [Report(i) EXCEPT !.ok = ok]]
                 /\ callbacks' = callbacks \cup {m}
                 /\ channel[i].count > 0 /\ UNCHANGED channel
    BY <1>3 DEF ChannelCallback
  <2>2. m.id = i /\ m.report.state = channel[i].state /\ m.report.txn = channel[i].count
    BY <2>1 DEF Report
  <2>3. Holds(m.id, m.report)'
    BY <2>1, <2>2 DEF Holds
  <2> QED
    BY <1>1, <2>1, <2>3 DEF Told
<1>4. ASSUME NEW p \in Agents, Continue(p) \/ Fault(p) PROVE callbacks' = callbacks
  BY <1>4 DEF Continue, Fault, UpdateNothing, UpdateWritten, UpdateConflict, UpdateReload,
    PrepareCreate, PrepareExisting, PrepareCompare, PrepareReplace, CancelWrite, ExecuteRegistry,
    ExecuteAccept, QueryFound, QueryNotFound, WindowCheck, UpdateAnswerLost, SubmitAnswered,
    SubmitAnswerLost, SubmitLost, Abort, world
<1>5. ASSUME NEW p \in Procs, Request(p) PROVE callbacks' \subseteq callbacks
  BY <1>5 DEF Request, PrepareTerms, GetIntent, CancelLoad, ExecuteAuthorize, Reconcile,
    CallbackLoad, world
<1>6. ASSUME NEW w \in Workers, WorkerList(w) \/ WorkerNext(w) PROVE callbacks' = callbacks
  BY <1>6 DEF WorkerList, WorkerNext
<1>7. ASSUME Environment, callbacks' # callbacks
      PROVE  \E i \in Intents, ok \in BOOLEAN : ChannelCallback(i, ok)
  BY <1>7 DEF Environment, ChannelSettle, Approve, Revoke, RegistryChange, Tick, world
<1> QED
  BY <1>2, <1>3, <1>4, <1>5, <1>6, <1>7 DEF Next

-----------------------------------------------------------------------------
\* The records.

\* The handler's report is the channel's, so a final status it writes is too.
LEMMA WrittenKeeps ==
    ASSUME IInv, SInv, NEW i \in Intents, Written(i)
    PROVE  \E out \in Outcome : Keeps(intents[i], intents'[i], out) /\ Holds(i, out)
<1>1. PICK p \in Agents :
         Loaded(p) /\ proc[p].id = i /\ Derives(p, intents[i], intents'[i])
  BY DEF Written
<1>2. /\ intents[i] \in IntentRecord(Orders) /\ WellFormed(intents[i])
      /\ Consistent(intents[i]) /\ Reports(p)
      /\ proc[p].out \in Outcome /\ proc[p].since \in Nat /\ now \in Nat
  BY DEF IInv, SInv, TypeOK, HandlerState, Accepted
<1>3. Indeterminate \in Outcome /\ Holds(i, Indeterminate) /\ Retention \in Nat
  BY ConstantTypes, PaymentAssumption DEF Holds, Indeterminate
<1>4. CASE intents'[i] = Accept(intents[i], Retention, proc[p].since)
  BY <1>2, <1>3, <1>4, AcceptKeeps
<1>5. CASE \E to \in Closed, t \in Nat : intents'[i] = CloseUnaccepted(intents[i], to, t)
  BY <1>2, <1>3, <1>5, CloseKeeps
<1>6. CASE intents'[i] = FlagForReview(intents[i], now)
  BY <1>2, <1>3, <1>6, FlagKeeps
<1>7. CASE proc[p].step = "outcome" /\ intents'[i] = ApplyOutcome(intents[i], proc[p].out, now)
  <2>1. Holds(i, proc[p].out)
    BY <1>1, <1>2, <1>7 DEF Reports
  <2>2. proc[p].out.state # "none" => proc[p].out.txn > 0
    BY <2>1 DEF Holds
  <2>3. Keeps(intents[i], intents'[i], proc[p].out)
    BY <1>2, <1>7, <2>2, OutcomeKeeps
  <2> QED
    BY <1>2, <2>1, <2>3
<1> QED
  BY <1>1, <1>4, <1>5, <1>6, <1>7 DEF Derives

LEMMA RecordStep ==
    ASSUME IInv, IInv', SInv, Next, NEW i \in Intents
    PROVE  /\ Consistent(intents'[i]) /\ Grows(intents[i], intents'[i])
           /\ Truthful(i)'
<1> DEFINE r == intents[i]
           q == intents'[i]
<1>1. /\ Consistent(r) /\ Truthful(i) /\ WellFormed(r) /\ ChannelKeeps(i) /\ Recorded(i)
  BY ChannelSteps, RecordSteps DEF IInv, SInv, Accepted
<1>2. CASE q = r
  <2>1. Grows(r, q)
    BY <1>2 DEF Grows
  <2>2. Truthful(i)'
    BY <1>1, <1>2, StatusSets DEF Truthful, ChannelKeeps
  <2> QED
    BY <1>1, <1>2, <2>1, <2>2
<1>3. CASE Created(i)
  <2>1. PICK p \in Agents : ~Exists(i) /\ proc[p].newid = i /\ q = proc[p].new
    BY <1>3 DEF Created
  <2>2. q.evidence = {} /\ q.status = "prepared"
    BY <2>1 DEF IInv, SInv, Candidate, Reports
  <2>3. r.status = "absent" /\ r.evidence = {} /\ ~r.review /\ r.txn = 0 /\ ~r.attempt
    BY <1>1, <2>1, StatusSets DEF Exists, Consistent, WellFormed
  <2> HIDE DEF r, q
  <2>4. Consistent(q) /\ Grows(r, q)
    BY <2>2, <2>3, StatusSets DEF Consistent, Agrees, Grows
  <2>5. Truthful(i)'
    BY <2>2, StatusSets DEF Truthful, q
  <2> QED
    BY <2>4, <2>5 DEF r, q
<1>4. CASE Written(i)
  <2>1. PICK out \in Outcome : Keeps(r, q, out) /\ Holds(i, out)
    BY <1>4, WrittenKeeps
  <2>2. CASE q.status \in Settled /\ q.status # r.status
    <3>1. out.state \in {"succeeded", "declined"} /\ q.status = TargetStatus(out.state)
      BY <2>1, <2>2 DEF Keeps
    <3>2. channel'[i].count > 0 /\ (i \in Honest => channel'[i].state = out.state)
      BY <1>1, <2>1, <3>1 DEF Holds, ChannelKeeps
    <3> QED
      BY <2>1, <3>1, <3>2 DEF Keeps, Truthful, TargetStatus
  <2>3. CASE q.status \notin Settled \/ q.status = r.status
    BY <1>1, <2>1, <2>3, StatusSets DEF Keeps, Truthful, ChannelKeeps
  <2> QED
    BY <2>2, <2>3
<1> QED
  BY <1>1, <1>2, <1>3, <1>4 DEF Recorded

-----------------------------------------------------------------------------

LEMMA SettlementInit == Init => SInv
<1> SUFFICES ASSUME Init PROVE SInv
  OBVIOUS
<1>1. ASSUME NEW i \in Intents PROVE Consistent(intents[i]) /\ Truthful(i)
  <2>1. intents[i] = Absent(NoOrder)
    BY DEF Init
  <2>2. /\ intents[i].status = "absent" /\ intents[i].evidence = {}
        /\ ~intents[i].review /\ intents[i].txn = 0
    BY <2>1 DEF Absent, PreparedIntent
  <2> QED
    BY <2>2, StatusSets DEF Consistent, Agrees, Truthful
<1>2. ASSUME NEW p \in Agents PROVE Reports(p)
  <2>1. proc[p] = Idle /\ Absent(NoOrder).evidence = {}
    BY DEF Init, Absent, PreparedIntent
  <2>2. proc[p].step = "none" /\ proc[p].new.evidence = {}
    BY <2>1 DEF Idle
  <2> QED
    BY <2>2 DEF Reports
<1>3. Told
  BY DEF Init, Told
<1> QED
  BY <1>1, <1>2, <1>3 DEF SInv

LEMMA SettlementNext == IInv /\ IInv' /\ SInv /\ [Next]_vars => SInv'
<1> SUFFICES ASSUME IInv, IInv', SInv, [Next]_vars PROVE SInv'
  OBVIOUS
<1>1. CASE Next
  <2>1. ASSUME NEW i \in Intents PROVE (Consistent(intents[i]) /\ Truthful(i))'
    BY <1>1, <2>1, RecordStep DEF Consistent, Agrees
  <2> QED
    BY <1>1, <2>1, ReportsStep, ToldStep DEF SInv
<1>2. CASE UNCHANGED vars
  BY <1>2 DEF vars, SInv, Consistent, Agrees, Truthful, Reports, Told, Holds
<1> QED
  BY <1>1, <1>2

\* Records, channel and the reports between them agree in every reachable state.
THEOREM SettlementInvariance == Spec => []SInv
BY SettlementInit, SettlementNext, Invariance, PTL DEF Spec

\* No write, of a handler, a callback or a recovery pass, loses what an earlier
\* one recorded, however long ago it loaded the record.
THEOREM RecordsOnlyGrow == Spec => RecordOnlyGrows
<1> DEFINE Kept == \A i \in Intents :
         LET old == intents[i]  new == intents'[i] IN
         /\ old.status \in Settled \cup Closed => new.status = old.status
         /\ old.evidence \subseteq new.evidence
         /\ old.review => new.review
         /\ old.txn # 0 => new.txn = old.txn
         /\ old.attempt => new.attempt /\ new.expires = old.expires
<1>1. IInv /\ IInv' /\ SInv /\ [Next]_vars => [Kept]_vars
  <2> SUFFICES ASSUME IInv, IInv', SInv, Next PROVE Kept
    OBVIOUS
  <2>1. \A i \in Intents : Grows(intents[i], intents'[i])
    BY RecordStep
  <2> QED
    BY <2>1 DEF Grows
<1> QED
  BY <1>1, Invariance, SettlementInvariance, PTL DEF Spec, RecordOnlyGrows

\* A report that contradicts the recorded result, or names another transaction,
\* has put the attempt under review.
THEOREM ContradictionsAreFlagged == Spec => []ContradictionIsFlagged
<1>1. SInv => ContradictionIsFlagged
  BY DEF SInv, Consistent, Agrees, ContradictionIsFlagged
<1> QED
  BY <1>1, SettlementInvariance, PTL

\* Where the channel keeps its contract, the recorded final result is the
\* channel's: no timeout, expiry or lost answer ever became one.
THEOREM ResultsAreTheChannels == Spec => []SettlesTruthfully
<1>1. SInv => SettlesTruthfully
  BY DEF SInv, Truthful, SettlesTruthfully
<1> QED
  BY <1>1, SettlementInvariance, PTL
=============================================================================
