--------------------------- MODULE SecurityEvents ---------------------------
(***************************************************************************)
(* One security event on its way from the request that records it to the   *)
(* object in the archive bucket (state.rs, security_event.rs,              *)
(* adapters/aws/security_events.rs, security_event_archive.rs,             *)
(* bin/security_event_archive.rs).                                         *)
(*                                                                         *)
(*  - The producer writes the hot row, with retries; a write that times    *)
(*    out may have landed, or lands later.  Then it enqueues the ingress   *)
(*    record, and at last prints it to the retained log.                   *)
(*  - The archive function runs in Slots concurrent invocations.  An       *)
(*    invocation serves the table's stream, the ingress queue, a           *)
(*    notification about a stream batch that failed for good, or the       *)
(*    five-minute sweep.                                                   *)
(*  - The row's delivery history only grows; the object is written by      *)
(*    compare-and-swap on its ETag; the row becomes archived by            *)
(*    compare-and-swap on status, attempts and history.                    *)
(*                                                                         *)
(* A history entry is <<status, stamp>>.  Stamps stand for the times that  *)
(* the object comparison tells apart: 0 for entries that exist once, and   *)
(* a stamp of its own for what one receive reconstructs and for the time   *)
(* one invocation archives at.                                             *)
(***************************************************************************)
EXTENDS Integers, Sequences, FiniteSets, SequencesExt

CONSTANTS
    Slots,             \* concurrent invocations of the archive function, 1..n
    HotAttempts,       \* producer's writes of the row (3 in the code)
    EnqueueAttempts,   \* producer's sends to the ingress queue (3)
    IngressAttempts,   \* INGRESS_DELIVERY_ATTEMPTS (4)
    HistoryLimit,      \* INGRESS_DELIVERY_HISTORY_LIMIT (64)
    ArchiveAttempts,   \* ARCHIVE_DELIVERY_ATTEMPTS (4)
    CasAttempts,       \* ARCHIVE_OBJECT_CAS_ATTEMPTS (4)
    StreamTries,       \* 1 + retryAttempts of the stream (4)
    NoteReceives,      \* maxReceiveCount of the notification queue (4)
    Start,             \* where the behaviours start: "hot", "batch", "stored"
    AmbiguousEnqueue,  \* a send that failed may have been enqueued
    MaxFaults,         \* bound: calls to a service that fail
    MaxCrashes,        \* bound: invocations and producers that die
    MaxAttempts        \* bound: attempt counters saturate here

BoundsAssumption ==
    /\ \A b \in {HotAttempts, EnqueueAttempts, IngressAttempts, ArchiveAttempts,
                 CasAttempts, StreamTries, NoteReceives, MaxAttempts, HistoryLimit} :
            b \in Nat \ {0}
    /\ Slots \subseteq Nat /\ MaxFaults \in Nat /\ MaxCrashes \in Nat
    /\ AmbiguousEnqueue \in BOOLEAN
    /\ Start \in {"hot", "batch", "stored"}

\* A record whose every write and every send failed is within the limit: 17 of 64.
HistoryAssumption == 3 * (HotAttempts + EnqueueAttempts) - 1 <= HistoryLimit

VARIABLES
    prod,      \* the producer: phase, attempt, its ingress.delivery and, as history,
               \* whether the record may be on its way twice
    late,      \* timed-out writes of the row that may still land
    queue,     \* the ingress queue: copies of the ingress record
    log,       \* the record printed to the retained log, or Absent
    row,       \* the row of the hot ledger, or Absent
    idx,       \* the status delivery_status-index shows
    stream,    \* the row's INSERT in the table's stream
    note,      \* the notification about a failed stream batch
    object,    \* the object in the archive bucket, or Absent
    work,      \* the invocations of the archive function
    sent,      \* an incident message was sent to the archive queue
    retained,  \* what the quarantine bucket holds of this event
    faults,    \* failures still to come
    crashes    \* crashes still to come

eventVars == <<prod, late, queue, log, row, idx, stream, note, object, work, sent,
               retained, faults, crashes>>

Absent == [none |-> TRUE]

(***************************************************************************)
(* Deliveries.                                                             *)
(***************************************************************************)
Open == {"pending", "retrying", "failed"}

Statuses == Open \cup {"dead_letter_pending", "dead_lettered", "archived",
                       "archive_refresh_pending"}

At(status, stamp) == <<status, stamp>>

Once(status) == At(status, 0)

StatusesOf(history) == [k \in DOMAIN history |-> history[k][1]]

Bump(n) == IF n < MaxAttempts THEN n + 1 ELSE n

Pending == [attempts |-> 0, history |-> <<Once("pending")>>]

StartAttempt(d, again) ==
    [attempts |-> d.attempts + 1,
     history  |-> d.history \o (IF again THEN <<Once("retrying")>> ELSE <<>>)
                            \o <<Once("pending")>>]

Failed(d) == [d EXCEPT !.history = Append(@, Once("failed"))]

\* Mutant: a later receive forgets the failed ones before it.
MutReceived(m) ==
    LET stamp == 10 * m.id + m.receives
        again == IF m.attempts + m.receives > 1 THEN <<At("retrying", stamp)>> ELSE <<>>
    IN  [attempts |-> m.d.attempts + m.receives,
         history  |-> m.d.history \o again \o <<At("pending", stamp)>>]

\* What receive number c of a copy reconstructs: c - 1 failed receives, then
\* the attempt that is open now; the history stops growing at its limit.
Received(m) ==
    LET stamp == 10 * m.id + m.receives
        round == <<"retrying", "pending", "failed">>
        skip  == IF m.attempts = 0 THEN 1 ELSE 0     \* the first attempt is no retry
        all   == m.d.history \o
                 [k \in 1..(3 * m.receives - 1 - skip) |-> At(round[((k - 1 + skip) % 3) + 1], stamp)]
    IN  [attempts |-> m.d.attempts + m.receives,
         history  |-> IF Len(all) <= HistoryLimit THEN all
                      ELSE SubSeq(all, 1, HistoryLimit)]

(***************************************************************************)
(* The hot ledger: put_with_delivery and reconcile_duplicate_delivery.     *)
(* The read and the conditional write of a merge are one step: the write   *)
(* repeats the read when anything it compared has changed.                 *)
(***************************************************************************)
NewRow(d) ==
    [status |-> "pending", attempts |-> d.attempts, history |-> d.history,
     source |-> d, redriving |-> FALSE, refreshLease |-> 0]

Covered(r, d) ==
    \/ d.attempts < r.source.attempts
    \/ /\ d.attempts = r.source.attempts
       /\ IsPrefix(StatusesOf(d.history), StatusesOf(r.source.history))

Extends(r, d) == IsPrefix(StatusesOf(r.source.history), StatusesOf(d.history))

\* Mutant: a merge takes the copy's history for the row's.
MutMerged(r, d) ==
    LET refresh == r.status \in {"archived", "archive_refresh_pending"} IN
    [r EXCEPT !.source   = d,
              !.status   = IF refresh THEN "archive_refresh_pending" ELSE @,
              !.history  = d.history,
              !.attempts = @ + d.attempts - r.source.attempts]

\* Mutant: a merge into an archived row does not ask for a refresh.
MutMergedQuietly(r, d) ==
    [r EXCEPT !.source   = d,
              !.history  = @ \o SubSeq(d.history, Len(r.source.history) + 1, Len(d.history)),
              !.attempts = @ + d.attempts - r.source.attempts]

Merged(r, d) ==
    LET suffix  == SubSeq(d.history, Len(r.source.history) + 1, Len(d.history))
        refresh == r.status \in {"archived", "archive_refresh_pending"}
        marker  == IF refresh THEN <<Once("archive_refresh_pending")>> ELSE <<>>
    IN  [r EXCEPT !.source   = d,
                  !.status   = IF refresh THEN "archive_refresh_pending" ELSE @,
                  !.history  = @ \o suffix \o marker,
                  !.attempts = @ + d.attempts - r.source.attempts]

Divergent(r, d) == r # Absent /\ ~Covered(r, d) /\ ~Extends(r, d)

\* The row after a write of delivery d that was not refused.
Stored(r, d) ==
    IF r = Absent THEN NewRow(d)
    ELSE IF Covered(r, d) \/ ~Extends(r, d) THEN r ELSE Merged(r, d)

\* An INSERT, and only an INSERT, enters the table's stream.
StreamAfter(newRow) ==
    IF row = Absent /\ newRow # Absent THEN [stream EXCEPT !.st = "ready"] ELSE stream

(***************************************************************************)
(* The archive object.                                                     *)
(***************************************************************************)
Proposed(w) ==
    [status   |-> "archived",
     attempts |-> work[w].snap.attempts,
     history  |-> Append(work[w].snap.history, At("archived", 100 + w))]

SourceHistory(o) == IF o.status = "archived" THEN Front(o.history) ELSE o.history

Dominates(o, p) ==
    /\ o.attempts >= p.attempts
    /\ IsPrefix(SourceHistory(p), SourceHistory(o))

\* Mutant: an object that differs is replaced, also by one that knows less.
ReplaceWhatDiffers(existing, proposed) ==
    IF Dominates(existing, proposed) /\ Dominates(proposed, existing) THEN "keep" ELSE "replace"

compare_archive_objects(existing, proposed) ==
    IF existing.status = "dead_lettered"
    THEN IF Dominates(proposed, existing) THEN "replace" ELSE "error"
    ELSE IF Dominates(existing, proposed) THEN "keep"
    ELSE IF Dominates(proposed, existing) THEN "replace" ELSE "error"

(***************************************************************************)
(* Invocations.  task is what the invocation serves, mode which of         *)
(* deliver_record, redrive_dead_letter and refresh_archived_record it runs *)
(* or, while it keeps an ingress record, why.                              *)
(***************************************************************************)
IdleSlot == [pc |-> "idle", task |-> "none", mode |-> "none", n |-> 0, cas |-> 0,
             snap |-> Absent, etag |-> Absent, lease |-> 0, msg |-> Absent]

\* The next step of an invocation; what later steps do not use is dropped.
Go(w, pc) ==
    CASE pc \in {"done", "fail", "claim", "give_up", "finish", "dead_letter"} ->
            [IdleSlot EXCEPT !.pc = pc, !.task = work[w].task, !.msg = work[w].msg]
      [] pc \in {"put_failed", "commit_failed", "restore"} ->
            [work[w] EXCEPT !.pc = pc, !.cas = 0, !.snap = Absent, !.etag = Absent]
      [] OTHER -> [work[w] EXCEPT !.pc = pc]

Goto(w, slot) == work' = [work EXCEPT ![w] = slot]

NextAttempt(w) ==
    [work[w] EXCEPT !.pc = "attempt", !.n = @ + 1, !.cas = 0, !.snap = Absent, !.etag = Absent]

Fault == faults > 0 /\ faults' = faults - 1

\* A conditional write of the row: it is made, refused, or answered by an
\* error after it was made or not.
Update(w, cond, new, yes, no, error) ==
    \/ /\ cond
       /\ row' = new
       /\ Goto(w, yes)
       /\ UNCHANGED faults
    \/ /\ ~cond
       /\ Goto(w, no)
       /\ UNCHANGED <<row, faults>>
    \/ /\ Fault
       /\ row' \in {row} \cup (IF cond THEN {new} ELSE {})
       /\ Goto(w, error)

InitEvent ==
    LET first == StartAttempt(Pending, FALSE)
        copy  == StartAttempt(Failed(first), FALSE)
    IN
    /\ prod = [phase |-> IF Start = "batch" THEN "enqueue"
                         ELSE IF Start = "hot" THEN "hot" ELSE "done",
               n |-> 1, d |-> Pending, twice |-> Start = "batch"]
    /\ late = {}
    /\ log = IF Start = "batch" THEN Pending ELSE Absent
    /\ queue = IF Start = "stored"
               THEN {[id |-> 1, d |-> copy, attempts |-> 0, receives |-> 0]} ELSE {}
    /\ row = IF Start = "stored" THEN NewRow(first) ELSE Absent
    /\ idx = "pending"
    /\ stream = [st |-> IF Start = "stored" THEN "ready" ELSE "none", left |-> StreamTries]
    /\ note = [st |-> "none", left |-> NoteReceives]
    /\ object = Absent
    /\ work = [w \in Slots |-> IdleSlot]
    /\ sent = FALSE
    /\ retained = {}
    /\ faults = MaxFaults
    /\ crashes = MaxCrashes

(***************************************************************************)
(* The producer: record_prepared_security_event, and the queue path of a   *)
(* large batch, whose record is printed to the log first.                  *)
(***************************************************************************)
ProducerFails(d) ==
    prod' = IF prod.n < HotAttempts THEN [prod EXCEPT !.n = @ + 1, !.d = Failed(d)]
            ELSE [prod EXCEPT !.phase = "enqueue", !.n = 1, !.d = Failed(d)]

WriteRow ==
    LET d == StartAttempt(prod.d, prod.n > 1) IN
    /\ prod.phase = "hot"
    /\ \/ /\ ~Divergent(row, d)
          /\ row' = Stored(row, d)
          /\ stream' = StreamAfter(row')
          /\ prod' = [prod EXCEPT !.phase = "done", !.d = d]
          /\ UNCHANGED <<late, faults>>
       \/ /\ Fault                       \* an error, with or without effect
          /\ row' \in {row, Stored(row, d)}
          /\ stream' = StreamAfter(row')
          /\ ProducerFails(d)
          /\ UNCHANGED late
       \/ /\ Fault                       \* the deadline passes first
          /\ late' = late \cup {d}
          /\ ProducerFails(d)
          /\ UNCHANGED <<row, stream>>
    /\ UNCHANGED <<queue, log, idx, note, object, work, sent, retained, crashes>>

\* A PutItem whose caller gave up reaches the table; nobody merges after it.
LateWrite ==
    \E d \in late :
        /\ late' = late \ {d}
        /\ row' = IF row = Absent THEN NewRow(d) ELSE row
        /\ stream' = StreamAfter(row')
        /\ UNCHANGED <<prod, queue, log, idx, note, object, work, sent, retained,
                       faults, crashes>>

Copy(id, d) == [id |-> id, d |-> d, attempts |-> 0, receives |-> 0]

Enqueue ==
    LET d == StartAttempt(prod.d, prod.n > 1)
        c == Copy(prod.n, d)
    IN
    /\ prod.phase = "enqueue"
    /\ \/ /\ queue' = queue \cup {c}
          /\ prod' = [prod EXCEPT !.phase = "done", !.d = d]
          /\ UNCHANGED <<log, faults>>
       \/ /\ Fault
          /\ \E arrived \in {FALSE, AmbiguousEnqueue} :
                /\ queue' = IF arrived THEN queue \cup {c} ELSE queue
                /\ \/ /\ prod.n < EnqueueAttempts
                      /\ prod' = [prod EXCEPT !.n = @ + 1, !.d = Failed(d),
                                              !.twice = @ \/ arrived]
                      /\ UNCHANGED log
                   \/ /\ prod.n = EnqueueAttempts
                      /\ prod' = [prod EXCEPT !.phase = "done", !.d = Failed(d),
                                              !.twice = @ \/ arrived]
                      /\ log' = Failed(d)
    /\ UNCHANGED <<late, row, idx, stream, note, object, work, sent, retained, crashes>>

\* The runtime dies while it records the event.
ProducerDies ==
    /\ prod.phase \in {"hot", "enqueue"}
    /\ crashes > 0
    /\ crashes' = crashes - 1
    /\ prod' = [prod EXCEPT !.phase = "dead"]
    /\ UNCHANGED <<late, queue, log, row, idx, stream, note, object, work, sent,
                   retained, faults>>

\* Once the ingress queue has recovered, an operator replays the logged
\* record, unless the row covers it or contradicts it.
Replay ==
    /\ log # Absent
    /\ prod.phase # "enqueue" /\ queue = {} /\ late = {}
    /\ row # Absent =>
          ~Covered(row, log) /\ (log.attempts = row.source.attempts => Extends(row, log))
    /\ queue' = queue \cup {Copy(9, log)}
    /\ log' = Absent
    /\ UNCHANGED <<prod, late, row, idx, stream, note, object, work, sent, retained,
                   faults, crashes>>

(***************************************************************************)
(* What starts an invocation.                                              *)
(***************************************************************************)
Serve(w, task, pc) ==
    /\ work[w].pc = "idle"
    /\ Goto(w, [IdleSlot EXCEPT !.pc = pc, !.task = task])

BeginStream(w) ==
    /\ stream.st = "ready"
    /\ stream' = [stream EXCEPT !.st = "busy"]
    /\ Serve(w, "stream", "check")
    /\ UNCHANGED <<prod, late, queue, log, row, idx, note, object, sent, retained,
                   faults, crashes>>

BeginNote(w) ==
    /\ note.st = "ready"
    /\ note' = [note EXCEPT !.st = "busy"]
    /\ Serve(w, "note", "give_up")
    /\ UNCHANGED <<prod, late, queue, log, row, idx, stream, object, sent, retained,
                   faults, crashes>>

\* Mutant: the sweep leaves the refreshes to whoever merged.
MutBeginSweep(w) ==
    /\ \/ idx = "dead_letter_pending" /\ Serve(w, "sweep", "check")
       \/ idx = "dead_lettered" /\ Serve(w, "sweep", "redrive")
    /\ UNCHANGED <<prod, late, queue, log, row, idx, stream, note, object, sent,
                   retained, faults, crashes>>

\* recover_delivery_status: the index names the row under one of three
\* statuses.
BeginSweep(w) ==
    /\ \/ idx = "dead_letter_pending" /\ Serve(w, "sweep", "check")
       \/ idx = "dead_lettered" /\ Serve(w, "sweep", "redrive")
       \/ idx = "archive_refresh_pending" /\ Serve(w, "sweep", "claim")
    /\ UNCHANGED <<prod, late, queue, log, row, idx, stream, note, object, sent,
                   retained, faults, crashes>>

\* SQS hands out a copy, one invocation at a time: its visibility timeout
\* outlives the invocation.
BeginIngress(w) ==
    \E m \in queue :
        LET r == [m EXCEPT !.receives = @ + 1] IN
        /\ \A v \in Slots : work[v].msg # Absent => work[v].msg.id # m.id
        /\ work[w].pc = "idle"
        /\ queue' = (queue \ {m}) \cup {r}
        /\ Goto(w, [IdleSlot EXCEPT !.pc = "store", !.task = "ingress", !.msg = r])
        /\ UNCHANGED <<prod, late, log, row, idx, stream, note, object, sent, retained,
                       faults, crashes>>

(***************************************************************************)
(* deliver_record.                                                         *)
(***************************************************************************)
CheckOutbox(w) ==
    /\ work[w].pc = "check"
    /\ \/ /\ Goto(w, IF row.status = "dead_letter_pending" THEN Go(w, "finish")
                     ELSE [Go(w, "attempt") EXCEPT !.mode = "deliver", !.n = 1])
          /\ UNCHANGED faults
       \/ /\ Fault
          /\ Goto(w, Go(w, "fail"))
    /\ UNCHANGED <<prod, late, queue, log, row, idx, stream, note, object, sent,
                   retained, crashes>>

MarkAttempt(w) ==
    /\ work[w].pc = "attempt"
    /\ Update(w, row.status \in Open,
              [row EXCEPT !.status = "retrying", !.attempts = Bump(@),
                          !.history = Append(@, Once("retrying"))],
              Go(w, "load"), Go(w, "claim"), Go(w, "fail"))
    /\ UNCHANGED <<prod, late, queue, log, idx, stream, note, object, sent, retained,
                   crashes>>

LoadDelivery(w) ==
    LET s == work[w] IN
    /\ s.pc = "load"
    /\ \/ /\ s.mode = "refresh" => row.status = "archive_refresh_pending"
          /\ Goto(w, [s EXCEPT !.pc = "put", !.cas = 1,
                      !.snap = [status |-> row.status, attempts |-> row.attempts,
                                history |-> row.history]])
          /\ UNCHANGED faults
       \/ /\ s.mode = "refresh" /\ row.status # "archive_refresh_pending"
          /\ Goto(w, Go(w, "done"))
          /\ UNCHANGED faults
       \/ /\ Fault
          /\ Goto(w, Go(w, IF s.mode = "redrive" THEN "restore" ELSE "fail"))
    /\ UNCHANGED <<prod, late, queue, log, row, idx, stream, note, object, sent,
                   retained, crashes>>

\* Where a failed write of the object leads.
PutFailed(w) ==
    Go(w, CASE work[w].mode = "deliver" -> "put_failed"
            [] work[w].mode = "redrive" -> "restore"
            [] work[w].mode = "refresh" -> "fail")

\* The create, and when the key exists, the read and the comparison.
PutObject(w) ==
    /\ work[w].pc = "put"
    /\ \/ /\ object = Absent
          /\ object' = Proposed(w)
          /\ Goto(w, [Go(w, "commit") EXCEPT !.etag = Proposed(w)])
          /\ UNCHANGED faults
       \/ /\ object # Absent
          /\ Goto(w, CASE compare_archive_objects(object, Proposed(w)) = "keep" ->
                            [Go(w, "commit") EXCEPT !.etag = object]
                       [] compare_archive_objects(object, Proposed(w)) = "replace" ->
                            [Go(w, "replace") EXCEPT !.etag = object]
                       [] OTHER -> PutFailed(w))
          /\ UNCHANGED <<object, faults>>
       \/ /\ Fault
          /\ object' \in {object} \cup (IF object = Absent THEN {Proposed(w)} ELSE {})
          /\ Goto(w, PutFailed(w))
    /\ UNCHANGED <<prod, late, queue, log, row, idx, stream, note, sent, retained, crashes>>

\* The conditional replacement; a conflict starts over, a few times.
ReplaceObject(w) ==
    LET s == work[w] IN
    /\ s.pc = "replace"
    /\ \/ /\ object = s.etag
          /\ object' = Proposed(w)
          /\ Goto(w, [Go(w, "commit") EXCEPT !.etag = Proposed(w)])
          /\ UNCHANGED faults
       \/ /\ object # s.etag
          /\ Goto(w, IF s.cas < CasAttempts
                     THEN [Go(w, "put") EXCEPT !.cas = @ + 1, !.etag = Absent]
                     ELSE PutFailed(w))
          /\ UNCHANGED <<object, faults>>
       \/ /\ Fault
          /\ object' \in {object} \cup (IF object = s.etag THEN {Proposed(w)} ELSE {})
          /\ Goto(w, PutFailed(w))
    /\ UNCHANGED <<prod, late, queue, log, row, idx, stream, note, sent, retained, crashes>>

\* Mutant: the commit compares the status only.
MutMarkArchived(w) ==
    LET s == work[w] IN
    /\ s.pc = "commit"
    /\ Update(w, row.status = s.snap.status,
              [row EXCEPT !.status = "archived", !.history = Append(@, Last(s.etag.history)),
                          !.redriving = FALSE, !.refreshLease = 0],
              Go(w, "done"), Go(w, "fail"), Go(w, "fail"))
    /\ UNCHANGED <<prod, late, queue, log, idx, stream, note, object, sent, retained,
                   crashes>>

\* Mutant: the row gets the time of this invocation, not of the object.
MutMarkArchivedNow(w) ==
    LET s == work[w] IN
    /\ s.pc = "commit"
    /\ Update(w,
              /\ row.status = s.snap.status
              /\ row.attempts = s.snap.attempts
              /\ row.history = s.snap.history,
              [row EXCEPT !.status = "archived",
                          !.history = Append(@, At("archived", 100 + w)),
                          !.redriving = FALSE, !.refreshLease = 0],
              Go(w, "done"), Go(w, "fail"), Go(w, "fail"))
    /\ UNCHANGED <<prod, late, queue, log, idx, stream, note, object, sent, retained,
                   crashes>>

\* mark_archived: compare-and-swap on the loaded status, attempts, history
\* and, for a refresh, its lease; the time is the winning object's.
MarkArchived(w) ==
    LET s == work[w] IN
    /\ s.pc = "commit"
    /\ Update(w,
              /\ row.status = s.snap.status
              /\ row.attempts = s.snap.attempts
              /\ row.history = s.snap.history
              /\ s.mode = "refresh" => row.refreshLease = s.lease,
              [row EXCEPT !.status = "archived", !.history = Append(@, Last(s.etag.history)),
                          !.redriving = FALSE, !.refreshLease = 0],
              Go(w, "done"),
              CASE s.mode = "deliver" -> IF s.n < ArchiveAttempts THEN NextAttempt(w)
                                         ELSE Go(w, "fail")
                [] s.mode = "redrive" -> Go(w, "restore")
                [] s.mode = "refresh" -> Go(w, "done"),
              CASE s.mode = "deliver" -> Go(w, "commit_failed")
                [] s.mode = "redrive" -> Go(w, "restore")
                [] s.mode = "refresh" -> Go(w, "fail"))
    /\ UNCHANGED <<prod, late, queue, log, idx, stream, note, object, sent, retained,
                   crashes>>

MarkFailed(w) ==
    LET s    == work[w]
        next == IF s.pc = "commit_failed" THEN Go(w, "fail")
                ELSE IF s.n < ArchiveAttempts THEN NextAttempt(w) ELSE Go(w, "give_up")
    IN
    /\ s.pc \in {"put_failed", "commit_failed"}
    /\ Update(w, row.status \in Open,
              [row EXCEPT !.status = "failed", !.history = Append(@, Once("failed"))],
              next, next, Go(w, "fail"))
    /\ UNCHANGED <<prod, late, queue, log, idx, stream, note, object, sent, retained,
                   crashes>>

\* Mutant: the row is dead_lettered before the message is sent.
MutMarkDeadLetterPending(w) ==
    /\ work[w].pc = "give_up"
    /\ Update(w, row.status \notin {"archived", "dead_lettered"},
              [row EXCEPT !.status = "dead_lettered",
                          !.history = Append(@, Once("dead_lettered"))],
              Go(w, "finish"), Go(w, "done"), Go(w, "fail"))
    /\ UNCHANGED <<prod, late, queue, log, idx, stream, note, object, sent, retained,
                   crashes>>

MarkDeadLetterPending(w) ==
    /\ work[w].pc = "give_up"
    /\ Update(w, row.status \notin {"archived", "dead_lettered"},
              [row EXCEPT !.status = "dead_letter_pending",
                          !.history = Append(@, Once("dead_letter_pending"))],
              Go(w, "finish"), Go(w, "done"), Go(w, "fail"))
    /\ UNCHANGED <<prod, late, queue, log, idx, stream, note, object, sent, retained,
                   crashes>>

\* finish_dead_letter: the message first, then the status.
SendDeadLetter(w) ==
    /\ work[w].pc = "finish"
    /\ \/ /\ sent' = TRUE
          /\ Goto(w, Go(w, "dead_letter"))
          /\ UNCHANGED faults
       \/ /\ Fault
          /\ sent' \in {sent, TRUE}
          /\ Goto(w, Go(w, "fail"))
    /\ UNCHANGED <<prod, late, queue, log, row, idx, stream, note, object, retained,
                   crashes>>

MarkDeadLettered(w) ==
    /\ work[w].pc = "dead_letter"
    /\ Update(w, row.status = "dead_letter_pending",
              [row EXCEPT !.status = "dead_lettered",
                          !.history = Append(@, Once("dead_lettered"))],
              Go(w, "done"), Go(w, "done"), Go(w, "fail"))
    /\ UNCHANGED <<prod, late, queue, log, idx, stream, note, object, sent, retained,
                   crashes>>

(***************************************************************************)
(* redrive_dead_letter and refresh_archived_record.                        *)
(***************************************************************************)
\* Mutant: a redrive has a status of its own.
MutMarkRedriveAttempt(w) ==
    /\ work[w].pc = "redrive"
    /\ Update(w, row.status = "dead_lettered" /\ ~row.redriving,
              [row EXCEPT !.status = "redriving", !.redriving = TRUE, !.attempts = Bump(@)],
              [Go(w, "load") EXCEPT !.mode = "redrive"], Go(w, "done"), Go(w, "fail"))
    /\ UNCHANGED <<prod, late, queue, log, idx, stream, note, object, sent, retained,
                   crashes>>

MarkRedriveAttempt(w) ==
    /\ work[w].pc = "redrive"
    /\ Update(w, row.status = "dead_lettered" /\ ~row.redriving,
              [row EXCEPT !.redriving = TRUE, !.attempts = Bump(@)],
              [Go(w, "load") EXCEPT !.mode = "redrive"], Go(w, "done"), Go(w, "fail"))
    /\ UNCHANGED <<prod, late, queue, log, idx, stream, note, object, sent, retained,
                   crashes>>

MarkRedriveFailed(w) ==
    /\ work[w].pc = "restore"
    /\ Update(w, row.status = "dead_lettered", [row EXCEPT !.redriving = FALSE],
              Go(w, "done"), Go(w, "fail"), Go(w, "fail"))
    /\ UNCHANGED <<prod, late, queue, log, idx, stream, note, object, sent, retained,
                   crashes>>

\* The lease is a time, so two claims may carry the same one.
ClaimRefresh(w) ==
    \E lease \in 1..2 :
        /\ work[w].pc = "claim"
        /\ Update(w, row.status = "archive_refresh_pending" /\ row.refreshLease = 0,
                  [row EXCEPT !.refreshLease = lease],
                  [Go(w, "load") EXCEPT !.mode = "refresh", !.lease = lease],
                  Go(w, "done"), Go(w, "fail"))
        /\ UNCHANGED <<prod, late, queue, log, idx, stream, note, object, sent, retained,
                       crashes>>

\* A lease runs out: both outlive the invocation that took them.
LeaseRunsOut ==
    /\ \/ /\ row # Absent /\ row.redriving
          /\ \A w \in Slots : work[w].mode # "redrive"
          /\ row' = [row EXCEPT !.redriving = FALSE]
       \/ /\ row # Absent /\ row.refreshLease # 0
          /\ \A w \in Slots : work[w].mode = "refresh" => work[w].lease # row.refreshLease
          /\ row' = [row EXCEPT !.refreshLease = 0]
    /\ UNCHANGED <<prod, late, queue, log, idx, stream, note, object, work, sent,
                   retained, faults, crashes>>

(***************************************************************************)
(* The ingress record.                                                     *)
(***************************************************************************)
\* Mutant: a store error acknowledges the copy.
MutStore(w) ==
    LET d == Received(work[w].msg) IN
    /\ work[w].pc = "store"
    /\ \/ /\ ~Divergent(row, d)
          /\ row' = Stored(row, d)
          /\ Goto(w, Go(w, IF row = Absent THEN "done" ELSE "claim"))
          /\ UNCHANGED faults
       \/ /\ Fault
          /\ row' \in {row, Stored(row, d)}
          /\ Goto(w, Go(w, "done"))
    /\ stream' = StreamAfter(row')
    /\ UNCHANGED <<prod, late, queue, log, idx, note, object, sent, retained, crashes>>

Store(w) ==
    LET m == work[w].msg
        d == Received(m)
    IN
    /\ work[w].pc = "store"
    /\ \/ /\ ~Divergent(row, d)
          /\ row' = Stored(row, d)
          /\ Goto(w, Go(w, IF row = Absent THEN "done" ELSE "claim"))
          /\ UNCHANGED faults
       \/ /\ Divergent(row, d)
          /\ Goto(w, [Go(w, "retain") EXCEPT !.mode = "quarantine"])
          /\ UNCHANGED <<row, faults>>
       \/ /\ Fault
          /\ row' \in {row, Stored(row, d)}
          /\ Goto(w, IF m.attempts + m.receives < IngressAttempts THEN Go(w, "fail")
                     ELSE [Go(w, "retain") EXCEPT !.mode = "terminal"])
    /\ stream' = StreamAfter(row')
    /\ UNCHANGED <<prod, late, queue, log, idx, note, object, sent, retained, crashes>>

\* Mutant: the record is announced without being put in quarantine.
MutPersistIngressFailure(w) ==
    LET s == work[w] IN
    /\ s.pc = "retain"
    /\ Goto(w, Go(w, IF s.mode = "terminal" THEN "terminal" ELSE "announce"))
    /\ UNCHANGED <<prod, late, queue, log, row, idx, stream, note, object, sent,
                   retained, faults, crashes>>

PersistIngressFailure(w) ==
    LET s == work[w] IN
    /\ s.pc = "retain"
    /\ \/ /\ retained' = retained \cup {s.mode}
          /\ Goto(w, Go(w, IF s.mode = "terminal" THEN "terminal" ELSE "announce"))
          /\ UNCHANGED faults
       \/ /\ Fault
          /\ retained' \in {retained, retained \cup {s.mode}}
          /\ Goto(w, Go(w, "fail"))
    /\ UNCHANGED <<prod, late, queue, log, row, idx, stream, note, object, sent, crashes>>

\* The dead-lettered snapshot takes the key only when nothing has it.
ArchiveTerminalIngress(w) ==
    LET m     == work[w].msg
        d     == Received(m)
        stamp == 10 * m.id + m.receives
        o     == [status |-> "dead_lettered", attempts |-> d.attempts,
                  history |-> d.history \o <<At("failed", stamp), At("dead_lettered", stamp)>>]
        after == IF object = Absent THEN o ELSE object
    IN
    /\ work[w].pc = "terminal"
    /\ \/ /\ object' = after
          /\ Goto(w, Go(w, "announce"))
          /\ UNCHANGED faults
       \/ /\ Fault
          /\ object' \in {object, after}
          /\ Goto(w, Go(w, "fail"))
    /\ UNCHANGED <<prod, late, queue, log, row, idx, stream, note, sent, retained, crashes>>

AnnounceIngressFailure(w) ==
    /\ work[w].pc = "announce"
    /\ \/ Goto(w, Go(w, "done")) /\ UNCHANGED faults
       \/ Fault /\ Goto(w, Go(w, "fail"))
    /\ UNCHANGED <<prod, late, queue, log, row, idx, stream, note, object, sent,
                   retained, crashes>>

(***************************************************************************)
(* How an invocation ends: what it served is acknowledged or comes back.   *)
(***************************************************************************)
\* A stream record that fails once too often becomes a notification.
AckStream(ok) ==
    IF ok THEN stream' = [stream EXCEPT !.st = "done"] /\ UNCHANGED note
    ELSE IF stream.left > 1
    THEN stream' = [st |-> "ready", left |-> stream.left - 1] /\ UNCHANGED note
    ELSE /\ stream' = [st |-> "failed", left |-> 0]
         /\ note' = [note EXCEPT !.st = "ready"]

AckNote(ok) ==
    note' = IF ok THEN [note EXCEPT !.st = "done"]
            ELSE IF note.left > 1 THEN [st |-> "ready", left |-> note.left - 1]
            ELSE [st |-> "dead", left |-> 0]

End(w, ok) ==
    /\ Goto(w, IdleSlot)
    /\ \/ work[w].task = "stream" /\ AckStream(ok) /\ UNCHANGED queue
       \/ work[w].task = "note" /\ AckNote(ok) /\ UNCHANGED <<stream, queue>>
       \/ /\ work[w].task = "ingress"
          /\ queue' = IF ok THEN queue \ {work[w].msg} ELSE queue
          /\ UNCHANGED <<stream, note>>
       \/ work[w].task = "sweep" /\ UNCHANGED <<stream, note, queue>>

Return(w) ==
    /\ work[w].pc \in {"done", "fail"}
    /\ End(w, work[w].pc = "done")
    /\ UNCHANGED <<prod, late, log, row, idx, object, sent, retained, faults, crashes>>

\* The invocation is killed or times out between two calls.
Crash(w) ==
    /\ work[w].pc # "idle"
    /\ crashes > 0
    /\ crashes' = crashes - 1
    /\ End(w, FALSE)
    /\ UNCHANGED <<prod, late, log, row, idx, object, sent, retained, faults>>

IndexCatchesUp ==
    /\ row # Absent /\ idx # row.status
    /\ idx' = row.status
    /\ UNCHANGED <<prod, late, queue, log, row, stream, note, object, work, sent,
                   retained, faults, crashes>>

Producer == WriteRow \/ Enqueue \/ ProducerDies

Begin(w) == BeginStream(w) \/ BeginNote(w) \/ BeginSweep(w) \/ BeginIngress(w)

ArchiveStep(w) ==
    \/ CheckOutbox(w) \/ MarkAttempt(w) \/ LoadDelivery(w) \/ PutObject(w)
    \/ ReplaceObject(w) \/ MarkArchived(w) \/ MarkFailed(w) \/ MarkDeadLetterPending(w)
    \/ SendDeadLetter(w) \/ MarkDeadLettered(w) \/ MarkRedriveAttempt(w)
    \/ MarkRedriveFailed(w) \/ ClaimRefresh(w) \/ Store(w) \/ PersistIngressFailure(w)
    \/ ArchiveTerminalIngress(w) \/ AnnounceIngressFailure(w) \/ Return(w)

NextEvent ==
    \/ Producer \/ LateWrite \/ Replay \/ LeaseRunsOut \/ IndexCatchesUp
    \/ \E w \in Slots : Begin(w) \/ ArchiveStep(w) \/ Crash(w)

EventSpec == InitEvent /\ [][NextEvent]_eventVars

(***************************************************************************)
(* Properties.                                                             *)
(***************************************************************************)
Entries == Statuses \X (0..200)

DeliveryOK(d) == d.attempts \in Nat /\ \A k \in DOMAIN d.history : d.history[k] \in Entries

\* Every variable holds what the record, the row, the object and an
\* invocation can hold.
EventTypeOK ==
    /\ prod.phase \in {"hot", "enqueue", "done", "dead"} /\ DeliveryOK(prod.d)
    /\ \A d \in late : DeliveryOK(d)
    /\ \A m \in queue : m.id \in 1..9 /\ m.receives \in Nat /\ DeliveryOK(m.d)
    /\ row # Absent => row.status \in Statuses /\ DeliveryOK(row) /\ DeliveryOK(row.source)
    /\ object # Absent => object.status \in {"archived", "dead_lettered"} /\ DeliveryOK(object)
    /\ idx \in Statuses
    /\ stream.st \in {"none", "ready", "busy", "done", "failed"}
    /\ note.st \in {"none", "ready", "busy", "done", "dead"}
    /\ \A w \in Slots : work[w].task \in {"none", "stream", "note", "ingress", "sweep"}
    /\ sent \in BOOLEAN /\ retained \subseteq {"terminal", "quarantine"}
    /\ faults \in 0..MaxFaults /\ crashes \in 0..MaxCrashes

\* A row that says archived is backed by an object with the same attempts
\* and the same history to the last entry, archived_at included, whichever
\* invocations raced on the row and on the object and whichever of their
\* calls failed after taking effect (mark_archived, put_object).
ArchivedIsExact ==
    row # Absent /\ row.status = "archived" =>
        /\ object # Absent
        /\ object.status = "archived"
        /\ object.attempts = row.attempts
        /\ object.history = row.history

\* The object of an event is only ever replaced by one that knows at least
\* its attempts and its whole source history (put_object's If-Match): a
\* slow invocation never puts an older revision back.
ObjectNeverRegresses ==
    [][object # Absent => object' = object \/ Dominates(object', object)]_eventVars

\* As long as no ingress record was archived as terminal, no invocation
\* meets a divergent object: whatever it loaded before the object changed,
\* one of the two histories continues the other (compare_archive_objects).
NeverDivergent ==
    (object # Absent => object.status = "archived") =>
        \A w \in DOMAIN work :
            work[w].pc \in {"put", "replace"} /\ object # Absent =>
                compare_archive_objects(object, Proposed(w)) # "error"

\* A row is dead_lettered only after an incident message about the event was
\* sent, wherever the invocations that gave it up were killed
\* (finish_dead_letter).
DeadLetterIsAnnounced ==
    row # Absent /\ row.status = "dead_lettered" => sent

\* Once the producer has returned, the event is somewhere durable: in the
\* hot ledger, in the ingress queue, in the retained log or in the
\* quarantine bucket, through every failure and crash of the ingress worker.
EventIsDurable ==
    prod.phase = "done" =>
        row # Absent \/ queue # {} \/ log # Absent \/ retained # {}

\* While the record is not under way twice, what arrives only knows more or
\* less than the row: it is merged or ignored, never quarantined as a
\* divergent duplicate (reconcile_duplicate_delivery).
CopiesMerge == ~prod.twice => "quarantine" \notin retained

\* An event that was recorded stays recorded, as one event: it is durable
\* somewhere, its copies merge, the row and the object agree when the row says
\* so, no archiver meets an object it cannot compare, and a row is given up
\* only after somebody was told.
EventIsKept ==
    /\ EventIsDurable
    /\ CopiesMerge
    /\ ArchivedIsExact
    /\ NeverDivergent
    /\ DeadLetterIsAnnounced

=============================================================================
