-------------------------- MODULE PaymentExecution --------------------------
(***************************************************************************)
(* The intent record of crates/payment/src/execution.rs and the pure       *)
(* functions that derive its successor.  A function that returns None (or  *)
(* Applied::Unchanged) in the code returns its argument here; every        *)
(* function that changes the record also increments its revision, so the   *)
(* two cannot be confused.                                                 *)
(*                                                                         *)
(* Amount, currency and payee are frozen in the terms, so a channel report *)
(* is abstracted to its transaction number, its state and one bit, "ok":   *)
(* whether its amount, currency and payee equal the frozen ones.  Evidence *)
(* is kept as the set of <<state, transaction, disposition>> observed.     *)
(***************************************************************************)
EXTENDS Integers

\* is_unsettled: an attempt exists and has no channel-final result.
Unsettled == {"accepted", "pending", "unknown"}

\* Channel-final results.
Settled == {"succeeded", "failed"}

\* Closed without an attempt.
Closed == {"expired", "cancelled"}

PaymentStatus == {"prepared"} \cup Unsettled \cup Settled \cup Closed

ChannelState == {"pending", "succeeded", "declined"}

Disposition ==
    {"applied", "duplicate", "stale", "indeterminate", "mismatch", "conflict"}

\* What a channel call produced: "none" is ChannelOutcome::Indeterminate.
Outcome == [state : ChannelState \cup {"none"}, txn : Nat, ok : BOOLEAN]

Indeterminate == [state |-> "none", txn |-> 0, ok |-> FALSE]

Evidence == (ChannelState \cup {"none"}) \X Nat \X Disposition

\* PaymentIntent with its ExecutionAttempt inlined: the fields from expires
\* on are those of the attempt and are at rest until attempt is TRUE.
\* txn = 0 is channel_transaction_id == None.
IntentRecord(Orders) ==
    [order : Orders, before : Nat, version : Nat,
     status : PaymentStatus \cup {"absent"}, revision : Nat, updated : Nat,
     attempt : BOOLEAN, expires : Nat, txn : Nat, review : BOOLEAN,
     evidence : SUBSET Evidence]

PreparedIntent(order, before, version, now) ==
    [order |-> order, before |-> before, version |-> version,
     status |-> "prepared", revision |-> 1, updated |-> now,
     attempt |-> FALSE, expires |-> 0, txn |-> 0, review |-> FALSE,
     evidence |-> {}]

EffectiveStatus(intent, now) ==
    IF intent.status = "prepared" /\ now >= intent.before
    THEN "expired" ELSE intent.status

\* Mutant: any intent without an attempt may lose its order.
IsReplaceableWhilePrepared(intent) == ~intent.attempt

IsReplaceable(intent) == ~intent.attempt /\ intent.status \in Closed

SameTerms(a, b) ==
    a.order = b.order /\ a.before = b.before /\ a.version = b.version

\* PaymentIntent::next.
NextRevision(intent, to, now) ==
    [intent EXCEPT !.status = to, !.revision = @ + 1, !.updated = now]

Acceptable(intent, now) ==
    intent.status = "prepared" /\ now < intent.before /\ ~intent.attempt

\* Mutant: the retention is subtracted.
AcceptWindowInPast(intent, retention, now) ==
    [NextRevision(intent, "accepted", now)
       EXCEPT !.attempt = TRUE, !.expires = now - retention]

Accept(intent, retention, now) ==
    IF Acceptable(intent, now)
    THEN [NextRevision(intent, "accepted", now)
            EXCEPT !.attempt = TRUE, !.expires = now + retention]
    ELSE intent

CloseUnaccepted(intent, to, now) ==
    IF /\ intent.status = "prepared"
       /\ \/ to = "cancelled" /\ now < intent.before
          \/ to = "expired" /\ now >= intent.before
    THEN NextRevision(intent, to, now)
    ELSE intent

FlagForReview(intent, now) ==
    IF intent.attempt /\ ~intent.review
    THEN [NextRevision(intent, intent.status, now) EXCEPT !.review = TRUE]
    ELSE intent

-----------------------------------------------------------------------------

\* push_evidence
WithEvidence(intent, state, txn, disposition) ==
    [intent EXCEPT !.evidence = @ \cup {<<state, txn, disposition>>}]

TargetStatus(state) ==
    CASE state = "pending"   -> "pending"
      [] state = "succeeded" -> "succeeded"
      [] state = "declined"  -> "failed"

\* The disposition of a report that matches the frozen terms; "none" is the
\* early return for a status no report can move.
DispositionOf(status, target) ==
    CASE status = target                              -> "duplicate"
      [] status \in Settled /\ target = "pending"     -> "stale"
      [] status \in Settled /\ target \in Settled \ {status} -> "conflict"
      [] status \in Unsettled /\ status # target      -> "applied"
      [] OTHER                                        -> "none"

MatchesTerms(intent, report) ==
    report.ok /\ intent.txn \in {0, report.txn}

\* A report that agrees with the terms, under the monotonic settlement rules.
ApplyReport(intent, report, now) ==
    LET target      == TargetStatus(report.state)
        disposition == DispositionOf(intent.status, target)
        to          == IF disposition = "applied" THEN target ELSE intent.status
        written     == WithEvidence(NextRevision(intent, to, now),
                                    report.state, report.txn, disposition)
    IN  IF \/ disposition = "none"
           \/ disposition = "duplicate" /\ intent.txn = report.txn
        THEN intent
        ELSE [written EXCEPT !.txn = IF @ = 0 THEN report.txn ELSE @,
                             !.review = @ \/ disposition = "conflict"]

\* Mutant: the mismatch is recorded without asking for review.
ApplyMismatchSilently(intent, report, now) ==
    WithEvidence(NextRevision(intent, intent.status, now),
                 report.state, report.txn, "mismatch")

\* An authentic report about another amount, payee or transaction.
ApplyMismatch(intent, report, now) ==
    [WithEvidence(NextRevision(intent, intent.status, now),
                  report.state, report.txn, "mismatch") EXCEPT !.review = TRUE]

\* Mutant: a timeout counts as a decline.
ApplyIndeterminateAsFailure(intent, now) ==
    IF intent.status = "accepted" THEN NextRevision(intent, "failed", now) ELSE intent

\* A timeout, lost response or 5xx.
ApplyIndeterminate(intent, now) ==
    IF intent.status = "accepted"
    THEN WithEvidence(NextRevision(intent, "unknown", now),
                      "none", 0, "indeterminate")
    ELSE intent

ApplyOutcome(intent, outcome, now) ==
    CASE ~intent.attempt                -> intent
      [] intent.attempt /\ outcome.state = "none"
                                        -> ApplyIndeterminate(intent, now)
      [] intent.attempt /\ outcome.state # "none" /\ ~MatchesTerms(intent, outcome)
                                        -> ApplyMismatch(intent, outcome, now)
      [] OTHER                          -> ApplyReport(intent, outcome, now)
=============================================================================
