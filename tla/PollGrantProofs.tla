-------------------------- MODULE PollGrantProofs ---------------------------
(***************************************************************************)
(* Theorems about device and CIBA requests, for any number of polls and    *)
(* decisions.  The decision is read from a replica, and the record is      *)
(* given back when an issue fails, so none of them is inductive alone:     *)
(* they need that a copy of an approved record is never wrong about the    *)
(* approval, only late (Copy), what each process may rely on (ProcOK), and *)
(* that a consumed record has one holder (Once).                           *)
(***************************************************************************)
EXTENDS PollGrant, TLAPS

RequestV == [status : {"pending", "approved", "denied"}, consumed : BOOLEAN,
             pwv : 0..NoVersion, polls : 0..MaxPolls]
ProcV == [pc : PCs, seen : RequestV, pwv : 0..NoVersion, changed : BOOLEAN, approve : BOOLEAN]

Flags == expired \in BOOLEAN /\ rested \in BOOLEAN /\ active \in BOOLEAN /\ outdated \in BOOLEAN

Types ==
    /\ Flags
    /\ req \in RequestV /\ replica \in RequestV
    /\ pw \in 0..MaxResets /\ faults \in 0..MaxFaults /\ resent \in 0..faults /\ issued \in Nat
    /\ grant \in [Procs -> Statuses] /\ proc \in [Procs -> ProcV]

\* A copy r of the record may be old, but not about an approval.
Copy(r) ==
    /\ r.status = "approved" <=> r.pwv # NoVersion
    /\ r.status = "approved" => req.status = "approved" /\ r.pwv = req.pwv

Request ==
    /\ Copy(req) /\ Copy(replica)
    /\ req.pwv # NoVersion => req.pwv <= pw

Holding == {"epoch", "put", "password", "active", "revoke", "release"}

ProcOK(k) ==
    /\ Copy(k.seen)
    /\ k.pc = "decide" /\ k.approve => k.pwv <= pw
    /\ k.pc \in Holding \cup {"consume"} => k.seen.status = "approved"
    /\ k.pc \in {"epoch", "put", "password"} /\ k.changed => ~active \/ k.seen.pwv < pw
    /\ k.pc = "active" /\ k.changed => ~active
ProcIsOK(p) == ProcOK(proc[p])

IssuedOnApproval == ~outdated /\ (issued > 0 => req.status = "approved")

PInv == Types /\ Request /\ (\A p \in Procs : ProcIsOK(p)) /\ IssuedOnApproval

\* What every step keeps of an approval and of the user.
Forward ==
    /\ req.status = "approved" => req'.status = "approved" /\ req'.pwv = req.pwv
    /\ active' => active
    /\ pw <= pw'

\* A step of process p alone.
StepOf(p) ==
    /\ Types' /\ Forward /\ Request' /\ IssuedOnApproval'
    /\ \A q \in Procs \ {p} : proc'[q] = proc[q]
    /\ ProcIsOK(p)'

-----------------------------------------------------------------------------
LEMMA InitInv ==
    ASSUME PollAssumption, Init
    PROVE  PInv
<1>1. Fresh \in RequestV /\ Copy(Fresh)
  BY DEF PollAssumption, Init, Fresh, RequestV, NoVersion, Copy
<1>2. Idle \in ProcV
  BY <1>1 DEF PollAssumption, Idle, ProcV, PCs, NoVersion
<1>3. Types
  <2>1. Flags
    BY DEF Init, Flags
  <2>2. proc \in [Procs -> ProcV] /\ grant \in [Procs -> Statuses]
    BY <1>2 DEF Init, Statuses
  <2> QED
    BY <1>1, <2>1, <2>2 DEF PollAssumption, Init, Types
<1>4. \A p \in Procs : proc[p] = Idle
  BY DEF Init
<1>5. ASSUME NEW p \in Procs PROVE ProcIsOK(p)
  BY <1>1, <1>4 DEF ProcIsOK, ProcOK, Idle, Holding
<1>6. req = Fresh /\ replica = Fresh /\ outdated = FALSE /\ issued = 0 /\ Fresh.pwv = NoVersion
  BY DEF Init, Fresh
<1>7. Request
  BY <1>1, <1>6 DEF Request
<1>8. IssuedOnApproval
  BY <1>6 DEF IssuedOnApproval
<1> QED
  BY <1>3, <1>5, <1>7, <1>8 DEF PInv

\* What holds of a process goes on holding while others move.
LEMMA OthersKeep ==
    ASSUME PollAssumption, PInv, Types', Forward, NEW q \in Procs, proc'[q] = proc[q]
    PROVE  ProcIsOK(q)'
<1>1. Copy(proc[q].seen)'
  BY DEF PInv, ProcIsOK, ProcOK, Copy, Forward
<1>2. /\ proc[q].seen.pwv \in Nat /\ proc[q].pwv \in Nat /\ pw \in Nat /\ pw' \in Nat
      /\ active \in BOOLEAN /\ active' \in BOOLEAN
  BY DEF PInv, Types, Flags, ProcV, RequestV, NoVersion
<1> QED
  BY <1>1, <1>2 DEF PInv, ProcIsOK, ProcOK, Forward

LEMMA StepKeeps ==
    ASSUME PollAssumption, PInv, NEW p \in Procs, StepOf(p)
    PROVE  PInv'
<1>1. ASSUME NEW q \in Procs PROVE ProcIsOK(q)'
  BY <1>1, OthersKeep DEF StepOf
<1> QED
  BY <1>1 DEF StepOf, PInv

\* Steps that leave the record and the user alone: only the process has to be looked at.
LEMMA QuietStep ==
    ASSUME PollAssumption, PInv, NEW p \in Procs, NEW k \in ProcV, ProcOK(k),
           proc' = [proc EXCEPT ![p] = k], grant' \in [Procs -> Statuses],
           faults' \in 0..MaxFaults, faults <= faults',
           UNCHANGED <<req, replica, clock, user, resent, history>>
    PROVE  PInv'
<1>1. Types'
  <2>1. Flags'
    BY DEF PInv, Types, Flags, clock, user, history
  <2>2. proc' \in [Procs -> ProcV] /\ grant' \in [Procs -> Statuses]
    BY DEF PInv, Types
  <2>3. resent' \in 0..faults'
    BY DEF PInv, Types, PollAssumption
  <2> QED
    BY <2>1, <2>2, <2>3 DEF PInv, Types, user, history
<1>2. Forward
  BY DEF PInv, Types, Forward, user
<1>6. Request'
  BY DEF PInv, Request, Copy, user
<1>7. IssuedOnApproval'
  BY DEF PInv, IssuedOnApproval, history
<1>3. ProcOK(k)'
  BY DEF ProcOK, Copy, user
<1>4. proc'[p] = k /\ \A q \in Procs \ {p} : proc'[q] = proc[q]
  BY DEF PInv, Types
<1>5. ProcIsOK(p)'
  BY <1>3, <1>4 DEF ProcIsOK, ProcOK, Copy
<1> QED
  BY <1>1, <1>2, <1>4, <1>5, <1>6, <1>7, StepKeeps DEF StepOf

LEMMA IdleOK ==
    ASSUME PollAssumption, PInv
    PROVE  Idle \in ProcV /\ ProcOK(Idle)
BY DEF PollAssumption, Idle, Fresh, ProcV, RequestV, PCs, NoVersion, ProcOK, Copy, Holding

LEMMA AnswerStep ==
    ASSUME PollAssumption, PInv, NEW p \in Procs, Answer(p), grant' \in [Procs -> Statuses],
           faults' \in 0..MaxFaults, faults <= faults',
           UNCHANGED <<req, replica, clock, user, resent, history>>
    PROVE  PInv'
BY IdleOK, QuietStep DEF Answer

LEMMA GotoStep ==
    ASSUME PollAssumption, PInv, NEW p \in Procs, NEW pc \in PCs, Goto(p, pc),
           pc \in Holding \cup {"consume"} => proc[p].seen.status = "approved",
           /\ pc \in {"epoch", "put", "password"} /\ proc[p].changed
              => ~active \/ proc[p].seen.pwv < pw,
           pc = "active" /\ proc[p].changed => ~active,
           pc # "decide",
           grant' \in [Procs -> Statuses], faults' \in 0..MaxFaults, faults <= faults',
           UNCHANGED <<req, replica, clock, user, resent, history>>
    PROVE  PInv'
<1> DEFINE k == [proc[p] EXCEPT !.pc = pc]
<1>1. /\ k \in ProcV /\ k.pc = pc /\ k.seen = proc[p].seen /\ k.changed = proc[p].changed
      /\ k.pwv = proc[p].pwv
  BY DEF PInv, Types, ProcV
<1>2. proc' = [proc EXCEPT ![p] = k]
  BY DEF Goto, PInv, Types, ProcV
<1>3. Copy(proc[p].seen)
  BY DEF PInv, ProcIsOK, ProcOK
<1> HIDE DEF k
<1>4. ProcOK(k)
  BY <1>1, <1>3 DEF ProcOK
<1> QED
  BY <1>1, <1>2, <1>4, QuietStep

\* No fault, or one.
LEMMA FaultBound ==
    ASSUME PollAssumption, PInv
    PROVE  /\ faults \in 0..MaxFaults /\ faults <= faults
           /\ \A kind : Fault(kind) => faults' \in 0..MaxFaults /\ faults <= faults'
BY DEF PollAssumption, PInv, Types, Fault

\* A record or a copy that is read.
LEMMA ReadCopy ==
    ASSUME PInv, NEW r \in {req, replica}
    PROVE  r \in RequestV /\ Copy(r)
BY DEF PInv, Types, Request

LEMMA PollInv ==
    ASSUME PollAssumption, PInv, NEW p \in Procs, NEW r \in {req, replica}, Poll(p, r)
    PROVE  PInv'
<1> DEFINE k == [Idle EXCEPT !.pc = "claim", !.seen = r]
<1>1. /\ k \in ProcV /\ k.pc = "claim" /\ k.seen = r
  BY IdleOK, ReadCopy DEF Idle, ProcV, PCs
<1>2. proc' = [proc EXCEPT ![p] = k]
  BY DEF Poll
<1> HIDE DEF k
<1>3. ProcOK(k)
  BY <1>1, ReadCopy DEF ProcOK, Holding
<1> QED
  BY <1>1, <1>2, <1>3, QuietStep, FaultBound DEF Poll, PInv, Types

LEMMA DecideInv ==
    ASSUME PollAssumption, PInv, NEW p \in Procs, NEW approve \in BOOLEAN,
           NEW r \in {req, replica}, Decide(p, approve, r)
    PROVE  PInv'
<1> DEFINE v == IF approve THEN pw ELSE NoVersion
           k == [Idle EXCEPT !.pc = "decide", !.approve = approve, !.pwv = v]
<1>5. v \in 0..NoVersion
  BY DEF PInv, Types, NoVersion, PollAssumption
<1>1. /\ k \in ProcV /\ k.pc = "decide" /\ k.seen = Fresh /\ k.approve = approve
      /\ approve => k.pwv = pw
  BY <1>5, IdleOK DEF Idle, ProcV, PCs
<1>2. proc' = [proc EXCEPT ![p] = k]
  BY DEF Decide
<1>3. Copy(Fresh)
  BY IdleOK DEF ProcOK, Idle
<1> HIDE DEF k
<1>4. ProcOK(k)
  BY <1>1, <1>3 DEF ProcOK, Holding, PInv, Types
<1> QED
  BY <1>1, <1>2, <1>4, QuietStep, FaultBound DEF Decide, PInv, Types

LEMMA DispatchInv ==
    ASSUME PollAssumption, PInv, NEW p \in Procs, NEW r \in {req, replica}, Dispatch(p, r)
    PROVE  PInv'
<1> DEFINE k == [proc[p] EXCEPT !.pc = "gates", !.seen = r]
<1>1. /\ k \in ProcV /\ k.pc = "gates" /\ k.seen = r
  BY ReadCopy DEF ProcV, PCs, PInv, Types
<1>2. proc' = [proc EXCEPT ![p] = k]
  BY DEF Dispatch, PInv, Types, ProcV
<1> HIDE DEF k
<1>3. ProcOK(k)
  BY <1>1, ReadCopy DEF ProcOK, Holding
<1> QED
  BY <1>1, <1>2, <1>3, QuietStep, FaultBound DEF Dispatch, PInv, Types

\* Approved, then checked against the user: what the gates let through.
LEMMA GatesInv ==
    ASSUME PollAssumption, PInv, NEW p \in Procs, Gates(p)
    PROVE  PInv'
<1>1. CASE active /\ proc[p].seen.pwv = pw
  <2>1. proc[p].seen.status = "approved"
    BY <1>1 DEF PInv, Types, ProcIsOK, ProcOK, Copy, NoVersion, PollAssumption
  <2>2. Goto(p, "consume")
    BY <1>1 DEF Gates
  <2> QED
    BY <2>1, <2>2, GotoStep, FaultBound DEF Gates, PCs, PInv, Types
<1>2. CASE ~(active /\ proc[p].seen.pwv = pw)
  BY <1>2, AnswerStep, FaultBound DEF Gates, PInv, Types
<1> QED
  BY <1>1, <1>2

LEMMA QuietInv ==
    ASSUME PollAssumption, PInv, NEW p \in Procs,
           \/ SkipPush(p) \/ ReadEpoch(p) \/ SignFails(p) \/ PutGrant(p) \/ PutFails(p)
           \/ CheckPassword(p) \/ Revoke(p) \/ RevokeFails(p) \/ Crash(p)
    PROVE  PInv'
<1> DEFINE k == proc[p]
<1>1. /\ k.pc \in Holding => k.seen.status = "approved"
      /\ k.pc \in {"epoch", "put", "password"} /\ k.changed => ~active \/ k.seen.pwv < pw
      /\ {"put", "password", "active", "revoke", "release"} \subseteq PCs
      /\ grant \in [Procs -> Statuses]
      /\ [grant EXCEPT ![p] = "active"] \in [Procs -> Statuses]
      /\ [grant EXCEPT ![p] = "revoked"] \in [Procs -> Statuses]
  BY DEF PInv, Types, ProcIsOK, ProcOK, Holding, PCs, Statuses
<1>2. CASE SkipPush(p) \/ Crash(p)
  BY <1>1, <1>2, AnswerStep, FaultBound DEF SkipPush, Crash
<1>3. CASE ReadEpoch(p)
  BY <1>1, <1>3, GotoStep, FaultBound DEF ReadEpoch, Holding
<1>4. CASE SignFails(p)
  BY <1>1, <1>4, GotoStep, FaultBound DEF SignFails, Holding
<1>5. CASE PutGrant(p)
  BY <1>1, <1>5, GotoStep, FaultBound DEF PutGrant, Holding
<1>6. CASE PutFails(p)
  BY <1>1, <1>6, GotoStep, FaultBound DEF PutFails, Holding
<1>7. CASE CheckPassword(p)
  <2>1. k.seen.pwv \in Nat /\ pw \in Nat
    BY DEF PInv, Types, ProcV, RequestV, NoVersion, PollAssumption
  <2> QED
    BY <1>1, <1>7, <2>1, GotoStep, FaultBound DEF CheckPassword, Holding
<1>8. CASE Revoke(p)
  BY <1>1, <1>8, GotoStep, FaultBound DEF Revoke, Holding
<1>9. CASE RevokeFails(p)
  BY <1>1, <1>9, GotoStep, FaultBound DEF RevokeFails, Holding
<1> QED
  BY <1>2, <1>3, <1>4, <1>5, <1>6, <1>7, <1>8, <1>9

\* The poll claims its turn: only the time of the last poll changes.
LEMMA ClaimInv ==
    ASSUME PollAssumption, PInv, NEW p \in Procs, Claim(p)
    PROVE  PInv'
<1>1. /\ req' \in RequestV /\ req'.status = req.status /\ req'.pwv = req.pwv
  BY DEF PInv, Types, Claim, RequestV, PollAssumption
<1>2. \/ Goto(p, "gates") \/ Answer(p)
  BY DEF Claim
<1>3. /\ \A q \in Procs \ {p} : proc'[q] = proc[q]
      /\ proc' \in [Procs -> ProcV]
      /\ proc'[p] = Idle \/ (proc'[p].pc = "gates" /\ proc'[p].seen = proc[p].seen)
  BY <1>2, IdleOK DEF Goto, Answer, PInv, Types, ProcV, PCs
<1>4. Types'
  <2>1. Flags'
    BY DEF PInv, Types, Flags, Claim, user, history
  <2> QED
    BY <1>1, <1>3, <2>1 DEF PInv, Types, Claim, user, history
<1>5. Forward
  BY <1>1 DEF Forward, Claim, user, PInv, Types
<1>6. Request'
  BY <1>1 DEF PInv, Request, Copy, Claim, user
<1>7. IssuedOnApproval'
  BY <1>1 DEF PInv, IssuedOnApproval, Claim, history
<1>8. ProcIsOK(p)'
  <2>1. CASE proc'[p] = Idle
    BY <1>1, <2>1, IdleOK DEF ProcIsOK, ProcOK, Copy, Idle, Holding
  <2>2. CASE proc'[p].pc = "gates" /\ proc'[p].seen = proc[p].seen
    BY <1>1, <2>2 DEF PInv, ProcIsOK, ProcOK, Copy, Holding
  <2> QED
    BY <1>3, <2>1, <2>2
<1> QED
  BY <1>3, <1>4, <1>5, <1>6, <1>7, <1>8, StepKeeps DEF StepOf

\* The record is approved or denied once, with the version the approval was captured under.
LEMMA CommitInv ==
    ASSUME PollAssumption, PInv, NEW p \in Procs, CommitDecision(p)
    PROVE  PInv'
<1>1. CASE ~Decidable
  BY <1>1, AnswerStep, FaultBound DEF CommitDecision, PInv, Types
<1>2. CASE Decidable
  <2> DEFINE k == proc[p]
  <2>1. /\ req' \in RequestV /\ req.status = "pending"
        /\ req'.status = (IF k.approve THEN "approved" ELSE "denied")
        /\ req'.pwv = (IF k.approve THEN k.pwv ELSE req.pwv)
        /\ k.pwv \in 0..NoVersion
    BY <1>2 DEF CommitDecision, Decidable, PInv, Types, RequestV, ProcV
  <2>2. k.approve => k.pwv \in 0..pw
    BY <2>1 DEF CommitDecision, PInv, Types, ProcIsOK, ProcOK, PollAssumption
  <2>3. pw \in Nat /\ pw < NoVersion
    BY DEF PInv, Types, NoVersion, PollAssumption
  <2>4. Request'
    BY <2>1, <2>2, <2>3 DEF PInv, Request, Copy, CommitDecision, user
  <2>5. Goto(p, "push") \/ Answer(p)
    BY <1>2 DEF CommitDecision
  <2>6. /\ \A q \in Procs \ {p} : proc'[q] = proc[q]
        /\ proc' \in [Procs -> ProcV]
        /\ proc'[p] = Idle \/ (proc'[p].pc = "push" /\ proc'[p].seen = k.seen)
    BY <2>5, IdleOK DEF Goto, Answer, PInv, Types, ProcV, PCs
  <2>7. Types'
    <3>1. Flags'
      BY DEF PInv, Types, Flags, CommitDecision, clock, user, history
    <3> QED
      BY <2>1, <2>6, <3>1 DEF PInv, Types, CommitDecision, user, history
  <2>8. Forward
    BY <2>1, <2>3 DEF Forward, CommitDecision, user
  <2>9. IssuedOnApproval'
    BY <2>1 DEF PInv, IssuedOnApproval, CommitDecision, history
  <2>10. ProcIsOK(p)'
    <3>1. CASE proc'[p] = Idle
      BY <2>8, <3>1, IdleOK DEF ProcIsOK, ProcOK, Copy, Forward, Idle, Holding
    <3>2. CASE proc'[p].pc = "push" /\ proc'[p].seen = k.seen
      BY <2>8, <3>2 DEF PInv, ProcIsOK, ProcOK, Copy, Forward, Holding
    <3> QED
      BY <2>6, <3>1, <3>2
  <2> QED
    BY <2>4, <2>6, <2>7, <2>8, <2>9, <2>10, StepKeeps DEF StepOf
<1> QED
  BY <1>1, <1>2

\* What the process finds changed is measured against the version it has seen.
LEMMA ConsumeInv ==
    ASSUME PollAssumption, PInv, NEW p \in Procs, Consume(p)
    PROVE  PInv'
<1>1. CASE ~Consumable
  BY <1>1, AnswerStep, FaultBound DEF Consume, PInv, Types
<1>2. CASE Consumable
  <2> DEFINE k == proc[p]
             c == ~active \/ pw # req.pwv
             n == [k EXCEPT !.pc = "epoch", !.changed = c]
  <2>1. req' \in RequestV /\ req'.status = req.status /\ req'.pwv = req.pwv
    BY <1>2 DEF Consume, PInv, Types, RequestV
  <2>2. proc' = [proc EXCEPT ![p] = n]
    BY <1>2 DEF Consume, PInv, Types, ProcV
  <2>3. n \in ProcV /\ n.pc = "epoch" /\ n.seen = k.seen /\ n.changed = c
    BY DEF PInv, Types, ProcV, PCs
  <2>4. k.seen.status = "approved" /\ k.seen.pwv = req.pwv /\ req.pwv <= pw /\ Copy(k.seen)
    BY DEF Consume, PInv, Request, ProcIsOK, ProcOK, Copy
  <2>5. k.seen.pwv \in Nat /\ pw \in Nat
    BY DEF PInv, Types, ProcV, RequestV, NoVersion, PollAssumption
  <2> HIDE DEF n
  <2>6. /\ \A q \in Procs \ {p} : proc'[q] = proc[q]
        /\ proc' \in [Procs -> ProcV] /\ proc'[p] = n
    BY <2>2, <2>3 DEF PInv, Types
  <2>7. Types'
    <3>1. Flags'
      BY DEF PInv, Types, Flags, Consume, clock, user, history
    <3> QED
      BY <2>1, <2>6, <3>1 DEF PInv, Types, Consume, user, history
  <2>8. Forward
    BY <2>1, <2>5 DEF Forward, Consume, user
  <2>9. Request'
    BY <2>1 DEF PInv, Request, Copy, Consume, user
  <2>10. IssuedOnApproval'
    BY <2>1 DEF PInv, IssuedOnApproval, Consume, history
  <2>11. c => ~active \/ k.seen.pwv < pw
    <3>1. pw # req.pwv => k.seen.pwv < pw
      BY <2>4, <2>5
    <3> QED
      BY <3>1
  <2>12. active' = active /\ pw' = pw
    BY DEF Consume, user
  <2> HIDE DEF c
  <2>13. ProcIsOK(p)'
    BY <2>1, <2>3, <2>4, <2>6, <2>11, <2>12 DEF ProcIsOK, ProcOK, Copy
  <2> QED
    BY <2>6, <2>7, <2>8, <2>9, <2>10, <2>13, StepKeeps DEF StepOf
<1> QED
  BY <1>1, <1>2

\* A token is issued by a process whose user has not changed since it consumed the record.
LEMMA CheckActiveInv ==
    ASSUME PollAssumption, PInv, NEW p \in Procs, CheckActive(p)
    PROVE  PInv'
<1>1. CASE ~active
  BY <1>1, GotoStep, FaultBound
    DEF CheckActive, PCs, Holding, PInv, Types, ProcIsOK, ProcOK, history
<1>2. CASE active
  <2>1. req.status = "approved" /\ proc[p].changed = FALSE
    BY <1>2 DEF CheckActive, PInv, Types, ProcV, ProcIsOK, ProcOK, Copy, Holding
  <2>2. IssuedOnApproval'
    BY <1>2, <2>1 DEF PInv, IssuedOnApproval, CheckActive
  <2>3. /\ \A q \in Procs \ {p} : proc'[q] = proc[q]
        /\ proc' \in [Procs -> ProcV] /\ proc'[p] = Idle
    BY <1>2, IdleOK DEF CheckActive, Answer, PInv, Types
  <2>4. Types'
    <3>1. Flags'
      BY <1>2, <2>1 DEF PInv, Types, Flags, CheckActive, clock, user
    <3> QED
      BY <1>2, <2>3, <3>1 DEF PInv, Types, CheckActive, user
  <2>5. Forward
    BY DEF Forward, CheckActive, user, PInv, Types, PollAssumption
  <2>7. Request'
    BY DEF CheckActive, user, PInv, Request, Copy
  <2>6. ProcIsOK(p)'
    BY <2>3, <2>5, IdleOK DEF ProcIsOK, ProcOK, Copy, Forward, Idle, Holding
  <2> QED
    BY <2>2, <2>3, <2>4, <2>5, <2>6, <2>7, StepKeeps DEF StepOf
<1> QED
  BY <1>1, <1>2

\* Giving the record back says nothing about the decision.
LEMMA UnconsumedIsSame ==
    ASSUME PInv, req' = Unconsumed
    PROVE  req' \in RequestV /\ req'.status = req.status /\ req'.pwv = req.pwv
BY DEF PInv, Types, RequestV, Unconsumed

LEMMA ReleaseInv ==
    ASSUME PollAssumption, PInv, NEW p \in Procs, Release(p) \/ ReleaseTwice(p)
    PROVE  PInv'
<1>1. /\ req' = Unconsumed /\ Answer(p)
      /\ UNCHANGED <<replica, clock, user, grant, history>>
  BY DEF Release, ReleaseTwice
<1>2. req' \in RequestV /\ req'.status = req.status /\ req'.pwv = req.pwv
  BY <1>1, UnconsumedIsSame
<1>3. /\ \A q \in Procs \ {p} : proc'[q] = proc[q]
      /\ proc' \in [Procs -> ProcV] /\ proc'[p] = Idle
  BY <1>1, IdleOK DEF Answer, PInv, Types
<1>4. faults' \in 0..MaxFaults /\ resent' \in 0..faults'
  BY DEF Release, ReleaseTwice, Fault, PInv, Types, PollAssumption
<1>5. Types'
  <2>1. Flags'
    BY <1>1 DEF PInv, Types, Flags, clock, user, history
  <2> QED
    BY <1>1, <1>2, <1>3, <1>4, <2>1 DEF PInv, Types, user, history
<1>6. Forward
  BY <1>1, <1>2 DEF Forward, user, PInv, Types
<1>7. Request'
  BY <1>1, <1>2 DEF PInv, Request, Copy, user
<1>8. IssuedOnApproval'
  BY <1>1, <1>2 DEF PInv, IssuedOnApproval, history
<1>9. ProcIsOK(p)'
  BY <1>3, <1>6, IdleOK DEF ProcIsOK, ProcOK, Copy, Forward, Idle, Holding
<1> QED
  BY <1>3, <1>5, <1>6, <1>7, <1>8, <1>9, StepKeeps DEF StepOf

LEMMA EnvironmentInv ==
    ASSUME PollAssumption, PInv,
           ReleaseArrives \/ Replicate \/ Expire \/ Rest \/ ResetPassword \/ Disable
    PROVE  PInv'
<1>1. /\ req' \in RequestV /\ req'.status = req.status /\ req'.pwv = req.pwv
      /\ replica' \in {req, replica}
  BY UnconsumedIsSame DEF ReleaseArrives, Replicate, Expire, Rest, ResetPassword, Disable, PInv,
    Types
<1>2. /\ UNCHANGED <<grant, proc, faults, history>>
      /\ pw' \in 0..MaxResets /\ pw <= pw' /\ resent' \in 0..faults'
  BY DEF ReleaseArrives, Replicate, Expire, Rest, ResetPassword, Disable, PInv, Types, user,
    PollAssumption
<1>3. active' => active
  BY DEF ReleaseArrives, Replicate, Expire, Rest, ResetPassword, Disable, user, clock
<1>10. Flags'
  <2>1. Flags /\ outdated' = outdated
    BY <1>2 DEF PInv, Types, history
  <2>2. CASE ReleaseArrives \/ Replicate \/ ResetPassword
    BY <2>1, <2>2 DEF ReleaseArrives, Replicate, ResetPassword, Flags, user, clock
  <2>3. CASE Expire
    BY <2>1, <2>3 DEF Expire, Flags, user
  <2>4. CASE Rest
    BY <2>1, <2>4 DEF Rest, Flags, user
  <2>5. CASE Disable
    BY <2>1, <2>5 DEF Disable, Flags, clock
  <2> QED
    BY <2>2, <2>3, <2>4, <2>5
<1>4. Types'
  BY <1>1, <1>2, <1>10 DEF PInv, Types, history
<1>5. Forward
  BY <1>1, <1>2, <1>3 DEF Forward
<1>6. Copy(req)' /\ Copy(replica)'
  BY <1>1 DEF PInv, Request, Copy
<1>7. req'.pwv # NoVersion => req'.pwv <= pw'
  BY <1>1, <1>2 DEF PInv, Types, RequestV, Request, NoVersion, PollAssumption
<1>8. IssuedOnApproval'
  BY <1>1, <1>2 DEF PInv, IssuedOnApproval, history
<1>9. ASSUME NEW q \in Procs PROVE ProcIsOK(q)'
  BY <1>2, <1>4, <1>5, OthersKeep
<1> QED
  BY <1>4, <1>6, <1>7, <1>8, <1>9 DEF PInv, Request

LEMMA NextInv ==
    ASSUME PollAssumption, PInv, [Next]_vars
    PROVE  PInv'
<1>1. ASSUME NEW p \in Polls, Claim(p) \/ \E r \in {req, replica} : Poll(p, r)
      PROVE  PInv'
  BY <1>1, ClaimInv, PollInv DEF Procs
<1>2. ASSUME NEW a \in Approvers,
             \/ CommitDecision(a) \/ SkipPush(a)
             \/ \E r \in {req, replica} : Dispatch(a, r)
             \/ \E approve \in BOOLEAN, r \in {req, replica} : Decide(a, approve, r)
      PROVE  PInv'
  BY <1>2, CommitInv, QuietInv, DispatchInv, DecideInv DEF Procs
<1>3. ASSUME NEW p \in Procs, IssueStep(p) \/ ProcFault(p)
      PROVE  PInv'
  BY <1>3, GatesInv, ConsumeInv, CheckActiveInv, QuietInv, ReleaseInv DEF IssueStep, ProcFault
<1>4. CASE UNCHANGED vars
  <2>1. UNCHANGED <<req, replica, expired, rested, pw, active, grant, proc, resent, faults, issued,
                    outdated>>
    BY <1>4 DEF vars
  <2>2. Flags' /\ Request' /\ IssuedOnApproval'
    BY <2>1 DEF PInv, Types, Flags, Request, Copy, IssuedOnApproval
  <2>3. Types'
    BY <2>1, <2>2 DEF PInv, Types
  <2>4. \A p \in Procs : ProcIsOK(p)'
    BY <2>1 DEF PInv, ProcIsOK, ProcOK, Copy
  <2> QED
    BY <2>2, <2>3, <2>4 DEF PInv
<1> QED
  BY <1>1, <1>2, <1>3, <1>4, EnvironmentInv DEF Next

THEOREM Invariance == ASSUME PollAssumption PROVE Spec => []PInv
<1>1. Init => PInv
  BY InitInv
<1>2. PInv /\ [Next]_vars => PInv'
  BY NextInv
<1> QED
  BY <1>1, <1>2, PTL DEF Spec

\* A token follows from an approval that was still current when the record was consumed,
\* although the gates looked at an older copy: what changed in between is noticed by the
\* checks after the Grant.
THEOREM ApprovalWasCurrent == ASSUME PollAssumption PROVE Spec => []ApprovalCurrent
<1>1. PInv => ApprovalCurrent
  BY DEF PInv, IssuedOnApproval, ApprovalCurrent
<1> QED
  BY <1>1, Invariance, PTL

\* The decision of the user is final: no token comes of a denied or undecided request,
\* whatever copy of it a poll or a push read.
THEOREM OnlyApprovedIssues == ASSUME PollAssumption PROVE Spec => []DecisionStands
<1>1. PInv => DecisionStands
  BY DEF PInv, IssuedOnApproval, ProcIsOK, ProcOK, Copy, Holding, DecisionStands
<1> QED
  BY <1>1, Invariance, PTL

-----------------------------------------------------------------------------
\* A consumed record has one holder, and a token is the end of it.
Holds(p) == proc[p].pc \in Holding
Once ==
    /\ resent = 0
    /\ \A p \in Procs : Holds(p) => req.consumed /\ issued = 0
    /\ \A p, q \in Procs : Holds(p) /\ Holds(q) => p = q
    /\ issued <= 1 /\ (issued > 0 => req.consumed)

LEMMA OnceKept ==
    ASSUME Once, req'.consumed = req.consumed, UNCHANGED <<issued, resent>>,
           \A q \in Procs : Holds(q)' => Holds(q)
    PROVE  Once'
BY DEF Once

\* Where a step of p leaves p.
LEMMA MovesTo ==
    ASSUME PInv, NEW p \in Procs, NEW pc, Goto(p, pc)
    PROVE  proc'[p].pc = pc /\ \A q \in Procs \ {p} : proc'[q] = proc[q]
BY DEF Goto, PInv, Types, ProcV

LEMMA Leaves ==
    ASSUME PInv, NEW p \in Procs, Answer(p)
    PROVE  proc'[p].pc = "idle" /\ \A q \in Procs \ {p} : proc'[q] = proc[q]
BY DEF Answer, Idle, PInv, Types

\* The steps that take, give back or end nothing.
LEMMA OnceQuiet ==
    ASSUME PInv, Once, NEW p \in Procs,
           \/ Claim(p) \/ CommitDecision(p) \/ SkipPush(p) \/ Gates(p) \/ ReadEpoch(p)
           \/ SignFails(p) \/ PutGrant(p) \/ PutFails(p) \/ CheckPassword(p) \/ Revoke(p)
           \/ RevokeFails(p) \/ Crash(p)
           \/ \E r \in {req, replica} : Poll(p, r) \/ Dispatch(p, r)
           \/ \E approve \in BOOLEAN, r \in {req, replica} : Decide(p, approve, r)
    PROVE  Once'
<1>1. UNCHANGED <<issued, resent>> /\ req'.consumed = req.consumed
  BY DEF Claim, CommitDecision, SkipPush, Gates, ReadEpoch, SignFails, PutGrant, PutFails,
    CheckPassword, Revoke, RevokeFails, Crash, Poll, Dispatch, Decide, history, PInv, Types,
    RequestV
<1>2. CASE \/ SkipPush(p) \/ Crash(p) \/ Claim(p) \/ CommitDecision(p) \/ Gates(p)
  <2>1. \/ Answer(p) \/ Goto(p, "gates") \/ Goto(p, "push") \/ Goto(p, "consume")
    BY <1>2 DEF SkipPush, Crash, Claim, CommitDecision, Gates
  <2>2. ~Holds(p)' /\ \A q \in Procs \ {p} : proc'[q] = proc[q]
    BY <2>1, MovesTo, Leaves DEF Holds, Holding
  <2> QED
    BY <1>1, <2>2, OnceKept DEF Holds
<1>3. CASE \/ ReadEpoch(p) \/ SignFails(p) \/ PutGrant(p) \/ PutFails(p) \/ CheckPassword(p)
           \/ Revoke(p) \/ RevokeFails(p)
  <2>1. Holds(p) /\ \E pc \in Holding : Goto(p, pc)
    BY <1>3 DEF Holds, Holding, ReadEpoch, SignFails, PutGrant, PutFails, CheckPassword, Revoke,
      RevokeFails
  <2>2. \A q \in Procs \ {p} : proc'[q] = proc[q]
    BY <2>1, MovesTo
  <2> QED
    BY <1>1, <2>1, <2>2, OnceKept DEF Holds
<1>4. ASSUME NEW r \in {req, replica}, Poll(p, r) \/ Dispatch(p, r)
      PROVE  Once'
  <2>1. proc'[p].pc \in {"claim", "gates"} /\ \A q \in Procs \ {p} : proc'[q] = proc[q]
    BY <1>4 DEF Poll, Dispatch, Idle, PInv, Types, ProcV
  <2> QED
    BY <1>1, <2>1, OnceKept DEF Holds, Holding
<1>5. ASSUME NEW approve \in BOOLEAN, NEW r \in {req, replica}, Decide(p, approve, r)
      PROVE  Once'
  <2>1. proc'[p].pc = "decide" /\ \A q \in Procs \ {p} : proc'[q] = proc[q]
    BY <1>5 DEF Decide, Idle, PInv, Types, ProcV
  <2> QED
    BY <1>1, <2>1, OnceKept DEF Holds, Holding
<1> QED
  BY <1>2, <1>3, <1>4, <1>5

\* The record is taken by a process that finds it free.
LEMMA OnceConsume ==
    ASSUME PInv, Once, NEW p \in Procs, Consume(p)
    PROVE  Once'
<1>1. UNCHANGED <<issued, resent>> /\ \A q \in Procs \ {p} : proc'[q] = proc[q]
  BY Leaves DEF Consume, history, PInv, Types
<1>2. CASE Consumable
  <2>1. ~req.consumed /\ req'.consumed
    BY <1>2 DEF Consume, Consumable, PInv, Types, RequestV
  <2>2. issued = 0 /\ \A q \in Procs : ~Holds(q)
    BY <2>1 DEF Once, PInv, Types
  <2> QED
    BY <1>1, <2>1, <2>2 DEF Once, Holds
<1>3. CASE ~Consumable
  <2>1. req' = req /\ ~Holds(p)'
    BY <1>3, Leaves DEF Consume, Holds, Holding
  <2> QED
    BY <1>1, <2>1, OnceKept DEF Holds
<1> QED
  BY <1>2, <1>3

LEMMA OnceCheckActive ==
    ASSUME PInv, Once, NEW p \in Procs, CheckActive(p)
    PROVE  Once'
<1>1. /\ Holds(p) /\ issued = 0 /\ req.consumed /\ UNCHANGED <<req, resent>>
      /\ \A q \in Procs \ {p} : ~Holds(q) /\ proc'[q] = proc[q]
  BY Leaves, MovesTo DEF CheckActive, Holds, Holding, Once
<1>2. CASE active
  <2>1. issued' = 1 /\ ~Holds(p)'
    BY <1>1, <1>2, Leaves DEF CheckActive, Holds, Holding
  <2> QED
    BY <1>1, <2>1 DEF Once, Holds
<1>3. CASE ~active
  BY <1>1, <1>3, OnceKept DEF CheckActive, history, Holds
<1> QED
  BY <1>2, <1>3

LEMMA OnceRelease ==
    ASSUME PInv, Once, NEW p \in Procs, Release(p)
    PROVE  Once'
<1>1. /\ Holds(p) /\ issued = 0 /\ UNCHANGED <<issued, resent>>
  BY DEF Release, Holds, Holding, Once, history
<1>2. \A q \in Procs : ~Holds(q)'
  BY <1>1, Leaves DEF Release, Holds, Holding, Once
<1> QED
  BY <1>1, <1>2 DEF Once

LEMMA OnceNext ==
    ASSUME PollAssumption, PInv, Once, "resend" \notin FaultKinds, [Next]_vars
    PROVE  Once'
<1>1. ASSUME NEW p \in Procs, IssueStep(p) \/ ProcFault(p)
      PROVE  Once'
  <2>1. ~ReleaseTwice(p)
    BY DEF ReleaseTwice, Fault
  <2> QED
    BY <1>1, <2>1, OnceQuiet, OnceConsume, OnceCheckActive, OnceRelease DEF IssueStep, ProcFault
<1>2. ASSUME NEW p \in Polls, Claim(p) \/ \E r \in {req, replica} : Poll(p, r)
      PROVE  Once'
  BY <1>2, OnceQuiet DEF Procs
<1>3. ASSUME NEW a \in Approvers,
             \/ CommitDecision(a) \/ SkipPush(a)
             \/ \E r \in {req, replica} : Dispatch(a, r)
             \/ \E approve \in BOOLEAN, r \in {req, replica} : Decide(a, approve, r)
      PROVE  Once'
  BY <1>3, OnceQuiet DEF Procs
<1>4. ~ReleaseArrives
  BY DEF ReleaseArrives, Once
<1>5. CASE Replicate \/ Expire \/ Rest \/ ResetPassword \/ Disable \/ UNCHANGED vars
  <2>1. UNCHANGED <<req, proc, issued, resent>>
    BY <1>5 DEF Replicate, Expire, Rest, ResetPassword, Disable, vars, history
  <2> QED
    BY <2>1, OnceKept DEF Holds
<1> QED
  BY <1>1, <1>2, <1>3, <1>4, <1>5 DEF Next

\* A request yields one token at most, however polls, pushes, failures and releases
\* interleave, unless the SDK sends a release a second time: release_consume asks only
\* that the record exists.
THEOREM RequestIssuesOnce ==
    ASSUME PollAssumption, "resend" \notin FaultKinds
    PROVE  Spec => []OneToken
<1>1. Init => Once
  BY DEF Init, Once, Holds, Holding, Idle
<1>2. PInv /\ Once /\ [Next]_vars => Once'
  BY OnceNext
<1>3. Once => OneToken
  BY DEF Once, OneToken
<1> QED
  BY <1>1, <1>2, <1>3, Invariance, PTL DEF Spec

-----------------------------------------------------------------------------
\* An active Grant is that of a token, or its process will still look at it.
Watching == {"password", "active", "revoke"}
Kept(p) == grant[p] = "active" => issued > 0 \/ proc[p].pc \in Watching
AllKept == \A p \in Procs : Kept(p)

LEMMA KeptStep ==
    ASSUME PInv, AllKept, NEW p \in Procs, issued' \in Nat, issued <= issued', Kept(p)',
           \A q \in Procs \ {p} : proc'[q] = proc[q] /\ grant'[q] = grant[q]
    PROVE  AllKept'
BY DEF AllKept, Kept, PInv, Types

LEMMA KeptNext ==
    ASSUME PollAssumption, PInv, AllKept, FaultKinds \cap {"put", "revoke", "crash"} = {},
           [Next]_vars
    PROVE  AllKept'
<1>1. ASSUME NEW p \in Procs,
             \/ Claim(p) \/ CommitDecision(p) \/ SkipPush(p) \/ Gates(p) \/ Consume(p)
             \/ ReadEpoch(p) \/ SignFails(p) \/ Release(p) \/ ReleaseTwice(p)
             \/ \E r \in {req, replica} : Poll(p, r) \/ Dispatch(p, r)
             \/ \E approve \in BOOLEAN, r \in {req, replica} : Decide(p, approve, r)
      PROVE  AllKept'
  <2>1. UNCHANGED <<grant, issued>>
    BY <1>1 DEF Claim, CommitDecision, SkipPush, Gates, Consume, ReadEpoch, SignFails, Release,
      ReleaseTwice, Poll, Dispatch, Decide, history
  <2>2. grant[p] = "active" => issued > 0
    BY <1>1 DEF AllKept, Kept, Watching, Claim, CommitDecision, SkipPush, Gates, Consume,
      ReadEpoch, SignFails, Release, ReleaseTwice, Poll, Dispatch, Decide
  <2>3. \A q \in Procs \ {p} : proc'[q] = proc[q]
    BY <1>1 DEF Claim, CommitDecision, SkipPush, Gates, Consume, ReadEpoch, SignFails, Release,
      ReleaseTwice, Poll, Dispatch, Decide, Answer, Goto, PInv, Types
  <2> QED
    BY <2>1, <2>2, <2>3, KeptStep DEF Kept, PInv, Types
<1>2. ASSUME NEW p \in Procs, PutGrant(p) \/ CheckPassword(p)
      PROVE  AllKept'
  <2>1. /\ proc'[p].pc \in Watching /\ issued' = issued
        /\ \A q \in Procs \ {p} : proc'[q] = proc[q]
    BY <1>2, MovesTo DEF PutGrant, CheckPassword, Watching, history
  <2>2. \A q \in Procs \ {p} : grant'[q] = grant[q]
    BY <1>2 DEF PutGrant, CheckPassword, PInv, Types
  <2> QED
    BY <2>1, <2>2, KeptStep DEF Kept, PInv, Types
<1>3. ASSUME NEW p \in Procs, CheckActive(p)
      PROVE  AllKept'
  <2>1. /\ \A q \in Procs \ {p} : proc'[q] = proc[q]
        /\ grant' = grant
        /\ issued' = issued + 1 \/ (issued' = issued /\ proc'[p].pc \in Watching)
    BY <1>3, MovesTo, Leaves DEF CheckActive, Watching, history
  <2>2. issued \in Nat
    BY DEF PInv, Types
  <2> QED
    BY <2>1, <2>2, KeptStep DEF Kept
<1>4. ASSUME NEW p \in Procs, Revoke(p)
      PROVE  AllKept'
  <2>1. /\ grant'[p] = "revoked" /\ issued' = issued
        /\ \A q \in Procs \ {p} : proc'[q] = proc[q] /\ grant'[q] = grant[q]
    BY <1>4, MovesTo DEF Revoke, history, PInv, Types
  <2> QED
    BY <2>1, KeptStep DEF Kept, PInv, Types
<1>5. ASSUME NEW p \in Procs PROVE ~(PutFails(p) \/ RevokeFails(p) \/ Crash(p))
  BY DEF PutFails, RevokeFails, Crash, Fault
<1>6. CASE ReleaseArrives \/ Replicate \/ Expire \/ Rest \/ ResetPassword \/ Disable
           \/ UNCHANGED vars
  <2>1. UNCHANGED <<grant, proc, issued>>
    BY <1>6 DEF ReleaseArrives, Replicate, Expire, Rest, ResetPassword, Disable, vars, history
  <2> QED
    BY <2>1 DEF AllKept, Kept
<1>7. ASSUME NEW p \in Procs, IssueStep(p) \/ ProcFault(p)
      PROVE  AllKept'
  BY <1>1, <1>2, <1>3, <1>4, <1>5, <1>7 DEF IssueStep, ProcFault
<1>8. ASSUME NEW p \in Polls, Claim(p) \/ \E r \in {req, replica} : Poll(p, r)
      PROVE  AllKept'
  BY <1>1, <1>8 DEF Procs
<1>9. ASSUME NEW a \in Approvers,
             \/ CommitDecision(a) \/ SkipPush(a)
             \/ \E r \in {req, replica} : Dispatch(a, r)
             \/ \E approve \in BOOLEAN, r \in {req, replica} : Decide(a, approve, r)
      PROVE  AllKept'
  BY <1>1, <1>9 DEF Procs
<1> QED
  BY <1>6, <1>7, <1>8, <1>9 DEF Next

\* A request that fails takes its Grant back before it answers, unless the Grant's write
\* or its revocation fails or the process dies.
THEOREM FailureLeavesNoGrant ==
    ASSUME PollAssumption, FaultKinds \cap {"put", "revoke", "crash"} = {}
    PROVE  Spec => []NoStrandedGrant
<1>1. Init => AllKept
  BY DEF Init, AllKept, Kept
<1>2. PInv /\ AllKept /\ [Next]_vars => AllKept'
  BY KeptNext
<1>3. AllKept => NoStrandedGrant
  BY DEF AllKept, Kept, Watching, NoStrandedGrant
<1> QED
  BY <1>1, <1>2, <1>3, Invariance, PTL DEF Spec

\* What MCIssuance checks of its instances, for any of them: only an approval that is
\* still current when the record is consumed issues tokens; one token unless a release
\* is sent twice; and no active Grant left by a failure whose Grant could be taken back
\* (decide, consume and release_consume of both request stores).
THEOREM RequestsAreSound ==
    ASSUME PollAssumption
    PROVE  Spec => [](/\ DecisionStands /\ ApprovalCurrent
                      /\ "resend" \notin FaultKinds => OneToken
                      /\ FaultKinds \cap {"put", "revoke", "crash"} = {} => NoStrandedGrant)
<1>1. Spec => []("resend" \notin FaultKinds => OneToken)
  <2>1. CASE "resend" \notin FaultKinds
    BY <2>1, RequestIssuesOnce, PTL
  <2>2. CASE "resend" \in FaultKinds
    <3>1. "resend" \notin FaultKinds => OneToken
      BY <2>2
    <3> QED
      BY <3>1, PTL
  <2> QED
    BY <2>1, <2>2
<1>2. Spec => [](FaultKinds \cap {"put", "revoke", "crash"} = {} => NoStrandedGrant)
  <2>1. CASE FaultKinds \cap {"put", "revoke", "crash"} = {}
    BY <2>1, FailureLeavesNoGrant, PTL
  <2>2. CASE FaultKinds \cap {"put", "revoke", "crash"} # {}
    <3>1. FaultKinds \cap {"put", "revoke", "crash"} = {} => NoStrandedGrant
      BY <2>2
    <3> QED
      BY <3>1, PTL
  <2> QED
    BY <2>1, <2>2
<1> QED
  BY <1>1, <1>2, ApprovalWasCurrent, OnlyApprovedIssues, PTL
=============================================================================
