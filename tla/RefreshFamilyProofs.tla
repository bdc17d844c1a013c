------------------------ MODULE RefreshFamilyProofs ------------------------
(***************************************************************************)
(* Proofs about RefreshFamily, for any number of handlers, requests and    *)
(* lease owners, any clock and any number of faults.                       *)
(*                                                                         *)
(* The invariant IInv adds to the safety properties what each handler may  *)
(* rely on at its program counter (HandlerOK), that no two handlers share  *)
(* a lease owner (Distinct), and where every kept or sent response comes   *)
(* from (Rotations, Kept, Sent).                                           *)
(***************************************************************************)
EXTENDS RefreshFamily, TLAPS

Leasing == {"lease", "sign", "release", "finalize"}
Posting == {"post", "postepoch"}
Issuing == {"probe", "reprobe"} \cup Leasing \cup Posting

\* A rotation of version v for request r that produced token t.
Minted(v, r, t) == \E m \in minted : m.ver = v /\ m.req = r /\ m.token = t

HandlerOK(h) ==
    /\ h.at <= now
    /\ h.pc \in Leasing => h.owner \in Owners /\ \A m \in minted : m.token # h.owner
    /\ h.pc \in Posting => Minted(h.ver, h.req, h.owner)
    /\ h.pc \in Issuing => ~h.late
    /\ h.late => h.dead \/ "epoch" \in changed
    /\ h.late /\ h.pc \in {"password", "validate"} => h.dead
    /\ h.pc \in {"sign", "finalize"} /\ h.until > now
         => fam.owner = h.owner /\ fam.until = h.until
    /\ h.pc = "delete" /\ ~h.failed /\ h.op \in {"refresh", "grant"} => fam.revoked
    /\ h.op = "authority" => "epoch" \in changed

Handlers == \A p \in Procs : HandlerOK(proc[p])

Distinct ==
    \A p, q \in Procs :
        p # q /\ proc[p].owner # NoOwner => proc[p].owner # proc[q].owner

Rotations ==
    /\ \A a, b \in minted : a.ver = b.ver \/ a.token = b.token => a = b
    /\ \A m \in minted : m.ver < fam.version

Kept == \A e \in grace : Minted(e.ver, e.req, e.token)
Sent == \A a \in answers : Minted(a.ver, a.req, a.token)

\* How far the change of the user's authority has come.
Change ==
    /\ "authority" \in acked => "epoch" \in changed
    /\ "epoch" \notin changed => \A m \in minted : m.phase = "before"

IInv ==
    /\ TypeOK /\ Handlers /\ Distinct /\ Rotations /\ Kept /\ Sent /\ Change
    /\ RevocationSticks /\ LateRequestRefused /\ FreshBeforeChange

-----------------------------------------------------------------------------

\* The record of an idle handler is a handler state and promises nothing.
LEMMA IdleOK == ASSUME TypeOK PROVE Idle \in HandlerState /\ HandlerOK(Idle) /\ Idle.owner = NoOwner
<1>1. (CHOOSE r \in Requests : TRUE) \in Requests
  BY RefreshAssumption
<1>2. Idle \in HandlerState
  BY <1>1 DEF Idle, HandlerState, PCs, Ops
<1>3. /\ Idle.pc = "idle" /\ Idle.at = 0 /\ Idle.late = FALSE /\ Idle.op = "none"
      /\ Idle.owner = NoOwner
  BY DEF Idle
<1>4. HandlerOK(Idle)
  BY <1>3 DEF HandlerOK, Leasing, Posting, Issuing, TypeOK
<1> QED BY <1>2, <1>3, <1>4

\* A step that changes only the record of one handler, to one that may be
\* where it is, with the old, no or a fresh lease owner, preserves the
\* invariant.
LEMMA HandlerStep ==
  ASSUME IInv, NEW p \in Procs, NEW h \in HandlerState, HandlerOK(h),
         \/ h.owner \in {NoOwner, proc[p].owner}
         \/ \A q \in Procs : proc[q].owner # h.owner,
         proc' = [proc EXCEPT ![p] = h], faults' \in Nat,
         UNCHANGED <<fam, grace, authority, now, history>>
  PROVE  IInv'
<1> USE DEF history, authority
<1>1. TypeOK'
  BY DEF IInv, TypeOK
<1>2. \A q \in Procs : proc'[q] = IF q = p THEN h ELSE proc[q]
  BY DEF IInv, TypeOK
<1>3. HandlerOK(h)'
  BY DEF HandlerOK, Minted
<1>4. \A q \in Procs : q # p => HandlerOK(proc[q])'
  BY <1>2 DEF IInv, Handlers, HandlerOK, Minted
<1>5. Handlers'
  <2> SUFFICES ASSUME NEW q \in Procs PROVE HandlerOK(proc[q])'
    BY DEF Handlers
  <2>1. CASE q = p
    <3>1. proc'[q] = h BY <1>2, <2>1
    <3> QED BY <3>1, <1>3 DEF HandlerOK, Minted
  <2>2. CASE q # p
    BY <1>4, <2>2
  <2> QED BY <2>1, <2>2
<1>6. Distinct'
  BY <1>2 DEF IInv, Distinct
<1>7. Rotations' /\ Kept' /\ Sent' /\ Change'
  BY DEF IInv, Rotations, Kept, Sent, Change, Minted
<1>8. RevocationSticks' /\ LateRequestRefused' /\ FreshBeforeChange'
  BY DEF IInv, RevocationSticks, LateRequestRefused, FreshBeforeChange
<1> QED BY <1>1, <1>5, <1>6, <1>7, <1>8 DEF IInv

\* A handler that only returns.
LEMMA ReturnStep ==
  ASSUME IInv, NEW p \in Procs, Return(p), faults' \in Nat,
         UNCHANGED <<fam, grace, authority, now, history>>
  PROVE  IInv'
<1>1. Idle \in HandlerState /\ HandlerOK(Idle) /\ Idle.owner = NoOwner
  BY IdleOK DEF IInv
<1> HIDE DEF Idle
<1> QED BY <1>1, HandlerStep DEF Return

\* A handler that only moves its program counter.
LEMMA GotoStep ==
  ASSUME IInv, NEW p \in Procs, NEW pc \in PCs, Goto(p, pc), faults' \in Nat,
         HandlerOK([proc[p] EXCEPT !.pc = pc]),
         UNCHANGED <<fam, grace, authority, now, history>>
  PROVE  IInv'
<1> DEFINE h == [proc[p] EXCEPT !.pc = pc]
<1>1. proc[p] \in HandlerState /\ proc \in [Procs -> HandlerState]
  BY DEF IInv, TypeOK
<1>2. h \in HandlerState /\ h.owner = proc[p].owner
  BY <1>1 DEF HandlerState
<1>3. proc' = [proc EXCEPT ![p] = h]
  BY <1>1 DEF Goto
<1>4. HandlerOK(h)
  OBVIOUS
<1> HIDE DEF h
<1> QED BY <1>2, <1>3, <1>4, HandlerStep

\* The token request up to the grace cache and the lease.
LEMMA RequestInv ==
  ASSUME IInv, NEW p \in Procs,
         \/ \E v \in 0..fam.version : LoadNotOwner(p, v) \/ \E r \in Requests : Load(p, v, r)
         \/ GrantGate(p) \/ EpochGate(p) \/ PasswordGate(p) \/ MismatchedProof(p)
         \/ ConsumeRevoked(p) \/ ConsumeReuse(p) \/ RevokeEndpoint(p) \/ GrantUnknown(p)
  PROVE  IInv'
<1> USE DEF authority, history
<1>0. /\ proc[p] \in HandlerState /\ proc \in [Procs -> HandlerState]
      /\ HandlerOK(proc[p]) /\ faults \in Nat /\ now \in Nat
      /\ fam.version \in Nat /\ fam.revoked \in BOOLEAN
      /\ Idle \in HandlerState /\ HandlerOK(Idle) /\ Idle.owner = NoOwner
  BY IdleOK DEF IInv, TypeOK, Handlers
<1>a. \A pc \in PCs : LET h == [proc[p] EXCEPT !.pc = pc] IN
        /\ h.pc = pc /\ h.at = proc[p].at /\ h.owner = proc[p].owner
        /\ h.ver = proc[p].ver /\ h.req = proc[p].req /\ h.late = proc[p].late
        /\ h.dead = proc[p].dead /\ h.until = proc[p].until
        /\ h.failed = proc[p].failed /\ h.op = proc[p].op
  BY <1>0 DEF HandlerState
<1>1. ASSUME NEW v \in 0..fam.version, NEW r \in Requests, Load(p, v, r) PROVE IInv'
  <2> DEFINE g == Presented(v, r)
             l == acked \cap Final # {}
             h == [g EXCEPT !.seen = fam.version, !.dead = fam.revoked, !.late = l]
  <2>a. /\ g \in HandlerState /\ g.pc = "grant" /\ g.op = "refresh" /\ g.at = 0
        /\ g.owner = NoOwner
    <3>1. v \in Nat
      BY <1>0
    <3>2. g \in HandlerState
      BY <1>0, <3>1 DEF Presented, HandlerState, PCs, Ops
    <3> QED BY <3>2 DEF Presented, Idle
  <2>b. l \in BOOLEAN
    OBVIOUS
  <2>c. l => fam.revoked \/ "epoch" \in changed
    BY DEF IInv, RevocationSticks, Change, Final
  <2>d. proc' = [proc EXCEPT ![p] = h]
    BY <1>1 DEF Load
  <2> HIDE DEF g, l
  <2>1. h \in HandlerState
    BY <1>0, <2>a, <2>b DEF HandlerState
  <2>2. /\ h.pc = "grant" /\ h.op = "refresh" /\ h.dead = fam.revoked /\ h.at = 0
        /\ h.late = l /\ h.owner = NoOwner
    BY <2>a DEF HandlerState
  <2>3. proc' = [proc EXCEPT ![p] = h]
    BY <2>d
  <2>4. h.late => h.dead \/ "epoch" \in changed
    BY <2>2, <2>c
  <2>5. HandlerOK(h)
    BY <1>0, <2>2, <2>4 DEF HandlerOK, Leasing, Posting, Issuing
  <2> HIDE DEF h
  <2> QED BY <1>0, <1>1, <2>1, <2>2, <2>3, <2>5, HandlerStep DEF Load
<1>2. ASSUME NEW op \in {"refresh", "endpoint"},
             proc' = [proc EXCEPT ![p] = [Idle EXCEPT !.pc = "revoke", !.op = op]],
             UNCHANGED <<fam, grace, authority, now, faults, history>>
      PROVE  IInv'
  <2> DEFINE h == [Idle EXCEPT !.pc = "revoke", !.op = op]
  <2>1. h \in HandlerState
    BY <1>0 DEF HandlerState, PCs, Ops
  <2>2. /\ h.pc = "revoke" /\ h.op = op /\ h.at = 0 /\ h.late = FALSE /\ h.owner = NoOwner
    BY DEF Idle
  <2>3. HandlerOK(h)
    BY <1>0, <2>2 DEF HandlerOK, Leasing, Posting, Issuing
  <2>4. proc' = [proc EXCEPT ![p] = h]
    BY <1>2
  <2> HIDE DEF h
  <2> QED BY <1>0, <1>2, <2>1, <2>2, <2>3, <2>4, HandlerStep
<1>3. CASE GrantGate(p)
  <2>1. CASE grant = "live"
    <3>1. Goto(p, "epoch") BY <1>3, <2>1 DEF GrantGate
    <3>2. HandlerOK([proc[p] EXCEPT !.pc = "epoch"])
      BY <1>0, <1>a DEF HandlerOK, Leasing, Posting, Issuing, PCs
    <3> QED BY <1>0, <1>3, <3>1, <3>2, GotoStep DEF GrantGate, PCs
  <2>2. CASE grant # "live"
    BY <1>0, <1>3, <2>2, ReturnStep DEF GrantGate
  <2> QED BY <2>1, <2>2
<1>4. CASE EpochGate(p)
  <2>1. CASE "epoch" \notin changed
    <3>1. Goto(p, "password") BY <1>4, <2>1 DEF EpochGate
    <3>2. HandlerOK([proc[p] EXCEPT !.pc = "password"])
      BY <1>0, <1>a, <2>1 DEF HandlerOK, Leasing, Posting, Issuing, PCs
    <3> QED BY <1>0, <1>4, <3>1, <3>2, GotoStep DEF EpochGate, PCs
  <2>2. CASE "epoch" \in changed
    BY <1>0, <1>4, <2>2, ReturnStep DEF EpochGate
  <2> QED BY <2>1, <2>2
<1>5. CASE PasswordGate(p)
  <2>1. CASE "password" \notin changed
    <3>1. Goto(p, "validate") BY <1>5, <2>1 DEF PasswordGate
    <3>2. HandlerOK([proc[p] EXCEPT !.pc = "validate"])
      BY <1>0, <1>a, <1>5 DEF HandlerOK, Leasing, Posting, Issuing, PCs, PasswordGate
    <3> QED BY <1>0, <1>5, <3>1, <3>2, GotoStep DEF PasswordGate, PCs
  <2>2. CASE "password" \in changed
    BY <1>0, <1>5, <2>2, ReturnStep DEF PasswordGate
  <2> QED BY <2>1, <2>2
<1>6. HandlerOK([proc[p] EXCEPT !.pc = "revoke"])
  BY <1>0, <1>a DEF HandlerOK, Leasing, Posting, Issuing, PCs
<1>7. CASE MismatchedProof(p)
  <2>1. CASE proc[p].ver < proc[p].seen
    BY <1>0, <1>6, <1>7, <2>1, GotoStep DEF MismatchedProof, PCs
  <2>2. CASE ~(proc[p].ver < proc[p].seen)
    BY <1>0, <1>7, <2>2, ReturnStep DEF MismatchedProof
  <2> QED BY <2>1, <2>2
<1>8. CASE ConsumeRevoked(p)
  BY <1>0, <1>6, <1>8, GotoStep DEF ConsumeRevoked, PCs
<1>9. CASE ConsumeReuse(p)
  <2>1. HandlerOK([proc[p] EXCEPT !.pc = "probe"])
    BY <1>0, <1>a, <1>9 DEF HandlerOK, Leasing, Posting, Issuing, PCs, ConsumeReuse
  <2> QED BY <1>0, <1>9, <2>1, GotoStep DEF ConsumeReuse, PCs
<1>10. CASE RevokeEndpoint(p)
  BY <1>2, <1>10 DEF RevokeEndpoint
<1>11. ASSUME NEW v \in 0..fam.version, LoadNotOwner(p, v) PROVE IInv'
  BY <1>2, <1>11 DEF LoadNotOwner
<1>12. CASE GrantUnknown(p)
  <2>1. Goto(p, "epoch") /\ faults' \in Nat /\ "epoch" \in PCs
        /\ UNCHANGED <<fam, grace, authority, now, history>>
    BY <1>0, <1>12 DEF GrantUnknown, PCs
  <2>2. HandlerOK([proc[p] EXCEPT !.pc = "epoch"])
    BY <1>0, <1>a DEF HandlerOK, Leasing, Posting, Issuing, PCs
  <2> QED BY <2>1, <2>2, GotoStep
<1> QED BY <1>1, <1>3, <1>4, <1>5, <1>7, <1>8, <1>9, <1>10, <1>11, <1>12

\* A handler that finds the current version draws a fresh lease owner.
LEMMA ConsumeCurrentInv ==
  ASSUME IInv, NEW p \in Procs, ConsumeCurrent(p)
  PROVE  IInv'
<1> USE DEF authority, history
<1>0. /\ proc[p] \in HandlerState /\ proc \in [Procs -> HandlerState]
      /\ HandlerOK(proc[p]) /\ faults \in Nat /\ now \in Nat
  BY DEF IInv, TypeOK, Handlers
<1>1. PICK n \in Owners :
        /\ Fresh(n)
        /\ proc' = [proc EXCEPT ![p].pc = "lease", ![p].owner = n, ![p].at = now]
  BY DEF ConsumeCurrent
<1> DEFINE h == [proc[p] EXCEPT !.pc = "lease", !.owner = n, !.at = now]
<1>2. h \in HandlerState
  BY <1>0 DEF HandlerState, PCs
<1>3. /\ h.pc = "lease" /\ h.owner = n /\ h.at = now /\ h.late = proc[p].late
      /\ h.dead = proc[p].dead /\ h.op = proc[p].op
  BY <1>0 DEF HandlerState
<1>4. proc' = [proc EXCEPT ![p] = h]
  BY <1>0, <1>1
<1> HIDE DEF h
<1>5. HandlerOK(h)
  BY <1>0, <1>1, <1>3 DEF HandlerOK, Leasing, Posting, Issuing, Fresh, ConsumeCurrent
<1>6. \A q \in Procs : proc[q].owner # h.owner
  BY <1>1, <1>3 DEF Fresh
<1> QED BY <1>0, <1>2, <1>4, <1>5, <1>6, HandlerStep DEF ConsumeCurrent

\* A step of handler p leaves p in a state it may be in, and does not disturb
\* the other handlers.
LEMMA HandlersStep ==
  ASSUME IInv, NEW p \in Procs, proc' \in [Procs -> HandlerState],
         \A q \in Procs \ {p} : proc'[q] = proc[q],
         HandlerOK(proc[p])', \A q \in Procs \ {p} : HandlerOK(proc[q])',
         proc'[p].owner \in {NoOwner, proc[p].owner}
  PROVE  Handlers' /\ Distinct'
<1>1. Handlers'
  BY DEF Handlers
<1>2. Distinct'
  BY DEF IInv, Distinct
<1> QED BY <1>1, <1>2

\* Looking up the grace cache: a kept response was sent for the rotation that
\* made it, to the request that asked for it.
LEMMA ProbeInv ==
  ASSUME IInv, NEW p \in Procs, ProbeHit(p) \/ ProbeMiss(p) \/ ProbeFails(p)
  PROVE  IInv'
<1> USE DEF authority, history
<1>0. /\ proc[p] \in HandlerState /\ proc \in [Procs -> HandlerState]
      /\ HandlerOK(proc[p]) /\ faults \in Nat /\ now \in Nat
      /\ Idle \in HandlerState /\ HandlerOK(Idle) /\ Idle.owner = NoOwner
  BY IdleOK DEF IInv, TypeOK, Handlers
<1>1. CASE ProbeHit(p)
  <2>1. PICK e \in grace :
          /\ GraceHit(e, proc[p].ver, proc[p].req)
          /\ answers' = answers \cup
              {[ver |-> proc[p].ver, req |-> proc[p].req, token |-> e.token,
                fresh |-> FALSE, late |-> proc[p].late]}
    BY <1>1 DEF ProbeHit
  <2> DEFINE a == [ver |-> proc[p].ver, req |-> proc[p].req, token |-> e.token,
                   fresh |-> FALSE, late |-> proc[p].late]
  <2>2. /\ proc' = [proc EXCEPT ![p] = Idle]
        /\ UNCHANGED <<fam, grace, authority, now, faults, minted, acked>>
    BY <1>1 DEF ProbeHit, Return
  <2>3. /\ a.ver = e.ver /\ a.req = e.req /\ a.token = e.token
        /\ a.late = FALSE /\ a.fresh = FALSE
    BY <1>0, <1>1, <2>1 DEF GraceHit, ProbeHit, HandlerOK, Issuing, HandlerState
  <2>4. a \in [ver : Nat, req : Requests, token : Owners, fresh : BOOLEAN, late : BOOLEAN]
    <3>1. e.token \in Owners BY DEF IInv, TypeOK
    <3> QED BY <1>0, <3>1 DEF HandlerState
  <2>5. answers' = answers \cup {a}
    BY <2>1
  <2> HIDE DEF a, Idle
  <2>6. TypeOK'
    BY <1>0, <2>2, <2>4, <2>5 DEF IInv, TypeOK
  <2>7. \A q \in Procs : proc'[q] = IF q = p THEN Idle ELSE proc[q]
    BY <1>0, <2>2
  <2>8. HandlerOK(proc[p])' /\ \A q \in Procs \ {p} : HandlerOK(proc[q])'
    BY <1>0, <2>2, <2>7 DEF IInv, Handlers, HandlerOK, Minted
  <2>9. Handlers' /\ Distinct'
    <3>1. proc' \in [Procs -> HandlerState]
      BY <2>6 DEF TypeOK
    <3> QED BY <1>0, <2>7, <2>8, <3>1, HandlersStep
  <2>10. Rotations' /\ Kept' /\ Sent' /\ Change'
    BY <2>2, <2>3, <2>5 DEF IInv, Rotations, Kept, Sent, Change, Minted
  <2>11. RevocationSticks' /\ LateRequestRefused' /\ FreshBeforeChange'
    BY <2>2, <2>3, <2>5 DEF IInv, RevocationSticks, LateRequestRefused, FreshBeforeChange
  <2> QED BY <2>6, <2>9, <2>10, <2>11 DEF IInv
<1>2. ASSUME AfterMiss(p), faults' \in Nat, UNCHANGED <<fam, grace, authority, now, history>>
      PROVE  IInv'
  <2> DEFINE h == [proc[p] EXCEPT !.pc = "revoke"]
  <2>1. /\ h.pc = "revoke" /\ h.at = proc[p].at /\ h.late = proc[p].late
        /\ h.dead = proc[p].dead /\ h.op = proc[p].op
    BY <1>0 DEF HandlerState
  <2>2. HandlerOK([proc[p] EXCEPT !.pc = "revoke"])
    BY <1>0, <2>1 DEF HandlerOK, Leasing, Posting, Issuing
  <2> QED BY <1>2, <2>2, GotoStep, ReturnStep DEF AfterMiss, PCs
<1>3. CASE ProbeMiss(p)
  BY <1>0, <1>2, <1>3 DEF ProbeMiss
<1>4. CASE ProbeFails(p)
  BY <1>0, <1>2, <1>4 DEF ProbeFails
<1> QED BY <1>1, <1>3, <1>4

\* The signing lease: taking over a lease that is free or expired leaves no
\* other handler with an unexpired one, and giving one back touches only the
\* caller's own.
LEMMA LeaseInv ==
  ASSUME IInv, NEW p \in Procs,
         AcquireLease(p) \/ LeaseRefused(p) \/ Sign(p) \/ SignFails(p) \/ ReleaseLease(p)
  PROVE  IInv'
<1> USE DEF authority, history
<1>0. /\ proc[p] \in HandlerState /\ proc \in [Procs -> HandlerState]
      /\ HandlerOK(proc[p]) /\ faults \in Nat /\ now \in Nat
      /\ Idle \in HandlerState /\ HandlerOK(Idle) /\ Idle.owner = NoOwner
      /\ fam \in [version : Nat, revoked : BOOLEAN, owner : Owners \cup {NoOwner}, until : Nat]
  BY IdleOK DEF IInv, TypeOK, Handlers
<1>a. \A pc \in PCs : LET h == [proc[p] EXCEPT !.pc = pc] IN
        /\ h.pc = pc /\ h.at = proc[p].at /\ h.owner = proc[p].owner
        /\ h.ver = proc[p].ver /\ h.req = proc[p].req /\ h.late = proc[p].late
        /\ h.dead = proc[p].dead /\ h.until = proc[p].until
        /\ h.failed = proc[p].failed /\ h.op = proc[p].op
  BY <1>0 DEF HandlerState
<1>1. CASE AcquireLease(p)
  <2> DEFINE u == proc[p].at + LeaseTtl
             h == [proc[p] EXCEPT !.pc = "sign", !.until = u]
  <2>0. u \in Nat
    BY <1>0, RefreshAssumption DEF HandlerState
  <2>1. /\ fam' = [fam EXCEPT !.owner = proc[p].owner, !.until = u]
        /\ proc' = [proc EXCEPT ![p] = h]
        /\ UNCHANGED <<grace, authority, now, faults, history>>
        /\ proc[p].pc = "lease" /\ LeaseFree(proc[p].at)
    BY <1>0, <1>1 DEF AcquireLease
  <2> HIDE DEF u
  <2>2. h \in HandlerState
    BY <1>0, <2>0 DEF HandlerState, PCs
  <2>3. /\ h.pc = "sign" /\ h.owner = proc[p].owner /\ h.at = proc[p].at
        /\ h.late = proc[p].late /\ h.dead = proc[p].dead /\ h.op = proc[p].op /\ h.until = u
    BY <1>0 DEF HandlerState
  <2>4. /\ fam'.owner = proc[p].owner /\ fam'.until = u
        /\ fam'.version = fam.version /\ fam'.revoked = fam.revoked
    BY <1>0, <2>1
  <2>5. fam' \in [version : Nat, revoked : BOOLEAN, owner : Owners \cup {NoOwner}, until : Nat]
    BY <1>0, <2>0, <2>1 DEF HandlerState
  <2> HIDE DEF h
  <2>6. TypeOK'
    BY <1>0, <2>1, <2>2, <2>5 DEF IInv, TypeOK
  <2>7. \A q \in Procs : proc'[q] = IF q = p THEN h ELSE proc[q]
    BY <1>0, <2>1
  <2>8. HandlerOK(proc[p])'
    BY <1>0, <2>1, <2>3, <2>4, <2>7 DEF HandlerOK, Leasing, Posting, Issuing
  <2>9. ASSUME NEW q \in Procs \ {p} PROVE HandlerOK(proc[q])'
    <3>1. HandlerOK(proc[q]) /\ proc'[q] = proc[q] /\ proc[q] \in HandlerState
      BY <1>0, <2>7 DEF IInv, Handlers
    <3>2. ~(proc[q].pc \in {"sign", "finalize"} /\ proc[q].until > now)
      <4> SUFFICES ASSUME proc[q].pc \in {"sign", "finalize"}, proc[q].until > now PROVE FALSE
        OBVIOUS
      <4>1. fam.owner = proc[q].owner /\ fam.until = proc[q].until /\ proc[q].owner \in Owners
        BY <3>1 DEF HandlerOK, Leasing
      <4>2. fam.until <= proc[p].at
        BY <2>1, <4>1, RefreshAssumption DEF LeaseFree
      <4>3. proc[p].at <= now
        BY <1>0 DEF HandlerOK
      <4> QED BY <1>0, <3>1, <4>1, <4>2, <4>3 DEF HandlerState
    <3> QED BY <2>1, <2>4, <3>1, <3>2 DEF HandlerOK, Minted
  <2>10. Handlers' /\ Distinct'
    <3>1. proc' \in [Procs -> HandlerState]
      BY <2>6 DEF TypeOK
    <3> QED BY <2>3, <2>7, <2>8, <2>9, <3>1, HandlersStep
  <2>11. Rotations' /\ Kept' /\ Sent' /\ Change'
    BY <2>1, <2>4 DEF IInv, Rotations, Kept, Sent, Change, Minted
  <2>12. RevocationSticks' /\ LateRequestRefused' /\ FreshBeforeChange'
    BY <2>1, <2>4 DEF IInv, RevocationSticks, LateRequestRefused, FreshBeforeChange
  <2> QED BY <2>6, <2>10, <2>11, <2>12 DEF IInv
<1>2. CASE LeaseRefused(p)
  <2>1. HandlerOK([proc[p] EXCEPT !.pc = "revoke"])
    BY <1>0, <1>a DEF HandlerOK, Leasing, Posting, Issuing, PCs
  <2>2. HandlerOK([proc[p] EXCEPT !.pc = "reprobe"])
    BY <1>0, <1>2, <1>a DEF HandlerOK, Leasing, Posting, Issuing, PCs, LeaseRefused
  <2>3. Goto(p, "revoke") \/ Goto(p, "reprobe") \/ Return(p)
    BY <1>2 DEF LeaseRefused
  <2> QED BY <1>0, <1>2, <2>1, <2>2, <2>3, GotoStep, ReturnStep DEF PCs, LeaseRefused
<1>3. CASE Sign(p)
  <2> DEFINE h == [proc[p] EXCEPT !.pc = "finalize", !.at = now]
  <2>1. h \in HandlerState
    BY <1>0 DEF HandlerState, PCs
  <2>2. /\ h.pc = "finalize" /\ h.owner = proc[p].owner /\ h.at = now /\ h.op = proc[p].op
        /\ h.late = proc[p].late /\ h.dead = proc[p].dead /\ h.until = proc[p].until
    BY <1>0 DEF HandlerState
  <2>3. proc' = [proc EXCEPT ![p] = h] /\ proc[p].pc = "sign"
    BY <1>0, <1>3 DEF Sign
  <2> HIDE DEF h
  <2>4. HandlerOK(h)
    BY <1>0, <2>2, <2>3 DEF HandlerOK, Leasing, Posting, Issuing
  <2> QED BY <1>0, <1>3, <2>1, <2>2, <2>3, <2>4, HandlerStep DEF Sign
<1>4. CASE SignFails(p)
  <2>1. HandlerOK([proc[p] EXCEPT !.pc = "release"])
    BY <1>0, <1>4, <1>a DEF HandlerOK, Leasing, Posting, Issuing, PCs, SignFails
  <2>2. Goto(p, "release") /\ faults' \in Nat /\ "release" \in PCs
        /\ UNCHANGED <<fam, grace, authority, now, history>>
    BY <1>0, <1>4 DEF SignFails, PCs
  <2> QED BY <2>1, <2>2, GotoStep
<1>5. CASE ReleaseLease(p)
  <2>1. CASE fam.version = proc[p].ver /\ fam.owner = proc[p].owner
    <3>1. /\ fam' = [fam EXCEPT !.owner = NoOwner, !.until = 0]
          /\ proc' = [proc EXCEPT ![p] = Idle] /\ proc[p].pc = "release"
          /\ UNCHANGED <<grace, authority, now, faults, history>>
      BY <1>5, <2>1 DEF ReleaseLease, Return
    <3>2. /\ fam'.owner = NoOwner /\ fam'.until = 0
          /\ fam'.version = fam.version /\ fam'.revoked = fam.revoked
          /\ fam' \in [version : Nat, revoked : BOOLEAN, owner : Owners \cup {NoOwner}, until : Nat]
      BY <1>0, <3>1
    <3> HIDE DEF Idle
    <3>3. TypeOK'
      BY <1>0, <3>1, <3>2 DEF IInv, TypeOK
    <3>4. \A q \in Procs : proc'[q] = IF q = p THEN Idle ELSE proc[q]
      BY <1>0, <3>1
    <3>5. HandlerOK(proc[p])'
      <4>1. Idle.pc = "idle" /\ Idle.at = 0 /\ Idle.late = FALSE /\ Idle.op = "none"
        BY DEF Idle
      <4> QED BY <1>0, <3>1, <3>4, <4>1 DEF HandlerOK, Leasing, Posting, Issuing
    <3>6. ASSUME NEW q \in Procs \ {p} PROVE HandlerOK(proc[q])'
      <4>1. HandlerOK(proc[q]) /\ proc'[q] = proc[q]
        BY <3>4 DEF IInv, Handlers
      <4>2. fam.owner # proc[q].owner
        BY <1>0, <2>1, <3>1, RefreshAssumption DEF IInv, Distinct, HandlerOK, Leasing
      <4> QED BY <3>1, <3>2, <4>1, <4>2 DEF HandlerOK, Minted
    <3>7. Handlers' /\ Distinct'
      <4>1. proc' \in [Procs -> HandlerState]
        BY <3>3 DEF TypeOK
      <4> QED BY <1>0, <3>4, <3>5, <3>6, <4>1, HandlersStep
    <3>8. Rotations' /\ Kept' /\ Sent' /\ Change'
      BY <3>1, <3>2 DEF IInv, Rotations, Kept, Sent, Change, Minted
    <3>9. RevocationSticks' /\ LateRequestRefused' /\ FreshBeforeChange'
      BY <3>1, <3>2 DEF IInv, RevocationSticks, LateRequestRefused, FreshBeforeChange
    <3> QED BY <3>3, <3>7, <3>8, <3>9 DEF IInv
  <2>2. CASE ~(fam.version = proc[p].ver /\ fam.owner = proc[p].owner)
    BY <1>0, <1>5, <2>2, ReturnStep DEF ReleaseLease
  <2> QED BY <2>1, <2>2
<1> QED BY <1>1, <1>2, <1>3, <1>4, <1>5

\* A rotation that commits: the version it replaces and the token it makes are
\* new, the token was in nobody else's hands, and no response carries it yet.
LEMMA RotateInv ==
  ASSUME IInv, NEW p \in Procs, NEW h \in HandlerState,
         proc[p].pc = "finalize", Finalizable(p), Rotate(p),
         h = Idle \/ h = [proc[p] EXCEPT !.pc = "post"],
         proc' = [proc EXCEPT ![p] = h], faults' \in Nat,
         UNCHANGED <<authority, now, answers, acked>>
  PROVE  IInv'
<1> USE DEF authority
<1> DEFINE m == [ver |-> proc[p].ver, req |-> proc[p].req, token |-> proc[p].owner,
                 phase |-> Phase]
<1>0. /\ proc[p] \in HandlerState /\ proc \in [Procs -> HandlerState]
      /\ HandlerOK(proc[p]) /\ faults \in Nat /\ now \in Nat
      /\ Idle \in HandlerState /\ HandlerOK(Idle) /\ Idle.owner = NoOwner
      /\ fam \in [version : Nat, revoked : BOOLEAN, owner : Owners \cup {NoOwner}, until : Nat]
  BY IdleOK DEF IInv, TypeOK, Handlers
<1>1. /\ proc[p].owner \in Owners /\ \A n \in minted : n.token # proc[p].owner
      /\ ~proc[p].late /\ fam.owner = proc[p].owner /\ fam.version = proc[p].ver /\ ~fam.revoked
  BY <1>0 DEF HandlerOK, Leasing, Issuing, Finalizable
<1>2. Phase \in Phases
  BY DEF Phase, Phases
<1>3. /\ m.ver = proc[p].ver /\ m.req = proc[p].req /\ m.token = proc[p].owner
      /\ m.phase = Phase
  OBVIOUS
<1>4. m \in [ver : Nat, req : Requests, token : Owners, phase : Phases]
  BY <1>0, <1>1, <1>2 DEF HandlerState
<1>5. minted' = minted \cup {m}
  BY DEF Rotate
<1> HIDE DEF m
<1>6. /\ GraceEntry(p).ver = m.ver /\ GraceEntry(p).req = m.req
      /\ GraceEntry(p).token = m.token
      /\ GraceEntry(p) \in [ver : Nat, req : Requests, token : Owners, expires : Nat]
  BY <1>0, <1>1, <1>3, RefreshAssumption DEF GraceEntry, HandlerState
<1>7. grace' = grace \cup {GraceEntry(p)}
  BY DEF Rotate
<1>8. /\ fam'.owner = NoOwner /\ fam'.until = 0
      /\ fam'.version = fam.version + 1 /\ fam'.revoked = fam.revoked
      /\ fam' \in [version : Nat, revoked : BOOLEAN, owner : Owners \cup {NoOwner}, until : Nat]
  <2>1. fam' = [fam EXCEPT !.version = fam.version + 1, !.owner = NoOwner, !.until = 0]
    BY DEF Rotate
  <2>2. fam.version + 1 \in Nat
    BY <1>0
  <2> QED BY ONLY <1>0, <2>1, <2>2
<1>9. TypeOK'
  <2> HIDE DEF Idle
  <2> QED BY <1>0, <1>4, <1>5, <1>6, <1>7, <1>8 DEF IInv, TypeOK
<1>10. \A q \in Procs : proc'[q] = IF q = p THEN h ELSE proc[q]
  BY <1>0
<1>11. HandlerOK(proc[p])'
  <2>1. CASE h = Idle
    <3>1. h.pc = "idle" /\ h.at = 0 /\ h.late = FALSE /\ h.op = "none"
      BY <2>1 DEF Idle
    <3> QED BY <1>0, <1>10, <3>1 DEF HandlerOK, Leasing, Posting, Issuing
  <2>2. CASE h = [proc[p] EXCEPT !.pc = "post"]
    <3>1. /\ h.pc = "post" /\ h.at = proc[p].at /\ h.owner = proc[p].owner
          /\ h.ver = proc[p].ver /\ h.req = proc[p].req /\ h.late = proc[p].late
          /\ h.op = proc[p].op
      BY <1>0, <2>2 DEF HandlerState
    <3>2. Minted(proc[p].ver, proc[p].req, proc[p].owner)'
      <4>1. m \in minted' BY <1>5
      <4>2. /\ proc'[p].ver = m.ver /\ proc'[p].req = m.req /\ proc'[p].owner = m.token
        BY <1>3, <1>10, <3>1
      <4> QED BY <4>1, <4>2 DEF Minted
    <3> QED BY <1>0, <1>1, <1>10, <3>1, <3>2 DEF HandlerOK, Leasing, Posting, Issuing
  <2> QED BY <2>1, <2>2
<1>12. ASSUME NEW q \in Procs \ {p} PROVE HandlerOK(proc[q])'
  <2>1. HandlerOK(proc[q]) /\ proc'[q] = proc[q]
    BY <1>10 DEF IInv, Handlers
  <2>2. proc[p].owner # proc[q].owner
    BY <1>1, RefreshAssumption DEF IInv, Distinct
  <2> QED BY <1>1, <1>3, <1>5, <1>8, <2>1, <2>2 DEF HandlerOK, Minted
<1>13. Handlers' /\ Distinct'
  <2>1. proc' \in [Procs -> HandlerState]
    BY <1>9 DEF TypeOK
  <2>2. h.owner \in {NoOwner, proc[p].owner}
    BY <1>0 DEF HandlerState
  <2> QED BY <1>10, <1>11, <1>12, <2>1, <2>2, HandlersStep
<1>14. Rotations'
  <2>1. \A n \in minted : n.ver \in Nat /\ n.ver < fam.version
    BY DEF IInv, TypeOK, Rotations
  <2>2. \A n \in minted' : n.ver < fam'.version
    BY <1>0, <1>1, <1>3, <1>5, <1>8, <2>1
  <2>3. \A n \in minted : n.ver # m.ver /\ n.token # m.token
    BY <1>0, <1>1, <1>3, <2>1
  <2> QED BY <1>5, <2>2, <2>3 DEF IInv, Rotations
<1>15. Kept' /\ Sent'
  BY <1>5, <1>6, <1>7 DEF IInv, Kept, Sent, Minted
<1>16. Change'
  BY <1>3, <1>5 DEF IInv, Change, Phase
<1>17. RevocationSticks' /\ LateRequestRefused'
  BY <1>1 DEF IInv, RevocationSticks, LateRequestRefused
<1>18. FreshBeforeChange'
  <2>1. \A a \in answers : a.token # m.token
    BY <1>1, <1>3 DEF IInv, Sent, Minted
  <2> QED BY <1>5, <2>1 DEF IInv, FreshBeforeChange
<1> QED BY <1>9, <1>13, <1>14, <1>15, <1>16, <1>17, <1>18 DEF IInv

\* The finalize transaction commits, is refused, or commits unseen.
LEMMA FinalizeInv ==
  ASSUME IInv, NEW p \in Procs,
         FinalizeRotation(p) \/ FinalizeRefused(p) \/ FinalizeAnswerLost(p)
  PROVE  IInv'
<1> USE DEF authority, history
<1>0. /\ proc[p] \in HandlerState /\ proc \in [Procs -> HandlerState] /\ faults \in Nat
      /\ Idle \in HandlerState
  BY IdleOK DEF IInv, TypeOK
<1>1. CASE FinalizeRotation(p)
  <2> DEFINE h == [proc[p] EXCEPT !.pc = "post"]
  <2>1. h \in HandlerState
    BY <1>0 DEF HandlerState, PCs
  <2>2. proc' = [proc EXCEPT ![p] = h]
    BY <1>0, <1>1 DEF FinalizeRotation, Goto
  <2>3. h = [proc[p] EXCEPT !.pc = "post"]
    OBVIOUS
  <2> HIDE DEF h
  <2> QED BY <1>0, <1>1, <2>1, <2>2, <2>3, RotateInv DEF FinalizeRotation
<1>2. CASE FinalizeRefused(p)
  BY <1>0, <1>2, ReturnStep DEF FinalizeRefused
<1>3. CASE FinalizeAnswerLost(p)
  <2>1. /\ proc' = [proc EXCEPT ![p] = Idle] /\ faults' \in Nat
        /\ proc[p].pc = "finalize" /\ Finalizable(p) /\ Rotate(p)
        /\ UNCHANGED <<authority, now, answers, acked>>
    BY <1>0, <1>3 DEF FinalizeAnswerLost, Return
  <2> HIDE DEF Idle
  <2> QED BY <1>0, <2>1, RotateInv
<1> QED BY <1>1, <1>2, <1>3

\* The check after issuing: the response is sent only while the epoch has not
\* moved, and then every rotation so far committed before the change.
LEMMA PostInv ==
  ASSUME IInv, NEW p \in Procs, PostPassword(p) \/ PostEpoch(p) \/ PostLookupFails(p)
  PROVE  IInv'
<1> USE DEF authority, history
<1>0. /\ proc[p] \in HandlerState /\ proc \in [Procs -> HandlerState]
      /\ HandlerOK(proc[p]) /\ faults \in Nat /\ now \in Nat
      /\ Idle \in HandlerState /\ HandlerOK(Idle) /\ Idle.owner = NoOwner
  BY IdleOK DEF IInv, TypeOK, Handlers
<1>a. ASSUME NEW b \in BOOLEAN, proc[p].pc \in Posting, faults' \in Nat,
             proc' = [proc EXCEPT ![p] = [proc[p] EXCEPT !.pc = "postepoch", !.bad = b]],
             UNCHANGED <<fam, grace, authority, now, history>>
      PROVE  IInv'
  <2> DEFINE h == [proc[p] EXCEPT !.pc = "postepoch", !.bad = b]
  <2>2. proc' = [proc EXCEPT ![p] = h]
    BY <1>a
  <2>3. h \in HandlerState
    BY <1>0 DEF HandlerState, PCs
  <2>4. /\ h.pc = "postepoch" /\ h.owner = proc[p].owner /\ h.at = proc[p].at
        /\ h.ver = proc[p].ver /\ h.req = proc[p].req /\ h.op = proc[p].op
        /\ h.late = proc[p].late /\ h.dead = proc[p].dead
    BY <1>0 DEF HandlerState
  <2> HIDE DEF h
  <2>5. HandlerOK(h)
    BY <1>0, <1>a, <2>4 DEF HandlerOK, Leasing, Posting, Issuing
  <2> QED BY <1>a, <2>2, <2>3, <2>4, <2>5, HandlerStep
<1>1. CASE PostPassword(p)
  <2> DEFINE b == "password" \in changed
  <2>1. b \in BOOLEAN
    OBVIOUS
  <2>2. /\ proc' = [proc EXCEPT ![p] = [proc[p] EXCEPT !.pc = "postepoch", !.bad = b]]
        /\ proc[p].pc \in Posting /\ faults' \in Nat
        /\ UNCHANGED <<fam, grace, authority, now, history>>
    BY <1>0, <1>1 DEF PostPassword, Posting
  <2> HIDE DEF b
  <2> QED BY <1>a, <2>1, <2>2
<1>4. CASE PostLookupFails(p)
  <2>1. /\ proc' = [proc EXCEPT ![p] = [proc[p] EXCEPT !.pc = "postepoch", !.bad = TRUE]]
        /\ proc[p].pc \in Posting /\ faults' \in Nat
        /\ UNCHANGED <<fam, grace, authority, now, history>>
    BY <1>0, <1>4 DEF PostLookupFails, Posting
  <2> QED BY <1>a, <2>1
<1>2. ASSUME PostEpoch(p), proc[p].bad \/ "epoch" \in changed PROVE IInv'
  <2> DEFINE h == [proc[p] EXCEPT !.pc = "revoke"]
  <2>1. /\ h.pc = "revoke" /\ h.at = proc[p].at /\ h.late = proc[p].late
        /\ h.dead = proc[p].dead /\ h.op = proc[p].op
    BY <1>0 DEF HandlerState
  <2>2. HandlerOK([proc[p] EXCEPT !.pc = "revoke"])
    BY <1>0, <2>1 DEF HandlerOK, Leasing, Posting, Issuing
  <2> QED BY <1>0, <1>2, <2>2, GotoStep DEF PostEpoch, PCs
<1>3. ASSUME PostEpoch(p), ~(proc[p].bad \/ "epoch" \in changed) PROVE IInv'
  <2> DEFINE a == [ver |-> proc[p].ver, req |-> proc[p].req, token |-> proc[p].owner,
                   fresh |-> TRUE, late |-> proc[p].late]
  <2>1. /\ answers' = answers \cup {a} /\ proc' = [proc EXCEPT ![p] = Idle]
        /\ proc[p].pc = "postepoch" /\ "epoch" \notin changed
        /\ UNCHANGED <<fam, grace, authority, now, faults, minted, acked>>
    BY <1>3 DEF PostEpoch, Answer, Return
  <2>2. Minted(proc[p].ver, proc[p].req, proc[p].owner) /\ proc[p].late = FALSE
    BY <1>0, <2>1 DEF HandlerOK, Posting, Issuing, HandlerState
  <2>3. proc[p].owner \in Owners
    BY <2>2 DEF Minted, IInv, TypeOK
  <2>4. a \in [ver : Nat, req : Requests, token : Owners, fresh : BOOLEAN, late : BOOLEAN]
    BY <1>0, <2>3 DEF HandlerState
  <2>5. Minted(a.ver, a.req, a.token) /\ a.late = FALSE
    BY <2>2
  <2> HIDE DEF a, Idle
  <2>6. TypeOK'
    BY <1>0, <2>1, <2>4 DEF IInv, TypeOK
  <2>7. \A q \in Procs : proc'[q] = IF q = p THEN Idle ELSE proc[q]
    BY <1>0, <2>1
  <2>8. HandlerOK(proc[p])' /\ \A q \in Procs \ {p} : HandlerOK(proc[q])'
    BY <1>0, <2>1, <2>7 DEF IInv, Handlers, HandlerOK, Minted
  <2>9. Handlers' /\ Distinct'
    <3>1. proc' \in [Procs -> HandlerState]
      BY <2>6 DEF TypeOK
    <3> QED BY <1>0, <2>7, <2>8, <3>1, HandlersStep
  <2>10. Rotations' /\ Kept' /\ Sent' /\ Change'
    BY <2>1, <2>5 DEF IInv, Rotations, Kept, Sent, Change, Minted
  <2>11. RevocationSticks' /\ LateRequestRefused'
    BY <2>1, <2>5 DEF IInv, RevocationSticks, LateRequestRefused
  <2>12. FreshBeforeChange'
    BY <2>1 DEF IInv, FreshBeforeChange, Change
  <2> QED BY <2>6, <2>9, <2>10, <2>11, <2>12 DEF IInv
<1> QED BY <1>1, <1>2, <1>3, <1>4

\* A revocation begins: the Grant or the user's authority changes first.
LEMMA BeginInv ==
  ASSUME IInv, NEW p \in Procs,
         RevokeGrant(p) \/ BeginCredentialChange(p) \/ StagePassword(p)
  PROVE  IInv'
<1>0. /\ proc[p] \in HandlerState /\ proc \in [Procs -> HandlerState]
      /\ HandlerOK(proc[p]) /\ faults \in Nat /\ now \in Nat
      /\ Idle \in HandlerState /\ HandlerOK(Idle) /\ Idle.owner = NoOwner
  BY IdleOK DEF IInv, TypeOK, Handlers
<1>1. ASSUME NEW h \in HandlerState, proc' = [proc EXCEPT ![p] = h],
             h.pc \in {"stage", "revoke"}, h.at <= now,
             h.late => h.dead \/ "epoch" \in changed,
             h.op = "authority" => "epoch" \in changed',
             h.owner \in {NoOwner, proc[p].owner},
             grant' \in {"live", "revoked"}, changed' \subseteq {"epoch", "password"},
             changed \subseteq changed',
             UNCHANGED <<fam, grace, now, faults, history>>
      PROVE  IInv'
  <2> USE DEF history
  <2>1. TypeOK'
    BY <1>0, <1>1 DEF IInv, TypeOK
  <2>2. \A q \in Procs : proc'[q] = IF q = p THEN h ELSE proc[q]
    BY <1>0, <1>1
  <2>3. HandlerOK(proc[p])'
    BY <1>1, <2>2 DEF HandlerOK, Leasing, Posting, Issuing
  <2>4. \A q \in Procs \ {p} : HandlerOK(proc[q])'
    BY <1>1, <2>2 DEF IInv, Handlers, HandlerOK, Minted
  <2>5. Handlers' /\ Distinct'
    <3>1. proc' \in [Procs -> HandlerState]
      BY <2>1 DEF TypeOK
    <3> QED BY <1>1, <2>2, <2>3, <2>4, <3>1, HandlersStep
  <2>6. Rotations' /\ Kept' /\ Sent' /\ Change'
    BY <1>1 DEF IInv, Rotations, Kept, Sent, Change, Minted
  <2>7. RevocationSticks' /\ LateRequestRefused' /\ FreshBeforeChange'
    BY <1>1 DEF IInv, RevocationSticks, LateRequestRefused, FreshBeforeChange
  <2> QED BY <2>1, <2>5, <2>6, <2>7 DEF IInv
<1>2. ASSUME NEW pc \in {"stage", "revoke"}, NEW op \in {"grant", "authority"}
      PROVE  LET h == [Idle EXCEPT !.pc = pc, !.op = op]
             IN  /\ h \in HandlerState /\ h.pc = pc /\ h.op = op /\ h.at = 0
                 /\ h.late = FALSE /\ h.owner = NoOwner
  <2>1. Idle.at = 0 /\ Idle.late = FALSE
    BY DEF Idle
  <2> QED BY <1>0, <2>1 DEF HandlerState, PCs, Ops
<1>3. CASE RevokeGrant(p)
  <2> DEFINE h == [Idle EXCEPT !.pc = "revoke", !.op = "grant"]
  <2>1. /\ h \in HandlerState /\ h.pc = "revoke" /\ h.op = "grant" /\ h.at = 0
        /\ h.late = FALSE /\ h.owner = NoOwner
    BY <1>2
  <2>2. /\ proc' = [proc EXCEPT ![p] = h] /\ grant' = "revoked"
        /\ UNCHANGED <<fam, grace, changed, now, faults, history>>
    BY <1>3 DEF RevokeGrant
  <2>3. changed \subseteq {"epoch", "password"}
    BY DEF IInv, TypeOK
  <2> HIDE DEF h
  <2>4. /\ h.pc \in {"stage", "revoke"} /\ h.at <= now /\ ~h.late /\ h.op # "authority"
        /\ h.owner \in {NoOwner, proc[p].owner} /\ changed' \subseteq {"epoch", "password"}
        /\ changed \subseteq changed' /\ UNCHANGED <<fam, grace, now, faults, history>>
    BY <1>0, <2>1, <2>2, <2>3
  <2> QED BY <1>1, <2>1, <2>2, <2>4
<1>4. CASE BeginCredentialChange(p)
  <2>1. PICK pc \in {"stage", "revoke"} :
          proc' = [proc EXCEPT ![p] = [Idle EXCEPT !.pc = pc, !.op = "authority"]]
    BY <1>4 DEF BeginCredentialChange
  <2> DEFINE h == [Idle EXCEPT !.pc = pc, !.op = "authority"]
  <2>2. /\ h \in HandlerState /\ h.pc = pc /\ h.op = "authority" /\ h.at = 0
        /\ h.late = FALSE /\ h.owner = NoOwner
    BY <1>2
  <2>3. /\ proc' = [proc EXCEPT ![p] = h] /\ changed' = changed \cup {"epoch"}
        /\ UNCHANGED <<fam, grace, grant, now, faults, history>>
    BY <1>4, <2>1 DEF BeginCredentialChange
  <2>4. changed \subseteq {"epoch", "password"} /\ grant \in {"live", "revoked"}
    BY DEF IInv, TypeOK
  <2> HIDE DEF h
  <2>5. /\ h.pc \in {"stage", "revoke"} /\ h.at <= now /\ ~h.late /\ "epoch" \in changed'
        /\ h.owner \in {NoOwner, proc[p].owner} /\ changed' \subseteq {"epoch", "password"}
        /\ changed \subseteq changed' /\ UNCHANGED <<fam, grace, now, faults, history>>
        /\ grant' \in {"live", "revoked"}
    BY <1>0, <2>2, <2>3, <2>4
  <2> QED BY <1>1, <2>2, <2>3, <2>5
<1>5. CASE StagePassword(p)
  <2> DEFINE h == [proc[p] EXCEPT !.pc = "revoke"]
  <2>1. /\ h \in HandlerState /\ h.pc = "revoke" /\ h.op = proc[p].op /\ h.at = proc[p].at
        /\ h.late = proc[p].late /\ h.dead = proc[p].dead /\ h.owner = proc[p].owner
    BY <1>0 DEF HandlerState, PCs
  <2>2. /\ proc' = [proc EXCEPT ![p] = h] /\ changed' = changed \cup {"password"}
        /\ UNCHANGED <<fam, grace, grant, now, faults, history>>
    BY <1>0, <1>5 DEF StagePassword, Goto
  <2>3. changed \subseteq {"epoch", "password"} /\ grant \in {"live", "revoked"}
    BY DEF IInv, TypeOK
  <2>4. /\ h.at <= now /\ (h.late => h.dead \/ "epoch" \in changed)
        /\ (h.op = "authority" => "epoch" \in changed)
    BY <1>0, <2>1 DEF HandlerOK
  <2> HIDE DEF h
  <2> QED BY <1>0, <1>1, <2>1, <2>2, <2>3, <2>4
<1> QED BY <1>3, <1>4, <1>5

\* The family is revoked before its kept responses are deleted, so a
\* revocation that is reported finds both done.
LEMMA RevokeInv ==
  ASSUME IInv, NEW p \in Procs,
         \/ RevokeFamily(p) \/ RevokeFamilyFails(p) \/ DeleteGrace(p) \/ DeleteGraceFails(p)
  PROVE  IInv'
<1> USE DEF authority
<1>0. /\ proc[p] \in HandlerState /\ proc \in [Procs -> HandlerState]
      /\ HandlerOK(proc[p]) /\ faults \in Nat /\ now \in Nat /\ acked \subseteq Final
      /\ Idle \in HandlerState /\ HandlerOK(Idle) /\ Idle.owner = NoOwner
      /\ fam \in [version : Nat, revoked : BOOLEAN, owner : Owners \cup {NoOwner}, until : Nat]
  BY IdleOK DEF IInv, TypeOK, Handlers
<1>i. Idle.pc = "idle" /\ Idle.at = 0 /\ Idle.late = FALSE /\ Idle.op = "none"
  BY DEF Idle
<1>1. CASE RevokeFamily(p)
  <2> DEFINE h == [proc[p] EXCEPT !.pc = "delete"]
  <2>1. /\ fam' = [fam EXCEPT !.revoked = TRUE] /\ proc' = [proc EXCEPT ![p] = h]
        /\ UNCHANGED <<grace, authority, now, faults, minted, answers, acked>>
    BY <1>0, <1>1 DEF RevokeFamily, Goto, history
  <2>2. /\ h \in HandlerState /\ h.pc = "delete" /\ h.at = proc[p].at
        /\ h.owner = proc[p].owner /\ h.late = proc[p].late /\ h.dead = proc[p].dead
        /\ h.op = proc[p].op
    BY <1>0 DEF HandlerState, PCs
  <2>3. /\ fam'.owner = fam.owner /\ fam'.until = fam.until
        /\ fam'.version = fam.version /\ fam'.revoked = TRUE
        /\ fam' \in [version : Nat, revoked : BOOLEAN, owner : Owners \cup {NoOwner}, until : Nat]
    BY <1>0, <2>1
  <2> HIDE DEF h
  <2>4. TypeOK'
    BY <1>0, <2>1, <2>2, <2>3 DEF IInv, TypeOK
  <2>5. \A q \in Procs : proc'[q] = IF q = p THEN h ELSE proc[q]
    BY <1>0, <2>1
  <2>6. HandlerOK(proc[p])'
    BY <1>0, <2>1, <2>2, <2>3, <2>5 DEF HandlerOK, Leasing, Posting, Issuing
  <2>7. \A q \in Procs \ {p} : HandlerOK(proc[q])'
    BY <2>1, <2>3, <2>5 DEF IInv, Handlers, HandlerOK, Minted
  <2>8. Handlers' /\ Distinct'
    <3>1. proc' \in [Procs -> HandlerState]
      BY <2>4 DEF TypeOK
    <3> QED BY <2>2, <2>5, <2>6, <2>7, <3>1, HandlersStep
  <2>9. Rotations' /\ Kept' /\ Sent' /\ Change'
    BY <2>1, <2>3 DEF IInv, Rotations, Kept, Sent, Change, Minted
  <2>10. RevocationSticks' /\ LateRequestRefused' /\ FreshBeforeChange'
    BY <2>1, <2>3 DEF IInv, RevocationSticks, LateRequestRefused, FreshBeforeChange
  <2> QED BY <2>4, <2>8, <2>9, <2>10 DEF IInv
<1>2. ASSUME proc' = [proc EXCEPT ![p] = Idle], faults' \in Nat, acked' \subseteq Final,
             grace' \subseteq grace, RevocationSticks',
             "authority" \in acked' => "epoch" \in changed,
             UNCHANGED <<fam, authority, now, minted, answers>>
      PROVE  IInv'
  <2> HIDE DEF Idle
  <2>1. TypeOK'
    BY <1>0, <1>2 DEF IInv, TypeOK
  <2>2. \A q \in Procs : proc'[q] = IF q = p THEN Idle ELSE proc[q]
    BY <1>0, <1>2
  <2>3. HandlerOK(proc[p])'
    BY <1>0, <1>i, <1>2, <2>2 DEF HandlerOK, Leasing, Posting, Issuing
  <2>4. \A q \in Procs \ {p} : HandlerOK(proc[q])'
    BY <1>2, <2>2 DEF IInv, Handlers, HandlerOK, Minted
  <2>5. Handlers' /\ Distinct'
    <3>1. proc' \in [Procs -> HandlerState]
      BY <2>1 DEF TypeOK
    <3> QED BY <1>0, <2>2, <2>3, <2>4, <3>1, HandlersStep
  <2>6. Rotations' /\ Kept' /\ Sent' /\ Change'
    BY <1>2 DEF IInv, Rotations, Kept, Sent, Change, Minted
  <2>7. LateRequestRefused' /\ FreshBeforeChange'
    BY <1>2 DEF IInv, LateRequestRefused, FreshBeforeChange
  <2> QED BY <1>2, <2>1, <2>5, <2>6, <2>7 DEF IInv
<1>3. CASE RevokeFamilyFails(p)
  <2>1. CASE proc[p].op = "authority"
    <3>1. /\ proc' = [proc EXCEPT ![p] = Idle] /\ faults' \in Nat
          /\ acked' \in {acked, acked \cup {"authority"}}
          /\ UNCHANGED <<fam, grace, authority, now, minted, answers>>
      BY <1>0, <1>3, <2>1 DEF RevokeFamilyFails, Return
    <3>2. "epoch" \in changed
      BY <1>0, <2>1 DEF HandlerOK
    <3>3. acked' \subseteq Final
      BY <1>0, <3>1 DEF Final
    <3>4. RevocationSticks'
      BY <3>1 DEF IInv, RevocationSticks
    <3> HIDE DEF Idle
    <3> QED BY <1>2, <3>1, <3>2, <3>3, <3>4
  <2>2. CASE proc[p].op # "authority"
    <3> DEFINE h == [proc[p] EXCEPT !.pc = "delete", !.failed = TRUE]
    <3>1. /\ proc' = [proc EXCEPT ![p] = h] /\ faults' \in Nat
          /\ UNCHANGED <<fam, grace, authority, now, history>>
      <4>1. proc' = [proc EXCEPT ![p] = h]
            /\ faults' = faults + 1
            /\ UNCHANGED <<fam, grace, authority, now, minted, answers, acked>>
        BY <1>3, <2>2 DEF RevokeFamilyFails
      <4> QED BY <1>0, <4>1 DEF history
    <3>2. /\ h \in HandlerState /\ h.pc = "delete" /\ h.failed = TRUE /\ h.at = proc[p].at
          /\ h.owner = proc[p].owner /\ h.late = proc[p].late /\ h.dead = proc[p].dead
          /\ h.op = proc[p].op
      BY <1>0 DEF HandlerState, PCs
    <3> HIDE DEF h
    <3>3. HandlerOK(h)
      BY <1>0, <3>2 DEF HandlerOK, Leasing, Posting, Issuing
    <3> QED BY <3>1, <3>2, <3>3, HandlerStep
  <2> QED BY <2>1, <2>2
<1>4. CASE DeleteGrace(p)
  <2>1. /\ proc' = [proc EXCEPT ![p] = Idle] /\ grace' = {} /\ faults' \in Nat
        /\ acked' = IF proc[p].failed THEN acked ELSE acked \cup ({proc[p].op} \cap Final)
        /\ UNCHANGED <<fam, authority, now, minted, answers>> /\ proc[p].pc = "delete"
    BY <1>0, <1>4 DEF DeleteGrace, Reported, Return
  <2>2. acked' \subseteq Final
    BY <1>0, <2>1
  <2>3. "authority" \in acked' => "epoch" \in changed
    BY <1>0, <2>1 DEF HandlerOK, IInv, Change, Final
  <2>4. acked' \cap {"refresh", "grant"} # {} => fam.revoked
    <3>1. CASE acked \cap {"refresh", "grant"} # {}
      BY <3>1 DEF IInv, RevocationSticks
    <3>2. CASE acked \cap {"refresh", "grant"} = {}
      BY <1>0, <2>1, <3>2 DEF HandlerOK
    <3> QED BY <3>1, <3>2
  <2>5. RevocationSticks'
    BY <2>1, <2>4 DEF RevocationSticks
  <2> HIDE DEF Idle
  <2> QED BY <1>2, <2>1, <2>2, <2>3, <2>5
<1>5. CASE DeleteGraceFails(p)
  <2>1. /\ proc' = [proc EXCEPT ![p] = Idle] /\ faults' \in Nat
        /\ UNCHANGED <<fam, grace, authority, now, minted, answers>>
    BY <1>0, <1>5 DEF DeleteGraceFails, Return
  <2>2. \/ acked' = acked
        \/ proc[p].op = "authority" /\ acked' = acked \cup {"authority"}
    BY <1>5 DEF DeleteGraceFails
  <2>3. acked' \subseteq Final
    BY <1>0, <2>2 DEF Final
  <2>4. "authority" \in acked' => "epoch" \in changed
    BY <1>0, <2>2 DEF HandlerOK, IInv, Change
  <2>5. RevocationSticks'
    BY <2>1, <2>2 DEF IInv, RevocationSticks
  <2> HIDE DEF Idle
  <2> QED BY <1>2, <2>1, <2>3, <2>4, <2>5
<1> QED BY <1>1, <1>3, <1>4, <1>5

\* A crash, and the clock: a lease only comes closer to its end.
LEMMA EnvironmentInv ==
  ASSUME IInv, Tick \/ \E p \in Procs : Abort(p)
  PROVE  IInv'
<1> USE DEF authority, history
<1>1. ASSUME NEW p \in Procs, Abort(p) PROVE IInv'
  <2>1. Return(p) /\ faults' \in Nat /\ UNCHANGED <<fam, grace, authority, now, history>>
    BY <1>1 DEF Abort, IInv, TypeOK
  <2> QED BY <2>1, ReturnStep
<1>2. CASE Tick
  <2>1. now' = now + 1 /\ now \in Nat /\ UNCHANGED <<fam, grace, authority, proc, faults, history>>
    BY <1>2 DEF Tick, IInv, TypeOK
  <2>2. TypeOK'
    BY <2>1 DEF IInv, TypeOK
  <2>3. Handlers'
    <3> SUFFICES ASSUME NEW q \in Procs PROVE HandlerOK(proc[q])'
      BY DEF Handlers
    <3>1. HandlerOK(proc[q]) /\ proc'[q] = proc[q]
          /\ proc[q].at \in Nat /\ proc[q].until \in Nat
      BY <2>1 DEF IInv, Handlers, TypeOK, HandlerState
    <3> QED BY <2>1, <3>1 DEF HandlerOK, Minted
  <2>4. Distinct' /\ Rotations' /\ Kept' /\ Sent' /\ Change'
    BY <2>1 DEF IInv, Distinct, Rotations, Kept, Sent, Change, Minted
  <2>5. RevocationSticks' /\ LateRequestRefused' /\ FreshBeforeChange'
    BY <2>1 DEF IInv, RevocationSticks, LateRequestRefused, FreshBeforeChange
  <2> QED BY <2>2, <2>3, <2>4, <2>5 DEF IInv
<1> QED BY <1>1, <1>2

-----------------------------------------------------------------------------

\* A family that code exchange has just created satisfies the invariant.
LEMMA InitInv == Init => IInv
<1> SUFFICES ASSUME Init PROVE IInv
  OBVIOUS
<1>1. Idle \in HandlerState
  <2>1. (CHOOSE r \in Requests : TRUE) \in Requests
    BY RefreshAssumption
  <2> QED BY <2>1 DEF Idle, HandlerState, PCs, Ops
<1>2. /\ Idle.pc = "idle" /\ Idle.at = 0 /\ Idle.late = FALSE /\ Idle.op = "none"
      /\ Idle.owner = NoOwner
  BY DEF Idle
<1> HIDE DEF Idle
<1>3. TypeOK
  BY <1>1 DEF Init, TypeOK
<1>4. Handlers /\ Distinct
  BY <1>2 DEF Init, Handlers, Distinct, HandlerOK, Leasing, Posting, Issuing
<1>5. Rotations /\ Kept /\ Sent /\ Change
  BY DEF Init, Rotations, Kept, Sent, Change
<1>6. RevocationSticks /\ LateRequestRefused /\ FreshBeforeChange
  BY DEF Init, RevocationSticks, LateRequestRefused, FreshBeforeChange
<1> QED BY <1>3, <1>4, <1>5, <1>6 DEF IInv

\* Every step of every handler, and of the clock, preserves the invariant.
LEMMA NextInv == IInv /\ [Next]_vars => IInv'
<1> SUFFICES ASSUME IInv, [Next]_vars PROVE IInv'
  OBVIOUS
<1>1. ASSUME NEW p \in Procs, Continue(p) PROVE IInv'
  <2>1. (GrantGate(p) \/ EpochGate(p) \/ PasswordGate(p)
           \/ ConsumeRevoked(p) \/ ConsumeReuse(p)) => IInv'
    BY RequestInv
  <2>2. ConsumeCurrent(p) => IInv'
    BY ConsumeCurrentInv
  <2>3. ProbeHit(p) \/ ProbeMiss(p) => IInv'
    BY ProbeInv
  <2>4. AcquireLease(p) \/ LeaseRefused(p) \/ Sign(p) \/ ReleaseLease(p) => IInv'
    BY LeaseInv
  <2>5. FinalizeRotation(p) \/ FinalizeRefused(p) => IInv'
    BY FinalizeInv
  <2>6. PostPassword(p) \/ PostEpoch(p) => IInv'
    BY PostInv
  <2>7. StagePassword(p) => IInv'
    BY BeginInv
  <2>8. RevokeFamily(p) \/ DeleteGrace(p) => IInv'
    BY RevokeInv
  <2> QED BY <1>1, <2>1, <2>2, <2>3, <2>4, <2>5, <2>6, <2>7, <2>8 DEF Continue
<1>2. ASSUME NEW p \in Procs, Fault(p) PROVE IInv'
  <2>1. ProbeFails(p) => IInv'
    BY ProbeInv
  <2>2. SignFails(p) => IInv'
    BY LeaseInv
  <2>3. FinalizeAnswerLost(p) => IInv'
    BY FinalizeInv
  <2>4. RevokeFamilyFails(p) \/ DeleteGraceFails(p) => IInv'
    BY RevokeInv
  <2>5. Abort(p) => IInv'
    BY EnvironmentInv
  <2>6. GrantUnknown(p) => IInv'
    BY RequestInv
  <2>7. PostLookupFails(p) => IInv'
    BY PostInv
  <2> QED BY <1>2, <2>1, <2>2, <2>3, <2>4, <2>5, <2>6, <2>7 DEF Fault
<1>3. ASSUME NEW p \in Procs, Request(p) PROVE IInv'
  <2>1. RevokeGrant(p) \/ BeginCredentialChange(p) => IInv'
    BY BeginInv
  <2>2. ASSUME \E v \in 0..fam.version : LoadNotOwner(p, v) \/ \E r \in Requests : Load(p, v, r)
        PROVE  IInv'
    BY <2>2, RequestInv
  <2>3. MismatchedProof(p) \/ RevokeEndpoint(p) => IInv'
    BY RequestInv
  <2> QED BY <1>3, <2>1, <2>2, <2>3 DEF Request
<1>4. CASE Tick
  BY <1>4, EnvironmentInv
<1>5. CASE UNCHANGED vars
  BY <1>5 DEF vars, IInv, TypeOK, Handlers, HandlerOK, Distinct, Rotations, Kept, Sent, Change,
     Minted, RevocationSticks, LateRequestRefused, FreshBeforeChange
<1> QED BY <1>1, <1>2, <1>3, <1>4, <1>5 DEF Next

\* The invariant holds in every reachable state: the handlers' knowledge
\* (HandlerOK) survives every interleaving of requests and revocations.
THEOREM Invariance == Spec => []IInv
BY InitInv, NextInv, PTL DEF Spec

\* Family, lease, grace cache and handlers keep their types.
THEOREM TypeCorrect == Spec => []TypeOK
<1>1. IInv => TypeOK BY DEF IInv
<1> QED BY <1>1, Invariance, PTL

\* However many requests race, a version of the family is exchanged for at
\* most one token, and replays go only to the request that made it.
THEOREM RotationNeverForks == Spec => []OneSuccessor
<1>1. IInv => OneSuccessor
  BY DEF IInv, Rotations, Sent, Minted, OneSuccessor
<1> QED BY <1>1, Invariance, PTL

\* No rotation under way, kept response or late finalize undoes a revocation
\* that was reported.
THEOREM ReportedRevocationHolds == Spec => []RevocationSticks
<1>1. IInv => RevocationSticks BY DEF IInv
<1> QED BY <1>1, Invariance, PTL

\* A request that starts after a revocation or a credential change was
\* reported gets no token, whatever failed in between.
THEOREM NoTokenAfterReport == Spec => []LateRequestRefused
<1>1. IInv => LateRequestRefused BY DEF IInv
<1> QED BY <1>1, Invariance, PTL

\* A newly signed token is returned only if its rotation committed before the
\* user's authority changed.
THEOREM PostIssueCheckSuffices == Spec => []FreshBeforeChange
<1>1. IInv => FreshBeforeChange BY DEF IInv
<1> QED BY <1>1, Invariance, PTL

\* Although each handler compares the lease's expiry with an old clock
\* reading, two handlers never hold an unexpired lease together.
THEOREM LeaseExcludes == Spec => []LiveLeaseIsExclusive
<1>1. IInv => LiveLeaseIsExclusive
  <2> SUFFICES ASSUME IInv, NEW p \in Procs, NEW q \in Procs, p # q,
                      proc[p].pc \in {"sign", "finalize"}, proc[q].pc \in {"sign", "finalize"}
               PROVE  proc[p].until <= now \/ proc[q].until <= now
    BY DEF LiveLeaseIsExclusive
  <2>1. /\ HandlerOK(proc[p]) /\ HandlerOK(proc[q]) /\ now \in Nat
        /\ proc[p].until \in Nat /\ proc[q].until \in Nat
    BY DEF IInv, Handlers, TypeOK, HandlerState
  <2>2. proc[p].owner \in Owners
    BY <2>1 DEF HandlerOK, Leasing
  <2>3. proc[p].owner # proc[q].owner
    BY <2>2, RefreshAssumption DEF IInv, Distinct
  <2> QED BY <2>1, <2>3 DEF HandlerOK
<1> QED BY <1>1, Invariance, PTL

-----------------------------------------------------------------------------
\* The store implements the two-phase signing lease of lease.rs for every version of a
\* family: the record has one lease for all its versions, and the version that is current
\* decides whose it is.  The step that matters is the takeover: a handler compares the
\* expiry with a clock reading that is older than the write, so what it finds over is over
\* (HandlerOK).
LEMMA LeaseInit ==
    ASSUME Init
    PROVE  Lease!Init
BY RefreshAssumption DEF Init, Lease!Init, LeaseOfVersion, HolderOfVersion, LapsedOfVersion

\* The family as its type and the assumptions give it.
LEMMA FamilyFacts ==
    ASSUME IInv
    PROVE  /\ fam.version \in Nat /\ fam.revoked \in BOOLEAN /\ fam.until \in Nat
           /\ fam.owner \in Owners \cup {NoOwner}
           /\ fam = [version |-> fam.version, revoked |-> fam.revoked, owner |-> fam.owner,
                     until |-> fam.until]
           /\ now \in Nat /\ NoOwner \notin Owners /\ Version \in Nat
BY RefreshAssumption DEF IInv, TypeOK

LEMMA SameLease ==
    ASSUME fam'.version = fam.version, fam'.owner = fam.owner, fam'.until = fam.until, now' = now
    PROVE  UNCHANGED Lease!vars
BY DEF Lease!vars, LeaseOfVersion, HolderOfVersion, LapsedOfVersion

LEMMA OtherVersion ==
    ASSUME IInv, fam.version # Version, now' = now, fam'.version # Version,
           fam'.version > Version <=> fam.version > Version
    PROVE  UNCHANGED Lease!vars
BY DEF Lease!vars, LeaseOfVersion, HolderOfVersion, LapsedOfVersion

\* acquire_lease takes a lease that nobody holds, or one that is over.
LEMMA AcquireMaps ==
    ASSUME IInv, NEW p \in Procs, AcquireLease(p)
    PROVE  [Lease!Next]_(Lease!vars)
<1>1. /\ proc[p].owner \in Owners /\ proc[p].at \in Nat /\ proc[p].at <= now /\ now' = now
      /\ fam.version = proc[p].ver /\ (fam.owner = NoOwner \/ fam.until <= proc[p].at)
  BY DEF IInv, TypeOK, Handlers, HandlerOK, Leasing, HandlerState, AcquireLease, LeaseFree
<1>2. fam'.version = fam.version /\ fam'.owner = proc[p].owner
  BY FamilyFacts DEF AcquireLease
<1>3. CASE fam.version # Version
  BY <1>1, <1>2, <1>3, OtherVersion
<1>4. CASE fam.version = Version
  <2>1. LeaseOfVersion(Version) = "Idle"
        \/ (LeaseOfVersion(Version) = "Signing" /\ LapsedOfVersion(Version))
    BY <1>1, <1>4, FamilyFacts DEF LeaseOfVersion, LapsedOfVersion
  <2>2. LeaseOfVersion(Version)' = "Signing" /\ HolderOfVersion(Version)' \in Owners
        /\ LapsedOfVersion(Version)' \in BOOLEAN
    BY <1>1, <1>2, <1>4, FamilyFacts DEF LeaseOfVersion, HolderOfVersion, LapsedOfVersion
  <2> QED
    BY <2>1, <2>2 DEF Lease!Next, Lease!Acquire
<1> QED
  BY <1>3, <1>4

\* release_lease gives back the caller's own lease.
LEMMA ReleaseMaps ==
    ASSUME IInv, NEW p \in Procs, ReleaseLease(p)
    PROVE  [Lease!Next]_(Lease!vars)
<1>1. proc[p].owner \in Owners /\ now' = now
  BY DEF IInv, Handlers, HandlerOK, Leasing, ReleaseLease
<1>2. CASE fam' = fam
  BY <1>1, <1>2, SameLease
<1>3. CASE fam' # fam
  <2>1. fam.owner = proc[p].owner /\ fam'.version = fam.version /\ fam'.owner = NoOwner
    BY <1>3, FamilyFacts DEF ReleaseLease
  <2>2. CASE fam.version # Version
    BY <1>1, <2>1, <2>2, OtherVersion
  <2>3. CASE fam.version = Version
    <3>1. LeaseOfVersion(Version) = "Signing" /\ LeaseOfVersion(Version)' = "Idle"
          /\ HolderOfVersion(Version)' = NoOwner /\ LapsedOfVersion(Version)' = FALSE
      BY <1>1, <2>1, <2>3, FamilyFacts DEF LeaseOfVersion, HolderOfVersion, LapsedOfVersion
    <3>2. Lease!Resolve("KmsTransient")
      BY <3>1 DEF Lease!Resolve, Lease!Resolution
    <3> QED
      BY <3>2 DEF Lease!Next, Lease!Outcomes
  <2> QED
    BY <2>2, <2>3
<1> QED
  BY <1>2, <1>3

\* The finalize transaction ends the lease with the version it belonged to.
LEMMA RotateMaps ==
    ASSUME IInv, NEW p \in Procs,
           FinalizeRotation(p) \/ FinalizeAnswerLost(p)
    PROVE  [Lease!Next]_(Lease!vars)
<1>1. /\ proc[p].owner \in Owners /\ now' = now /\ fam.owner = proc[p].owner
      /\ fam' = [fam EXCEPT !.version = @ + 1, !.owner = NoOwner, !.until = 0]
  BY DEF IInv, Handlers, HandlerOK, Leasing, FinalizeRotation, FinalizeAnswerLost, Finalizable,
    Rotate
<1>2. fam'.version = fam.version + 1 /\ fam'.owner = NoOwner
  BY <1>1, FamilyFacts
<1>3. CASE fam.version = Version
  <2>1. LeaseOfVersion(Version) = "Signing" /\ LeaseOfVersion(Version)' = "Finalized"
        /\ HolderOfVersion(Version)' = NoOwner /\ LapsedOfVersion(Version)' = FALSE
    BY <1>1, <1>2, <1>3, FamilyFacts DEF LeaseOfVersion, HolderOfVersion, LapsedOfVersion
  <2>2. Lease!Resolve("Success")
    BY <2>1 DEF Lease!Resolve, Lease!Resolution
  <2> QED
    BY <2>2 DEF Lease!Next, Lease!Outcomes
<1>4. CASE fam.version + 1 = Version
  BY <1>1, <1>2, <1>4, FamilyFacts
    DEF Lease!vars, LeaseOfVersion, HolderOfVersion, LapsedOfVersion
<1>5. CASE fam.version # Version /\ fam.version + 1 # Version
  BY <1>1, <1>2, <1>5, FamilyFacts, OtherVersion
<1> QED
  BY <1>3, <1>4, <1>5

\* Time only ends leases.
LEMMA TickMaps ==
    ASSUME IInv, Tick
    PROVE  [Lease!Next]_(Lease!vars)
<1>1. now' = now + 1 /\ fam' = fam
  BY DEF Tick
<1>2. LeaseOfVersion(Version)' = LeaseOfVersion(Version)
      /\ HolderOfVersion(Version)' = HolderOfVersion(Version)
  BY <1>1 DEF LeaseOfVersion, HolderOfVersion
<1>3. CASE LapsedOfVersion(Version)' = LapsedOfVersion(Version)
  BY <1>2, <1>3 DEF Lease!vars
<1>4. CASE LapsedOfVersion(Version)' # LapsedOfVersion(Version)
  <2>1. LapsedOfVersion(Version)' = TRUE /\ LeaseOfVersion(Version) = "Signing"
    BY <1>1, <1>4, FamilyFacts DEF LapsedOfVersion, LeaseOfVersion
  <2> QED
    BY <1>2, <2>1 DEF Lease!Next, Lease!Lapse
<1> QED
  BY <1>3, <1>4

\* A revocation leaves the lease where it is.
LEMMA RevokeMaps ==
    ASSUME IInv, NEW p \in Procs, RevokeFamily(p)
    PROVE  UNCHANGED Lease!vars
<1>1. fam'.version = fam.version /\ fam'.owner = fam.owner /\ fam'.until = fam.until /\ now' = now
  BY FamilyFacts DEF RevokeFamily
<1> QED
  BY <1>1, SameLease

LEMMA LeaseNext ==
    ASSUME IInv, [Next]_vars
    PROVE  [Lease!Next]_(Lease!vars)
<1>1. CASE UNCHANGED <<fam, now>>
  BY <1>1, SameLease
<1>2. ASSUME NEW p \in Procs, Continue(p)
      PROVE  \/ UNCHANGED <<fam, now>> \/ AcquireLease(p) \/ ReleaseLease(p)
             \/ FinalizeRotation(p) \/ RevokeFamily(p)
  BY <1>2 DEF Continue, GrantGate, EpochGate, PasswordGate, ConsumeRevoked, ConsumeReuse,
    ConsumeCurrent, ProbeHit, ProbeMiss, LeaseRefused, Sign, FinalizeRefused, PostPassword,
    PostEpoch, StagePassword, DeleteGrace
<1>3. ASSUME NEW p \in Procs, Fault(p)
      PROVE  UNCHANGED <<fam, now>> \/ FinalizeAnswerLost(p)
  BY <1>3 DEF Fault, GrantUnknown, ProbeFails, SignFails, PostLookupFails, RevokeFamilyFails,
    DeleteGraceFails, Abort
<1>4. ASSUME NEW p \in Procs, Request(p)
      PROVE  UNCHANGED <<fam, now>>
  BY <1>4 DEF Request, Load, LoadNotOwner, MismatchedProof, RevokeEndpoint, RevokeGrant,
    BeginCredentialChange
<1>5. ASSUME NEW p \in Procs, Continue(p) \/ Fault(p) \/ Request(p)
      PROVE  [Lease!Next]_(Lease!vars)
  <2>1. \/ UNCHANGED <<fam, now>> \/ AcquireLease(p) \/ ReleaseLease(p)
        \/ FinalizeRotation(p) \/ FinalizeAnswerLost(p) \/ RevokeFamily(p)
    BY <1>2, <1>3, <1>4, <1>5
  <2> QED
    BY <1>1, <2>1, AcquireMaps, ReleaseMaps, RotateMaps, RevokeMaps
<1>6. CASE UNCHANGED vars
  BY <1>1, <1>6 DEF vars
<1> QED
  BY <1>5, <1>6, TickMaps DEF Next

\* Every version of a family goes through the two-phase signing lease of lease.rs,
\* although the store compares the expiry of a lease with clock readings taken
\* before the call.
THEOREM LeaseIsImplemented == Spec => ImplementsLease
<1>1. Init => Lease!Init
  BY LeaseInit
<1>2. IInv /\ [Next]_vars => [Lease!Next]_(Lease!vars)
  BY LeaseNext
<1> QED
  BY <1>1, <1>2, Invariance, PTL DEF Spec, ImplementsLease, Lease!Spec
=============================================================================
