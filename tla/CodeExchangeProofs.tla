------------------------- MODULE CodeExchangeProofs -------------------------
(***************************************************************************)
(* Proofs about CodeExchange, for any number of requests, any flavor of    *)
(* code and any number of faults.                                          *)
(*                                                                         *)
(* Winner: the one attempt that finalizes the code is the only one that    *)
(* creates records and answers with a token.  Replays: a replay marks the  *)
(* code before it revokes, so either the winner has created all it will    *)
(* create and the revocation meets it, or the winner finds the mark and    *)
(* answers nothing (Barren).  Cleanups: without faults, whoever leaves the *)
(* path to the answer still has to revoke what is active.                  *)
(***************************************************************************)
EXTENDS CodeExchange, TLAPS

Code == [consumed : BOOLEAN, owner : Requests \cup {NoOne}, lapsed : BOOLEAN,
         issuedTo : Requests \cup {NoOne}, replay : BOOLEAN, expired : BOOLEAN]

Kinds == {"family", "grant"}

\* What an attempt in its cleanup still has to revoke.
Pending(p, k) ==
    p.todo # <<>> /\ (Head(p.todo) = k \/ (Tail(p.todo) # <<>> /\ Head(Tail(p.todo)) = k))

\* The points of an attempt after finalize: before the family, before the Grant,
\* and with both behind it.
Last == {"finalepoch", "finalpassword"}
AfterGrant == {"reuse"} \cup Last
BeforeGrant == {"postepoch", "postpassword", "grant"}
BeforeFamily == {"session", "family"}
Won == BeforeFamily \cup BeforeGrant \cup AfterGrant

Winner ==
    /\ code.issuedTo # NoOne \/ code.replay => code.consumed
    /\ issued \in {0, 1}
    /\ issued = 1 => code.issuedTo # NoOne
    /\ \A r \in Requests :
         /\ proc[r].pc \in Won => code.issuedTo = r /\ proc[r].seen = r /\ issued = 0
         /\ fam[r] # "none" \/ grant[r] # "none" => code.issuedTo = r
         /\ proc[r].pc \in BeforeFamily => fam[r] = "none"
         /\ proc[r].pc \in BeforeFamily \cup BeforeGrant => grant[r] = "none"

\* No token will be sent for the code any more.
Barren ==
    /\ issued = 0
    /\ code.consumed
    /\ \A r \in Requests : proc[r].pc \notin Last
    /\ code.replay \/ \A r \in Requests : proc[r].pc \notin Won

Dead(records) == \A r \in Requests : records[r] # "active"

\* A replay that has revoked everything was told so.
Told ==
    /\ code.replay
    /\ \/ Barren
       \/ /\ Dead(fam) /\ Dead(grant)
          /\ \A r \in Requests : proc[r].pc \in Won => proc[r].pc \in AfterGrant

Replays ==
    /\ \A q \in Requests :
         /\ proc[q].reuse => proc[q].pc = "cleanup" /\ code.replay
         /\ proc[q].pc = "replay" \/ proc[q].reuse
              => code.consumed /\ proc[q].seen = code.issuedTo
         /\ proc[q].reuse /\ ~proc[q].failed
              => \/ Barren
                 \/ /\ Pending(proc[q], "family") \/ Dead(fam)
                    /\ Pending(proc[q], "grant") \/ Dead(grant)
                    /\ \A r \in Requests : proc[r].pc \in Won => proc[r].pc \in AfterGrant
    /\ replayed => Told

\* Where what is active is answered for.
Answered(r, k, points) ==
    \/ issued = 1
    \/ proc[r].pc \in points
    \/ proc[r].pc = "cleanup" /\ proc[r].seen = r /\ Pending(proc[r], k)

Cleanups ==
    faults = 0 =>
      \A r \in Requests :
        /\ fam[r] = "active" => Answered(r, "family", BeforeGrant \cup AfterGrant)
        /\ grant[r] = "active" => Answered(r, "grant", AfterGrant)

IInv == TypeOK /\ Winner /\ Replays /\ Cleanups /\ SessionTruthful

-----------------------------------------------------------------------------
\* What is pending while a cleanup goes through its list.
LEMMA PendingFacts ==
    /\ \A p : p.todo = <<>> => ~Pending(p, "family") /\ ~Pending(p, "grant")
    /\ \A p : p.todo = <<"family">> => Pending(p, "family")
    /\ \A p : p.todo = <<"family", "grant">> \/ p.todo = <<"grant", "family">>
                => Pending(p, "family") /\ Pending(p, "grant")
<1>1. ASSUME NEW p, p.todo = <<>> PROVE ~Pending(p, "family") /\ ~Pending(p, "grant")
  BY <1>1 DEF Pending
<1>2. ASSUME NEW p, p.todo = <<"family">> PROVE Pending(p, "family")
  BY <1>2 DEF Pending
<1>3. ASSUME NEW p, p.todo = <<"family", "grant">>
      PROVE  Pending(p, "family") /\ Pending(p, "grant")
  BY <1>3 DEF Pending
<1>4. ASSUME NEW p, p.todo = <<"grant", "family">>
      PROVE  Pending(p, "family") /\ Pending(p, "grant")
  BY <1>4 DEF Pending
<1> QED
  BY <1>1, <1>2, <1>3, <1>4

LEMMA TailFacts ==
    ASSUME NEW t \in Todos, t # <<>>
    PROVE  Tail(t) \in Todos /\ Head(t) \in Kinds
<1>1. CASE t = <<"family">>
  <2> Tail(t) = <<>> /\ Head(t) = "family"
    BY <1>1
  <2> QED
    BY DEF Todos, Kinds
<1>2. CASE t = <<"grant">>
  <2> Tail(t) = <<>> /\ Head(t) = "grant"
    BY <1>2
  <2> QED
    BY DEF Todos, Kinds
<1>3. CASE t = <<"family", "grant">>
  <2> Tail(t) = <<"grant">> /\ Head(t) = "family"
    BY <1>3
  <2> QED
    BY DEF Todos, Kinds
<1>4. CASE t = <<"grant", "family">>
  <2> Tail(t) = <<"family">> /\ Head(t) = "grant"
    BY <1>4
  <2> QED
    BY DEF Todos, Kinds
<1> QED
  BY <1>1, <1>2, <1>3, <1>4 DEF Todos

\* The idle attempt, and a tail of its list as the rest of a cleanup.
LEMMA AttemptFacts ==
    /\ Idle \in Attempts /\ Idle.pc = "idle" /\ ~Idle.reuse
    /\ \A p \in Attempts : p.todo # <<>> =>
         LET q == [p EXCEPT !.todo = Tail(@)] IN
         /\ q \in Attempts /\ q.pc = p.pc /\ q.seen = p.seen /\ q.reuse = p.reuse
         /\ q.failed = p.failed
         /\ \A k \in Kinds : Pending(p, k) => Head(p.todo) = k \/ Pending(q, k)
<1>1. Idle \in Attempts /\ Idle.pc = "idle" /\ ~Idle.reuse
  BY DEF Idle, Attempts, PCs, Todos
<1>2. ASSUME NEW p \in Attempts, p.todo # <<>>
      PROVE  LET q == [p EXCEPT !.todo = Tail(@)] IN
             /\ q \in Attempts /\ q.pc = p.pc /\ q.seen = p.seen /\ q.reuse = p.reuse
             /\ q.failed = p.failed
             /\ \A k \in Kinds : Pending(p, k) => Head(p.todo) = k \/ Pending(q, k)
  <2> DEFINE q == [p EXCEPT !.todo = Tail(@)]
  <2>1. p.todo \in Todos
    BY DEF Attempts
  <2>2. /\ q \in Attempts /\ q.pc = p.pc /\ q.seen = p.seen /\ q.reuse = p.reuse
        /\ q.failed = p.failed /\ q.todo = Tail(p.todo)
    BY <1>2, <2>1, TailFacts DEF Attempts
  <2> HIDE DEF q
  <2>3. \A k \in Kinds : Pending(p, k) => Head(p.todo) = k \/ Pending(q, k)
    BY <1>2, <2>1, <2>2, TailFacts DEF Pending
  <2> QED
    BY <2>2, <2>3 DEF q
<1> QED
  BY <1>1, <1>2

-----------------------------------------------------------------------------
\* What code and session may become in a step that issues and records nothing.
CodeMoves ==
    /\ code' \in Code
    /\ code'.lapsed => code'.owner # NoOne
    /\ code'.owner # NoOne => ~code'.consumed /\ code'.issuedTo = NoOne
    /\ code.consumed => code'.consumed
    /\ code'.issuedTo = code.issuedTo /\ code'.replay = code.replay
    /\ session' \in {"awaiting", "complete", "exchange_failed"}

\* How an attempt at p goes on to q without creating or revoking anything.
Moves(r, p, q) ==
    /\ q \in Attempts
    /\ q.reuse => p.reuse /\ q.failed /\ q.pc = "cleanup" /\ q.seen = p.seen
    /\ q.pc = "replay" => code.consumed /\ q.seen = code.issuedTo
    /\ q.pc \in Won =>
         /\ p.pc \in Won /\ q.seen = r
         /\ q.pc \in BeforeFamily => p.pc \in BeforeFamily
         /\ q.pc \in BeforeGrant => p.pc \in BeforeFamily \cup BeforeGrant
         /\ q.pc \in Last => p.pc \in Last \/ ~code.replay
    /\ faults' = 0 =>
         /\ fam[r] = "active" /\ p.pc \in BeforeGrant \cup AfterGrant
              => \/ q.pc \in BeforeGrant \cup AfterGrant
                 \/ q.pc = "cleanup" /\ q.seen = r /\ Pending(q, "family")
         /\ grant[r] = "active" /\ p.pc \in AfterGrant
              => \/ q.pc \in AfterGrant
                 \/ q.pc = "cleanup" /\ q.seen = r /\ Pending(q, "grant")
         /\ p.pc = "cleanup" => p.todo = <<>>

LEMMA MoveInv ==
    ASSUME ExchangeAssumption, IInv, NEW r \in Requests, NEW q, Moves(r, proc[r], q),
           proc' = [proc EXCEPT ![r] = q], CodeMoves, SessionTruthful',
           UNCHANGED <<fam, grant, changed, flavor, issued>>,
           \/ replayed' = replayed
           \/ replayed' = TRUE /\ Told,
           faults' \in Nat, faults' = 0 => faults = 0
    PROVE  IInv'
<1> USE DEF IInv
<1>1. /\ q \in Attempts /\ proc'[r] = q
      /\ \A x \in Requests : x # r => proc'[x] = proc[x]
  BY DEF Moves, TypeOK
<1>2. TypeOK'
  BY <1>1 DEF TypeOK, CodeMoves, Code
<1>3. Winner'
  <2>1. code'.issuedTo # NoOne \/ code'.replay => code'.consumed
    BY DEF Winner, CodeMoves
  <2>2. ASSUME NEW x \in Requests
        PROVE  /\ proc'[x].pc \in Won => code.issuedTo = x /\ proc'[x].seen = x /\ issued = 0
               /\ proc'[x].pc \in BeforeFamily => fam[x] = "none"
               /\ proc'[x].pc \in BeforeFamily \cup BeforeGrant => grant[x] = "none"
    <3>1. CASE x = r
      BY <1>1, <3>1 DEF Winner, Moves, Won
    <3>2. CASE x # r
      BY <1>1, <3>2 DEF Winner
    <3> QED
      BY <3>1, <3>2
  <2> QED
    BY <2>1, <2>2 DEF Winner, CodeMoves
<1>4. Barren => Barren'
  <2> SUFFICES ASSUME Barren PROVE Barren'
    OBVIOUS
  <2>1. q.pc \in Last => proc[r].pc \in Last
    BY DEF Moves, Barren, Won, AfterGrant
  <2>2. q.pc \in Won => proc[r].pc \in Won
    BY DEF Moves
  <2> QED
    BY <1>1, <2>1, <2>2 DEF Barren, CodeMoves
<1>5. (\A x \in Requests : proc[x].pc \in Won => proc[x].pc \in AfterGrant)
        => \A x \in Requests : proc'[x].pc \in Won => proc'[x].pc \in AfterGrant
  <2>1. (proc[r].pc \in Won => proc[r].pc \in AfterGrant)
          => (q.pc \in Won => q.pc \in AfterGrant)
    BY DEF Moves, Won, BeforeFamily, BeforeGrant, AfterGrant, Last
  <2> QED
    BY <1>1, <2>1
<1>6. Replays'
  <2>1. Told => Told'
    BY <1>4, <1>5 DEF Told, CodeMoves, Dead
  <2>2. ASSUME NEW x \in Requests
        PROVE  /\ proc'[x].reuse => proc'[x].pc = "cleanup" /\ code'.replay
               /\ proc'[x].pc = "replay" \/ proc'[x].reuse
                    => code'.consumed /\ proc'[x].seen = code'.issuedTo
               /\ proc'[x].reuse /\ ~proc'[x].failed
                    => \/ Barren'
                       \/ /\ Pending(proc'[x], "family") \/ Dead(fam)'
                          /\ Pending(proc'[x], "grant") \/ Dead(grant)'
                          /\ \A y \in Requests : proc'[y].pc \in Won => proc'[y].pc \in AfterGrant
    <3>1. CASE x = r
      BY <1>1, <3>1 DEF Moves, CodeMoves, Replays
    <3>2. CASE x # r
      <4>1. proc'[x] = proc[x]
        BY <1>1, <3>2
      <4> QED
        BY <1>4, <1>5, <4>1 DEF Replays, CodeMoves, Dead
    <3> QED
      BY <3>1, <3>2
  <2>3. replayed' => Told
    BY DEF Replays
  <2> QED
    BY <2>1, <2>2, <2>3 DEF Replays
<1>7. Cleanups'
  <2> SUFFICES ASSUME faults' = 0, NEW x \in Requests
               PROVE  /\ fam[x] = "active" => Answered(x, "family", BeforeGrant \cup AfterGrant)'
                      /\ grant[x] = "active" => Answered(x, "grant", AfterGrant)'
    BY DEF Cleanups
  <2>1. CASE x = r
    BY <1>1, <2>1, PendingFacts DEF Cleanups, Answered, Moves
  <2>2. CASE x # r
    BY <1>1, <2>2 DEF Cleanups, Answered
  <2> QED
    BY <2>1, <2>2
<1> QED
  BY <1>2, <1>3, <1>6, <1>7

LEMMA CodeStays ==
    ASSUME IInv, UNCHANGED code, session' \in {"awaiting", "complete", "exchange_failed"}
    PROVE  CodeMoves
  BY DEF IInv, TypeOK, CodeMoves, Code

LEMMA SessionStays ==
    ASSUME IInv, UNCHANGED <<session, issued, fam>>, code'.issuedTo = code.issuedTo,
           code.consumed => code'.consumed
    PROVE  SessionTruthful'
  BY DEF IInv, SessionTruthful

\* The attempts before the code is finalized, and the replay that is refused.
LEMMA BeforeInv ==
    ASSUME ExchangeAssumption, IInv, NEW r \in Requests,
           \/ Acquire(r) \/ AlreadyConsumed(r) \/ Release(r) \/ ConsumeFailure(r)
           \/ Authenticate(r) \/ Gate(r, "epoch", "epoch", "password")
           \/ Gate(r, "password", "password", "sign") \/ FinalizeRefused(r)
           \/ ReplayRejected(r) \/ Transient(r)
    PROVE  IInv'
<1> USE DEF IInv
<1>1. proc \in [Requests -> Attempts] /\ proc[r] \in Attempts /\ faults \in Nat
  BY DEF TypeOK
<1>2. UNCHANGED <<fam, grant, changed, flavor, issued, replayed>> /\ faults' \in Nat
      /\ (faults' = 0 => faults = 0)
  BY <1>1 DEF Acquire, AlreadyConsumed, Release, ConsumeFailure, Authenticate, Gate,
    FinalizeRefused, ReplayRejected, Transient, Fault, authority, context, history
<1>3. proc[r].pc \notin Won /\ proc[r].pc # "cleanup"
  BY DEF Acquire, AlreadyConsumed, Release, ConsumeFailure, Authenticate, Gate,
    FinalizeRefused, ReplayRejected, Transient, Won, BeforeFamily, BeforeGrant, AfterGrant, Last
<1>4. ~proc[r].reuse
  BY <1>3 DEF Replays
<1>5. PICK q \in Attempts :
        /\ proc' = [proc EXCEPT ![r] = q] /\ ~q.reuse
        /\ q.pc \in {"checks", "release", "consume", "epoch", "password", "sign", "idle"}
           \/ (q.pc = "replay" /\ code.consumed /\ q.seen = code.issuedTo)
  <2>1. CASE \/ Acquire(r) \/ Authenticate(r) \/ Transient(r)
             \/ Gate(r, "epoch", "epoch", "password") \/ Gate(r, "password", "password", "sign")
    <3>1. PICK pc \in {"checks", "release", "consume", "epoch", "password", "sign"} :
            proc' = [proc EXCEPT ![r].pc = pc]
      BY <2>1 DEF Acquire, Authenticate, Transient, Gate, Goto
    <3>2. [proc[r] EXCEPT !.pc = pc] \in Attempts /\ ~[proc[r] EXCEPT !.pc = pc].reuse
          /\ [proc[r] EXCEPT !.pc = pc].pc = pc
      BY <1>1, <1>4 DEF Attempts, PCs
    <3> QED
      BY <1>1, <3>1, <3>2
  <2>2. CASE AlreadyConsumed(r)
    <3> DEFINE q == [proc[r] EXCEPT !.pc = "replay", !.seen = code.issuedTo]
    <3>1. code.issuedTo \in Requests \cup {NoOne}
      BY DEF TypeOK
    <3>2. q \in Attempts /\ q.pc = "replay" /\ q.seen = code.issuedTo /\ ~q.reuse
      BY <1>1, <1>4, <3>1 DEF Attempts, PCs
    <3>3. proc' = [proc EXCEPT ![r] = q] /\ code.consumed
      BY <1>1, <2>2 DEF AlreadyConsumed, Attempts
    <3> QED
      BY <3>2, <3>3
  <2>3. CASE Release(r) \/ ConsumeFailure(r) \/ FinalizeRefused(r) \/ ReplayRejected(r)
    BY <2>3, AttemptFacts DEF Release, ConsumeFailure, FinalizeRefused, ReplayRejected, Return
  <2> QED
    BY <2>1, <2>2, <2>3
<1>6. Moves(r, proc[r], q)
  BY <1>3, <1>5 DEF Moves, Won, BeforeFamily, BeforeGrant, AfterGrant, Last
<1>7. CodeMoves /\ SessionTruthful'
  <2>1. CASE UNCHANGED <<code, session>>
    BY <1>2, <2>1, CodeStays, SessionStays DEF TypeOK
  <2>2. CASE Acquire(r) \/ Release(r)
    <3>1. CodeMoves
      <4>1. CASE Acquire(r)
        <5>1. ~code.consumed /\ code.issuedTo = NoOne
          BY <4>1 DEF Acquire, Winner
        <5> QED
          BY <4>1, <5>1 DEF Acquire, CodeMoves, TypeOK, Code
      <4>2. CASE Release(r)
        BY <4>2 DEF Release, CodeMoves, TypeOK, Code
      <4> QED
        BY <2>2, <4>1, <4>2
    <3> QED
      BY <1>2, <2>2, <3>1, SessionStays DEF CodeMoves, Acquire, Release
  <2>3. CASE ConsumeFailure(r)
    <3>1. CodeMoves
      <4>1. CASE FailureCommits(r)
        <5>1. code' = [code EXCEPT !.consumed = TRUE, !.owner = NoOne, !.lapsed = FALSE]
              /\ (session' = "exchange_failed" \/ session' = session)
          BY <2>3, <4>1 DEF ConsumeFailure
        <5> QED
          BY <5>1 DEF CodeMoves, TypeOK, Code
      <4>2. CASE ~FailureCommits(r)
        BY <2>3, <4>2, CodeStays DEF ConsumeFailure, TypeOK
      <4> QED
        BY <4>1, <4>2
    <3>2. CASE FailureCommits(r)
      <4>1. code.issuedTo = NoOne /\ code'.consumed /\ NoOne \notin Requests
        BY <2>3, <3>2 DEF ConsumeFailure, FailureCommits, OwnLease, TypeOK, ExchangeAssumption
      <4>2. issued = 0 /\ \A x \in Requests : fam[x] = "none"
        BY <4>1 DEF Winner
      <4>3. session' = "exchange_failed" \/ session' = session
        BY <2>3, <3>2 DEF ConsumeFailure
      <4> QED
        BY <1>2, <3>1, <4>1, <4>2, <4>3 DEF SessionTruthful, CodeMoves
    <3>3. CASE ~FailureCommits(r)
      BY <1>2, <2>3, <3>1, <3>3, SessionStays DEF ConsumeFailure, CodeMoves
    <3> QED
      BY <3>1, <3>2, <3>3
  <2> QED
    BY <2>1, <2>2, <2>3 DEF AlreadyConsumed, Authenticate, Gate, FinalizeRefused,
      ReplayRejected, Transient
<1> QED
  BY <1>2, <1>5, <1>6, <1>7, MoveInv

\* The path from finalize to the answer, as far as it creates and answers
\* nothing; the same after a fault.
LEMMA AfterInv ==
    ASSUME ExchangeAssumption, IInv, NEW r \in Requests,
           \/ CompleteSession(r) \/ GrantConflict(r) \/ CheckReplay(r) \/ FinalEpoch(r)
           \/ PostGate(r, "postepoch", "epoch", "postpassword")
           \/ PostGate(r, "postpassword", "password", "grant")
           \/ FinalPassword(r) /\ UNCHANGED issued
           \/ Abort(r) \/ CreationFails(r) \/ CheckFails(r) \/ RevokeFails(r)
    PROVE  IInv'
<1> USE DEF IInv
<1>1. proc \in [Requests -> Attempts] /\ proc[r] \in Attempts /\ faults \in Nat
  BY DEF TypeOK
<1>2. UNCHANGED <<fam, grant, changed, flavor, issued, replayed, code>> /\ faults' \in Nat
      /\ (faults' = 0 => faults = 0)
  <2>1. CASE Abort(r) \/ CreationFails(r) \/ CheckFails(r) \/ RevokeFails(r)
    <3>1. Fault => faults' \in Nat /\ faults' # 0
      BY <1>1 DEF Fault
    <3>2. Fault /\ UNCHANGED <<code, session, authority, changed, flavor, history>>
      BY <2>1 DEF Abort, CreationFails, CheckFails, RevokeFails
    <3> QED
      BY <3>1, <3>2 DEF authority, history
  <2>2. CASE CompleteSession(r)
    BY <1>1, <2>2 DEF CompleteSession, authority, context, history
  <2>3. CASE \/ GrantConflict(r) \/ CheckReplay(r) \/ FinalEpoch(r)
             \/ PostGate(r, "postepoch", "epoch", "postpassword")
             \/ PostGate(r, "postpassword", "password", "grant")
             \/ FinalPassword(r) /\ UNCHANGED issued
    BY <1>1, <2>3 DEF GrantConflict, CheckReplay, FinalEpoch, PostGate, FinalPassword,
      authority, context, history
  <2> QED
    BY <2>1, <2>2, <2>3
<1>3. session' \in {session, "complete"} /\ (session' # session => code.issuedTo # NoOne)
  <2>1. CASE CompleteSession(r)
    <3>1. code.issuedTo = r
      BY <2>1 DEF CompleteSession, Winner, Won, BeforeFamily
    <3> QED
      BY <2>1, <3>1 DEF CompleteSession, ExchangeAssumption
  <2>2. CASE UNCHANGED session
    BY <2>2
  <2> QED
    BY <2>1, <2>2 DEF GrantConflict, CheckReplay, FinalEpoch, PostGate, FinalPassword,
      Abort, CreationFails, CheckFails, RevokeFails
<1>4. CodeMoves /\ SessionTruthful'
  <2>1. CodeMoves
    BY <1>2, <1>3, CodeStays DEF TypeOK
  <2>2. session = "exchange_failed" => code.issuedTo = NoOne
    BY DEF SessionTruthful
  <2> QED
    BY <1>2, <1>3, <2>1 DEF SessionTruthful
<1>5. proc[r].pc \in Won => proc[r].seen = r /\ ~proc[r].reuse
  BY DEF Winner, Replays, Won, BeforeFamily, BeforeGrant, AfterGrant, Last
<1> DEFINE Stays(pc) == proc' = [proc EXCEPT ![r].pc = pc]
           Cleans(todo) == proc' = [proc EXCEPT ![r].pc = "cleanup", ![r].todo = todo]
           Both(todo) == todo \in {<<"family", "grant">>, <<"grant", "family">>}
<1>6. ASSUME NEW pc \in PCs, Stays(pc), proc[r].pc \in Won, Moves(r, proc[r], [proc[r] EXCEPT !.pc = pc])
      PROVE  IInv'
  <2> proc' = [proc EXCEPT ![r] = [proc[r] EXCEPT !.pc = pc]]
    BY <1>1, <1>6
  <2> QED
    BY <1>2, <1>4, <1>6, MoveInv
<1>7. ASSUME NEW todo, Cleans(todo), proc[r].pc \in Won,
             Both(todo) \/ (todo = <<"family">> /\ (faults' = 0 => proc[r].pc \notin AfterGrant))
      PROVE  IInv'
  <2> DEFINE q == [proc[r] EXCEPT !.pc = "cleanup", !.todo = todo]
  <2>1. todo \in Todos
    BY <1>7 DEF Todos
  <2>2. q \in Attempts /\ q.pc = "cleanup" /\ q.todo = todo /\ q.seen = r /\ ~q.reuse
    BY <1>1, <1>5, <1>7, <2>1 DEF Attempts, PCs
  <2>3. proc' = [proc EXCEPT ![r] = q]
    BY <1>1, <1>7 DEF Attempts
  <2> HIDE DEF q
  <2>4. Moves(r, proc[r], q)
    <3>1. Pending(q, "family") /\ (Both(todo) => Pending(q, "grant"))
      BY <1>7, <2>2, PendingFacts
    <3>2. proc[r].pc # "cleanup"
      BY <1>7 DEF Won, BeforeFamily, BeforeGrant, AfterGrant, Last
    <3> QED
      BY <1>7, <2>2, <3>1, <3>2 DEF Moves, Won, BeforeFamily, BeforeGrant, AfterGrant, Last
  <2> QED
    BY <1>2, <1>4, <2>3, <2>4, MoveInv
<1>8. ASSUME Return(r), faults' # 0 PROVE IInv'
  <2> Moves(r, proc[r], Idle)
    BY <1>8, AttemptFacts DEF Moves, Won, BeforeFamily, BeforeGrant, AfterGrant, Last
  <2> QED
    BY <1>2, <1>4, <1>8, MoveInv DEF Return
<1>9. ASSUME NEW pc \in PCs
      PROVE  /\ [proc[r] EXCEPT !.pc = pc] \in Attempts
             /\ [proc[r] EXCEPT !.pc = pc].pc = pc
             /\ [proc[r] EXCEPT !.pc = pc].seen = proc[r].seen
             /\ [proc[r] EXCEPT !.pc = pc].reuse = proc[r].reuse
  BY <1>1 DEF Attempts
<1> USE DEF Won, BeforeFamily, BeforeGrant, AfterGrant, Last
<1>10. CASE CompleteSession(r)
  <2>1. "family" \in PCs /\ Stays("family") /\ proc[r].pc = "session"
    BY <1>10 DEF CompleteSession, Goto, PCs
  <2>2. Moves(r, proc[r], [proc[r] EXCEPT !.pc = "family"])
    BY <1>5, <1>9, <2>1 DEF Moves
  <2> QED
    BY <1>6, <2>1, <2>2
<1>11. CASE GrantConflict(r)
  BY <1>7, <1>11 DEF GrantConflict, Cleanup
<1>12. CASE CheckReplay(r)
  <2>1. CASE code.replay
    BY <1>7, <1>12, <2>1 DEF CheckReplay, Cleanup
  <2>2. CASE ~code.replay
    <3>1. "finalepoch" \in PCs /\ Stays("finalepoch") /\ proc[r].pc = "reuse"
      BY <1>12, <2>2 DEF CheckReplay, Goto, PCs
    <3>2. Moves(r, proc[r], [proc[r] EXCEPT !.pc = "finalepoch"])
      BY <1>5, <1>9, <2>2, <3>1 DEF Moves
    <3> QED
      BY <1>6, <3>1, <3>2
  <2> QED
    BY <2>1, <2>2
<1>13. CASE FinalEpoch(r)
  <2>1. CASE "epoch" \in changed
    BY <1>7, <1>13, <2>1 DEF FinalEpoch, Cleanup
  <2>2. CASE "epoch" \notin changed
    <3>1. "finalpassword" \in PCs /\ Stays("finalpassword") /\ proc[r].pc = "finalepoch"
      BY <1>13, <2>2 DEF FinalEpoch, Goto, PCs
    <3>2. Moves(r, proc[r], [proc[r] EXCEPT !.pc = "finalpassword"])
      BY <1>5, <1>9, <3>1 DEF Moves
    <3> QED
      BY <1>6, <3>1, <3>2
  <2> QED
    BY <2>1, <2>2
<1>14. ASSUME NEW here \in {"postepoch", "postpassword"}, NEW part,
              NEW next \in {"postpassword", "grant"}, PostGate(r, here, part, next)
       PROVE  IInv'
  <2>1. CASE part \in changed
    BY <1>7, <1>14, <2>1 DEF PostGate, Cleanup
  <2>2. CASE part \notin changed
    <3>1. next \in PCs /\ Stays(next) /\ proc[r].pc \in {"postepoch", "postpassword"}
      BY <1>14, <2>2 DEF PostGate, Goto, PCs
    <3>2. Moves(r, proc[r], [proc[r] EXCEPT !.pc = next])
      BY <1>5, <1>9, <3>1 DEF Moves
    <3> QED
      BY <1>6, <3>1, <3>2
  <2> QED
    BY <2>1, <2>2
<1>15. CASE FinalPassword(r) /\ UNCHANGED issued
  <2>1. "password" \in changed
    BY <1>15 DEF FinalPassword, TypeOK
  <2> QED
    BY <1>7, <1>15, <2>1 DEF FinalPassword, Cleanup
<1>16. CASE Abort(r)
  BY <1>1, <1>8, <1>16 DEF Abort, Fault
<1>17. CASE CreationFails(r)
  <2>1. faults' # 0
    BY <1>1, <1>17 DEF CreationFails, Fault
  <2>2. ASSUME NEW pc \in {"postepoch", "reuse"}, Goto(r, pc), proc[r].pc \in {"family", "grant"},
               pc = "postepoch" => proc[r].pc = "family"
        PROVE  IInv'
    <3>1. pc \in PCs /\ Stays(pc)
      BY <2>2 DEF Goto, PCs
    <3>2. Moves(r, proc[r], [proc[r] EXCEPT !.pc = pc])
      BY <1>5, <1>9, <2>1, <2>2, <3>1 DEF Moves
    <3> QED
      BY <1>6, <2>2, <3>1, <3>2
  <2>3. ASSUME NEW todo \in {<<"family">>, <<"family", "grant">>}, Cleanup(r, todo),
               proc[r].pc = "grant"
        PROVE  IInv'
    BY <1>7, <2>1, <2>3 DEF Cleanup
  <2>4. CASE proc[r].pc = "family" /\ Goto(r, "postepoch")
    BY <2>2, <2>4
  <2>5. CASE proc[r].pc = "grant" /\ AfterCreation(r, FALSE)
    <3>1. \/ Cleanup(r, <<"family", "grant">>) \/ Cleanup(r, <<"family">>)
          \/ Return(r) \/ Goto(r, "reuse")
      BY <2>5 DEF AfterCreation
    <3> QED
      BY <1>8, <2>1, <2>2, <2>3, <2>5, <3>1
  <2> QED
    BY <1>17, <2>4, <2>5 DEF CreationFails
<1>18. CASE CheckFails(r)
  <2>1. faults' # 0
    BY <1>1, <1>18 DEF CheckFails, Fault
  <2> QED
    BY <1>7, <1>18, <2>1 DEF CheckFails, Cleanup
<1>19. CASE RevokeFails(r)
  <2> DEFINE q == [proc[r] EXCEPT !.todo = Tail(@), !.failed = TRUE]
  <2>1. /\ q \in Attempts /\ q.pc = "cleanup" /\ q.seen = proc[r].seen /\ q.failed
        /\ q.reuse = proc[r].reuse
    BY <1>1, <1>19, TailFacts DEF RevokeFails, Attempts
  <2>2. proc' = [proc EXCEPT ![r] = q]
    BY <1>1, <1>19 DEF RevokeFails, Attempts
  <2>3. faults' # 0
    BY <1>1, <1>19 DEF RevokeFails, Fault
  <2> HIDE DEF q
  <2>4. Moves(r, proc[r], q)
    BY <2>1, <2>3 DEF Moves
  <2> QED
    BY <1>2, <1>4, <2>2, <2>4, MoveInv
<1> QED
  BY <1>10, <1>11, <1>12, <1>13, <1>14, <1>15, <1>16, <1>17, <1>18, <1>19

\* The code is exchanged: nothing was created or answered before.
LEMMA FinalizeInv ==
    ASSUME ExchangeAssumption, IInv, NEW r \in Requests, Finalize(r)
    PROVE  IInv'
<1> USE DEF IInv
<1> DEFINE q == [proc[r] EXCEPT !.pc = "session", !.seen = r]
<1>1. ~code.consumed /\ code.issuedTo = NoOne /\ ~code.replay /\ proc[r].pc = "sign"
  BY DEF Finalize, OwnLease, Winner
<1>2. NoOne \notin Requests /\ issued = 0 /\ ~replayed
      /\ \A x \in Requests : /\ proc[x].pc \notin Won /\ fam[x] = "none" /\ grant[x] = "none"
                             /\ ~proc[x].reuse /\ proc[x].pc # "replay"
  <2>1. ~replayed
    BY <1>1 DEF Replays, Told
  <2> QED
    BY <1>1, <2>1 DEF ExchangeAssumption, Winner, Replays
<1>3. q \in Attempts /\ q.pc = "session" /\ q.seen = r /\ ~q.reuse
  <2> proc[r] \in Attempts
    BY DEF TypeOK
  <2> QED
    BY <1>2 DEF Attempts, PCs
<1>4. /\ proc' = [proc EXCEPT ![r] = q]
      /\ proc'[r] = q /\ \A x \in Requests : x # r => proc'[x] = proc[x]
      /\ UNCHANGED <<session, fam, grant, changed, flavor, faults, issued, replayed>>
  BY DEF Finalize, TypeOK, Attempts, authority, context, history
<1>5. code' \in Code /\ code'.consumed /\ code'.owner = NoOne /\ ~code'.lapsed
      /\ code'.issuedTo = r /\ ~code'.replay
  BY <1>1 DEF Finalize, TypeOK, Code
<1> HIDE DEF q
<1>6. TypeOK'
  BY <1>3, <1>4, <1>5 DEF TypeOK, Code
<1>7. Winner'
  BY <1>2, <1>3, <1>4, <1>5 DEF Winner, Won
<1>8. Replays' /\ Cleanups'
  BY <1>2, <1>3, <1>4 DEF Replays, Cleanups
<1>9. SessionTruthful'
  BY <1>1, <1>4, <1>5 DEF SessionTruthful
<1> QED
  BY <1>6, <1>7, <1>8, <1>9

\* The family and the Grant: nobody but the winner creates one, and where a
\* replay has revoked before, the code bears its mark.
LEMMA CreateInv ==
    ASSUME ExchangeAssumption, IInv, NEW r \in Requests, CreateFamily(r) \/ CreateGrant(r)
    PROVE  IInv'
<1> USE DEF IInv
<1>1. proc[r] \in Attempts /\ proc \in [Requests -> Attempts]
  BY DEF TypeOK
<1>2. /\ proc[r].pc \in {"family", "grant"} /\ code.issuedTo = r /\ proc[r].seen = r /\ issued = 0
      /\ code.consumed /\ ~proc[r].reuse /\ NoOne \notin Requests
      /\ \A x \in Requests : x # r => proc[x].pc \notin Won /\ fam[x] = "none" /\ grant[x] = "none"
  <2>1. proc[r].pc \in {"family", "grant"}
    BY DEF CreateFamily, CreateGrant
  <2>2. code.issuedTo = r /\ proc[r].seen = r /\ issued = 0 /\ ~proc[r].reuse
    BY <2>1 DEF Winner, Replays, Won, BeforeFamily, BeforeGrant
  <2>3. NoOne \notin Requests /\ code.consumed
    BY <2>2 DEF Winner, ExchangeAssumption
  <2> QED
    BY <2>1, <2>2, <2>3 DEF Winner
<1>3. UNCHANGED <<code, session, changed, flavor, faults, issued, replayed>>
  BY DEF CreateFamily, CreateGrant, context, history
<1>4. PICK q \in Attempts :
        /\ proc' = [proc EXCEPT ![r] = q] /\ ~q.reuse /\ q.seen = r
        /\ \/ /\ CreateFamily(r) /\ q.pc = "postepoch"
           \/ /\ CreateGrant(r)
              /\ \/ q.pc = "reuse"
                 \/ q.pc = "cleanup" /\ Pending(q, "family") /\ Pending(q, "grant")
  <2>1. CASE CreateFamily(r)
    <3> DEFINE q == [proc[r] EXCEPT !.pc = "postepoch"]
    <3>1. q \in Attempts /\ ~q.reuse /\ q.seen = r /\ q.pc = "postepoch"
      BY <1>1, <1>2 DEF Attempts, PCs
    <3>2. proc' = [proc EXCEPT ![r] = q]
      BY <1>1, <2>1 DEF CreateFamily, Goto
    <3> QED
      BY <2>1, <3>1, <3>2
  <2>2. CASE CreateGrant(r) /\ Goto(r, "reuse")
    <3> DEFINE q == [proc[r] EXCEPT !.pc = "reuse"]
    <3>1. q \in Attempts /\ ~q.reuse /\ q.seen = r /\ q.pc = "reuse"
      BY <1>1, <1>2 DEF Attempts, PCs
    <3>2. proc' = [proc EXCEPT ![r] = q]
      BY <1>1, <2>2 DEF Goto
    <3> QED
      BY <2>2, <3>1, <3>2
  <2>3. CASE CreateGrant(r) /\ Cleanup(r, <<"family", "grant">>)
    <3> DEFINE q == [proc[r] EXCEPT !.pc = "cleanup", !.todo = <<"family", "grant">>]
    <3>1. q \in Attempts /\ ~q.reuse /\ q.seen = r /\ q.pc = "cleanup"
          /\ q.todo = <<"family", "grant">>
      BY <1>1, <1>2 DEF Attempts, PCs, Todos
    <3>2. proc' = [proc EXCEPT ![r] = q]
      BY <1>1, <2>3 DEF Cleanup, Attempts
    <3> HIDE DEF q
    <3> QED
      BY <2>3, <3>1, <3>2, PendingFacts
  <2> QED
    <3>1. CreateGrant(r) => Goto(r, "reuse") \/ Cleanup(r, <<"family", "grant">>)
      BY DEF CreateGrant, AfterCreation
    <3> QED
      BY <2>1, <2>2, <2>3, <3>1
<1>5. proc'[r] = q /\ \A x \in Requests : x # r => proc'[x] = proc[x]
  BY <1>1, <1>4
<1>6. /\ fam' \in [Requests -> Status] /\ grant' \in [Requests -> Status]
      /\ \A x \in Requests : x # r => fam'[x] = fam[x] /\ grant'[x] = grant[x]
      /\ CreateFamily(r) => grant' = grant
      /\ CreateGrant(r) => fam' = fam /\ proc[r].pc = "grant"
      /\ CreateFamily(r) => proc[r].pc = "family"
  BY DEF CreateFamily, CreateGrant, TypeOK, Status
<1>7. TypeOK'
  BY <1>3, <1>4, <1>5, <1>6 DEF TypeOK
<1>8. Winner'
  <2>1. q.pc \in BeforeFamily \cup BeforeGrant => CreateFamily(r)
    BY <1>4 DEF BeforeFamily, BeforeGrant
  <2>2. q.pc \notin BeforeFamily /\ (CreateFamily(r) => grant'[r] = "none")
    BY <1>4, <1>6, <1>2 DEF BeforeFamily, BeforeGrant, Winner
  <2> QED
    BY <1>2, <1>3, <1>4, <1>5, <1>6, <2>1, <2>2 DEF Winner
<1>9. Barren => Barren'
  BY <1>2, <1>3, <1>4, <1>5 DEF Barren, Won, BeforeFamily, BeforeGrant, AfterGrant, Last
<1>10. Replays'
  <2>1. proc[r].pc \in Won /\ proc[r].pc \notin AfterGrant
    BY <1>2 DEF Won, BeforeFamily, BeforeGrant, AfterGrant, Last
  <2>2. \A x \in Requests : proc'[x].reuse => x # r /\ proc'[x] = proc[x]
    BY <1>4, <1>5
  <2>3. \A x \in Requests : proc'[x].pc = "replay" => x # r /\ proc'[x] = proc[x]
    BY <1>4, <1>5
  <2> QED
    BY <1>3, <1>9, <2>1, <2>2, <2>3 DEF Replays, Told
<1>11. Cleanups'
  <2> SUFFICES ASSUME faults = 0, NEW x \in Requests
               PROVE  /\ fam'[x] = "active" => Answered(x, "family", BeforeGrant \cup AfterGrant)'
                      /\ grant'[x] = "active" => Answered(x, "grant", AfterGrant)'
    BY <1>3 DEF Cleanups
  <2>1. CASE x = r
    <3>1. CreateFamily(r) => grant'[r] = "none"
      BY <1>2, <1>6 DEF Winner, BeforeFamily, BeforeGrant
    <3> QED
      BY <1>4, <1>5, <2>1, <3>1 DEF Answered, BeforeGrant, AfterGrant
  <2>2. CASE x # r
    BY <1>2, <1>6, <2>2
  <2> QED
    BY <2>1, <2>2
<1>12. SessionTruthful'
  BY <1>2, <1>3 DEF SessionTruthful
<1> QED
  BY <1>7, <1>8, <1>10, <1>11, <1>12

\* The answer: it is the first one, and a replay that revoked before it met both
\* records.
LEMMA AnswerInv ==
    ASSUME ExchangeAssumption, IInv, NEW r \in Requests, FinalPassword(r), issued' # issued
    PROVE  IInv'
<1> USE DEF IInv
<1>1. proc[r].pc = "finalpassword" /\ Return(r) /\ issued' = issued + 1
      /\ UNCHANGED <<code, session, fam, grant, changed, flavor, faults, replayed>>
  BY DEF FinalPassword, authority, context
<1>2. code.issuedTo = r /\ issued = 0 /\ ~proc[r].reuse /\ NoOne \notin Requests
      /\ \A x \in Requests : x # r => proc[x].pc \notin Won
  <2>1. code.issuedTo = r /\ issued = 0 /\ ~proc[r].reuse
    BY <1>1 DEF Winner, Replays, Won, AfterGrant, Last
  <2> QED
    BY <2>1 DEF Winner, ExchangeAssumption
<1>3. proc' \in [Requests -> Attempts] /\ proc'[r] = Idle
      /\ \A x \in Requests : x # r => proc'[x] = proc[x]
  BY <1>1, AttemptFacts DEF Return, TypeOK
<1>4. \A x \in Requests : proc'[x].pc \notin Won
  BY <1>2, <1>3, AttemptFacts DEF Won, BeforeFamily, BeforeGrant, AfterGrant, Last
<1>5. ~Barren
  BY <1>1 DEF Barren, Last
<1>6. TypeOK'
  BY <1>1, <1>2, <1>3 DEF TypeOK
<1>7. Winner'
  BY <1>1, <1>2, <1>4 DEF Winner, Won
<1>8. Replays'
  <2>1. replayed' => Told'
    BY <1>1, <1>4, <1>5 DEF Replays, Told, Dead
  <2>2. \A x \in Requests : proc'[x].reuse \/ proc'[x].pc = "replay" => proc'[x] = proc[x]
    BY <1>3, AttemptFacts
  <2> QED
    BY <1>1, <1>4, <1>5, <2>1, <2>2 DEF Replays, Dead
<1>9. Cleanups' /\ SessionTruthful'
  BY <1>1, <1>2 DEF Cleanups, Answered, SessionTruthful
<1> QED
  BY <1>6, <1>7, <1>8, <1>9

\* A replay marks the code: whoever is still to create something will see the mark,
\* and what is there already is on the list of the replay.
LEMMA RecordInv ==
    ASSUME ExchangeAssumption, IInv, NEW r \in Requests, RecordReplay(r)
    PROVE  IInv'
<1> USE DEF IInv
<1>1. proc \in [Requests -> Attempts] /\ proc[r] \in Attempts /\ proc[r].pc = "replay"
      /\ UNCHANGED <<session, fam, grant, changed, flavor, faults, issued, replayed>>
  BY DEF RecordReplay, TypeOK, authority, context, history
<1>2. code.consumed /\ proc[r].seen = code.issuedTo /\ proc[r].pc \notin Won
  BY <1>1 DEF Replays, Won, BeforeFamily, BeforeGrant, AfterGrant, Last
<1>3. CASE code.expired
  <2>1. Moves(r, proc[r], Idle)
    BY <1>1, AttemptFacts DEF Moves, Won, BeforeFamily, BeforeGrant, AfterGrant, Last
  <2>2. CodeMoves /\ SessionTruthful' /\ Return(r)
    BY <1>1, <1>3, CodeStays, SessionStays DEF RecordReplay, TypeOK
  <2>3. faults' \in Nat /\ (faults' = 0 => faults = 0)
    BY <1>1 DEF TypeOK
  <2> QED
    BY <1>1, <2>1, <2>2, <2>3, MoveInv DEF Return
<1>4. CASE ~code.expired
  <2> DEFINE todo == IF proc[r].seen = NoOne THEN <<>> ELSE <<"grant", "family">>
             q == [proc[r] EXCEPT !.pc = "cleanup", !.reuse = TRUE, !.todo = todo]
  <2>1. todo \in Todos
    BY DEF Todos
  <2>2. q \in Attempts /\ q.pc = "cleanup" /\ q.reuse /\ q.seen = code.issuedTo /\ q.todo = todo
    BY <1>1, <1>2, <2>1 DEF Attempts, PCs
  <2>3. proc' = [proc EXCEPT ![r] = q] /\ code' = [code EXCEPT !.replay = TRUE]
    BY <1>1, <1>4 DEF RecordReplay, Attempts
  <2> HIDE DEF q
  <2>4. proc'[r] = q /\ \A x \in Requests : x # r => proc'[x] = proc[x]
    BY <1>1, <2>3
  <2>5. code' \in Code /\ code'.replay /\ code'.consumed /\ code'.issuedTo = code.issuedTo
        /\ code'.owner = code.owner /\ code'.lapsed = code.lapsed
    BY <1>2, <2>3 DEF TypeOK, Code
  <2>6. q.pc \notin Won
    BY <2>2 DEF Won, BeforeFamily, BeforeGrant, AfterGrant, Last
  <2>7. TypeOK'
    <3> proc' \in [Requests -> Attempts]
      BY <1>1, <2>2, <2>3
    <3> QED
      BY <1>1, <1>2, <2>5 DEF TypeOK, Code
  <2>8. Winner'
    BY <1>1, <2>4, <2>5, <2>6 DEF Winner, Won
  <2>9. Barren => Barren'
    BY <1>1, <2>4, <2>5, <2>6 DEF Barren, Won, AfterGrant
  <2>10. \/ Barren'
         \/ /\ Pending(q, "family") /\ Pending(q, "grant")
            /\ \A x \in Requests : proc[x].pc \in Won => proc[x].pc \in AfterGrant
    <3>1. CASE issued = 1
      <4>1. code.issuedTo # NoOne
        BY <3>1 DEF Winner
      <4> QED
        BY <1>2, <2>2, <3>1, <4>1, PendingFacts DEF Winner
    <3>2. CASE \E w \in Requests : proc[w].pc \in Last
      <4>1. PICK w \in Requests : proc[w].pc \in Last
        BY <3>2
      <4>2. code.issuedTo = w /\ NoOne \notin Requests
        BY <4>1 DEF Winner, Won, AfterGrant, ExchangeAssumption
      <4>3. \A x \in Requests : proc[x].pc \in Won => x = w
        BY <4>2 DEF Winner
      <4> QED
        BY <1>2, <2>2, <4>1, <4>2, <4>3, PendingFacts DEF AfterGrant
    <3>3. CASE issued # 1 /\ \A w \in Requests : proc[w].pc \notin Last
      <4>1. issued = 0 /\ \A w \in Requests : proc'[w].pc \notin Last
        BY <2>4, <2>6, <3>3 DEF Winner, Won, AfterGrant
      <4> QED
        BY <1>1, <2>5, <4>1 DEF Barren
    <3> QED
      BY <3>1, <3>2, <3>3
  <2>11. (\A x \in Requests : proc[x].pc \in Won => proc[x].pc \in AfterGrant)
           => \A x \in Requests : proc'[x].pc \in Won => proc'[x].pc \in AfterGrant
    BY <2>4, <2>6
  <2>12. Replays'
    <3>1. replayed' => Told'
      BY <1>1, <2>5, <2>9, <2>11 DEF Replays, Told, Dead
    <3>2. ASSUME NEW x \in Requests
          PROVE  /\ proc'[x].reuse => proc'[x].pc = "cleanup" /\ code'.replay
                 /\ proc'[x].pc = "replay" \/ proc'[x].reuse
                      => code'.consumed /\ proc'[x].seen = code'.issuedTo
                 /\ proc'[x].reuse /\ ~proc'[x].failed
                      => \/ Barren'
                         \/ /\ Pending(proc'[x], "family") \/ Dead(fam)'
                            /\ Pending(proc'[x], "grant") \/ Dead(grant)'
                            /\ \A y \in Requests : proc'[y].pc \in Won => proc'[y].pc \in AfterGrant
      <4>1. CASE x = r
        BY <2>2, <2>4, <2>5, <2>10, <2>11, <4>1
      <4>2. CASE x # r
        <5>1. proc'[x] = proc[x]
          BY <2>4, <4>2
        <5> QED
          BY <1>1, <2>5, <2>9, <2>11, <5>1 DEF Replays, Dead
      <4> QED
        BY <4>1, <4>2
    <3> QED
      BY <3>1, <3>2 DEF Replays
  <2>13. Cleanups'
    <3> SUFFICES ASSUME faults = 0, NEW x \in Requests
                 PROVE  /\ fam[x] = "active" => Answered(x, "family", BeforeGrant \cup AfterGrant)'
                        /\ grant[x] = "active" => Answered(x, "grant", AfterGrant)'
      BY <1>1 DEF Cleanups
    <3>1. CASE x = r
      BY <1>1, <1>2, <3>1 DEF Cleanups, Answered, Won
    <3>2. CASE x # r
      BY <1>1, <2>4, <3>2 DEF Cleanups, Answered
    <3> QED
      BY <3>1, <3>2
  <2>14. SessionTruthful'
    BY <1>1, <1>2, <2>5, SessionStays
  <2> QED
    BY <2>7, <2>8, <2>12, <2>13, <2>14
<1> QED
  BY <1>3, <1>4

\* A revocation: what it takes off the list is revoked.
LEMMA RevokeInv ==
    ASSUME ExchangeAssumption, IInv, NEW r \in Requests, Revoke(r)
    PROVE  IInv'
<1> USE DEF IInv
<1> DEFINE p == proc[r]
           q == [p EXCEPT !.todo = Tail(@)]
<1>1. proc \in [Requests -> Attempts] /\ p \in Attempts /\ p.pc = "cleanup" /\ p.todo # <<>>
      /\ UNCHANGED <<code, session, changed, flavor, faults, issued, replayed>>
  BY DEF Revoke, TypeOK, context, history
<1>2. /\ q \in Attempts /\ q.pc = "cleanup" /\ q.seen = p.seen /\ q.reuse = p.reuse
      /\ q.failed = p.failed
      /\ \A k \in Kinds : Pending(p, k) => Head(p.todo) = k \/ Pending(q, k)
  BY <1>1, AttemptFacts
<1>3. proc' = [proc EXCEPT ![r] = q]
  BY <1>1 DEF Revoke, Attempts
<1> HIDE DEF q
<1>4. proc'[r] = q /\ \A x \in Requests : x # r => proc'[x] = proc[x]
  BY <1>1, <1>3
<1>5. \A x \in Requests : proc'[x].pc = proc[x].pc
  BY <1>1, <1>2, <1>4
<1>6. /\ fam' \in [Requests -> Status] /\ grant' \in [Requests -> Status]
      /\ \A x \in Requests : fam'[x] = "active" => fam[x] = "active"
      /\ \A x \in Requests : grant'[x] = "active" => grant[x] = "active"
      /\ \A x \in Requests : fam'[x] = "none" <=> fam[x] = "none"
      /\ \A x \in Requests : grant'[x] = "none" <=> grant[x] = "none"
  BY DEF Revoke, Revoked, TypeOK, Status
<1>7. /\ Head(p.todo) = "family" => \A x \in Requests : x = p.seen => fam'[x] # "active"
      /\ Head(p.todo) = "grant" => \A x \in Requests : x = p.seen => grant'[x] # "active"
  BY DEF Revoke, Revoked, TypeOK
<1>8. TypeOK'
  <2> proc' \in [Requests -> Attempts]
    BY <1>1, <1>2, <1>3
  <2> QED
    BY <1>1, <1>6 DEF TypeOK
<1>9. Winner'
  BY <1>1, <1>2, <1>4, <1>5, <1>6 DEF Winner, Won, BeforeFamily, BeforeGrant, AfterGrant, Last
<1>10. (Barren => Barren') /\ (Dead(fam) => Dead(fam)') /\ (Dead(grant) => Dead(grant)')
  BY <1>1, <1>5, <1>6 DEF Barren, Dead
<1>11. Replays'
  <2>1. replayed' => Told'
    BY <1>1, <1>5, <1>10 DEF Replays, Told
  <2>2. ASSUME NEW x \in Requests
        PROVE  /\ proc'[x].reuse => proc'[x].pc = "cleanup" /\ code'.replay
               /\ proc'[x].pc = "replay" \/ proc'[x].reuse
                    => code'.consumed /\ proc'[x].seen = code'.issuedTo
               /\ proc'[x].reuse /\ ~proc'[x].failed
                    => \/ Barren'
                       \/ /\ Pending(proc'[x], "family") \/ Dead(fam)'
                          /\ Pending(proc'[x], "grant") \/ Dead(grant)'
                          /\ \A y \in Requests : proc'[y].pc \in Won => proc'[y].pc \in AfterGrant
    <3>1. CASE x = r
      <4>1. ASSUME p.reuse
            PROVE  /\ Head(p.todo) = "family" => Dead(fam)'
                   /\ Head(p.todo) = "grant" => Dead(grant)'
        <5>1. p.seen = code.issuedTo
          BY <4>1 DEF Replays
        <5>2. \A y \in Requests : y # p.seen => fam[y] = "none" /\ grant[y] = "none"
          BY <5>1 DEF Winner
        <5> QED
          BY <1>6, <1>7, <5>2 DEF Dead
      <4>2. \A k \in Kinds : Pending(p, k) => Head(p.todo) = k \/ Pending(q, k)
        BY <1>2
      <4>3. p.reuse => p.seen = code.issuedTo /\ code.replay /\ code.consumed
        BY DEF Replays
      <4>4. p.reuse /\ ~p.failed
              => \/ Barren
                 \/ /\ Pending(p, "family") \/ Dead(fam)
                    /\ Pending(p, "grant") \/ Dead(grant)
                    /\ \A y \in Requests : proc[y].pc \in Won => proc[y].pc \in AfterGrant
        BY DEF Replays
      <4> QED
        BY <1>1, <1>2, <1>4, <1>5, <1>10, <3>1, <4>1, <4>2, <4>3, <4>4 DEF Kinds
    <3>2. CASE x # r
      <4>1. proc'[x] = proc[x]
        BY <1>4, <3>2
      <4> QED
        BY <1>1, <1>5, <1>10, <4>1 DEF Replays
    <3> QED
      BY <3>1, <3>2
  <2> QED
    BY <2>1, <2>2 DEF Replays
<1>12. Cleanups'
  <2> SUFFICES ASSUME faults = 0, NEW x \in Requests
               PROVE  /\ fam'[x] = "active" => Answered(x, "family", BeforeGrant \cup AfterGrant)'
                      /\ grant'[x] = "active" => Answered(x, "grant", AfterGrant)'
    BY <1>1 DEF Cleanups
  <2>1. CASE x = r
    BY <1>1, <1>2, <1>4, <1>6, <1>7, <2>1 DEF Cleanups, Answered, Kinds, BeforeGrant, AfterGrant, Last
  <2>2. CASE x # r
    BY <1>1, <1>4, <1>6, <2>2 DEF Cleanups, Answered
  <2> QED
    BY <2>1, <2>2
<1>13. SessionTruthful'
  BY <1>1, <1>6 DEF SessionTruthful
<1> QED
  BY <1>8, <1>9, <1>11, <1>12, <1>13

\* The end of a cleanup: a replay that revoked all it had to may say so.
LEMMA CleanedInv ==
    ASSUME ExchangeAssumption, IInv, NEW r \in Requests, Cleaned(r)
    PROVE  IInv'
<1> USE DEF IInv
<1>1. proc[r].pc = "cleanup" /\ proc[r].todo = <<>> /\ Return(r)
      /\ replayed' = (replayed \/ (proc[r].reuse /\ ~proc[r].failed))
      /\ UNCHANGED <<code, session, fam, grant, changed, flavor, faults, issued>>
  BY DEF Cleaned, authority, context
<1>2. ~Pending(proc[r], "family") /\ ~Pending(proc[r], "grant")
  BY <1>1, PendingFacts
<1>3. \/ replayed' = replayed
      \/ replayed' = TRUE /\ Told
  <2>1. CASE proc[r].reuse /\ ~proc[r].failed
    BY <1>1, <1>2, <2>1 DEF Replays, Told
  <2>2. CASE ~(proc[r].reuse /\ ~proc[r].failed)
    BY <1>1, <2>2 DEF TypeOK
  <2> QED
    BY <2>1, <2>2
<1>4. Moves(r, proc[r], Idle)
  BY <1>1, AttemptFacts DEF Moves, Won, BeforeFamily, BeforeGrant, AfterGrant, Last
<1>5. CodeMoves /\ SessionTruthful' /\ faults' \in Nat /\ (faults' = 0 => faults = 0)
  BY <1>1, CodeStays, SessionStays DEF TypeOK
<1> QED
  BY <1>1, <1>3, <1>4, <1>5, MoveInv DEF Return

\* Expiry and the change of the user's authority touch none of the parts that the
\* other invariants relate.
LEMMA ContextInv ==
    ASSUME IInv, Lapse \/ Expire \/ ChangeAuthority \/ UNCHANGED vars
    PROVE  IInv'
<1> USE DEF IInv
<1>1. UNCHANGED <<session, fam, grant, flavor, proc, faults, issued, replayed>>
  BY DEF Lapse, Expire, ChangeAuthority, vars, authority, context, history
<1>2. /\ code' \in Code /\ code'.consumed = code.consumed /\ code'.owner = code.owner
      /\ code'.issuedTo = code.issuedTo /\ code'.replay = code.replay
      /\ code'.lapsed => code'.owner # NoOne
  BY DEF Lapse, Expire, ChangeAuthority, vars, TypeOK, Code
<1>3. changed' \subseteq {"epoch", "password"}
  BY DEF Lapse, Expire, ChangeAuthority, vars, context, TypeOK
<1>4. TypeOK'
  BY <1>1, <1>2, <1>3 DEF TypeOK, Code
<1>5. Winner' /\ SessionTruthful'
  BY <1>1, <1>2 DEF Winner, SessionTruthful
<1>6. Replays'
  BY <1>1, <1>2 DEF Replays, Told, Barren, Dead
<1>7. Cleanups'
  BY <1>1 DEF Cleanups, Answered
<1> QED
  BY <1>4, <1>5, <1>6, <1>7

LEMMA InitInv ==
    ASSUME ExchangeAssumption, Init
    PROVE  IInv
<1>1. \A r \in Requests : proc[r] = Idle
  BY DEF Init
<1>2. TypeOK
  BY AttemptFacts DEF Init, TypeOK, Status, ExchangeAssumption
<1>3. Winner /\ SessionTruthful
  BY <1>1, AttemptFacts DEF Init, Winner, SessionTruthful, Won, BeforeFamily, BeforeGrant,
    AfterGrant, Last
<1>4. Replays /\ Cleanups
  BY <1>1, AttemptFacts DEF Init, Replays, Cleanups
<1> QED
  BY <1>2, <1>3, <1>4 DEF IInv

LEMMA NextInv ==
    ASSUME ExchangeAssumption, IInv, [Next]_vars
    PROVE  IInv'
<1>1. CASE Lapse \/ Expire \/ ChangeAuthority \/ UNCHANGED vars
  BY <1>1, ContextInv
<1>2. ASSUME NEW r \in Requests,
             Acquire(r) \/ AlreadyConsumed(r) \/ Continue(r) \/ Interfere(r)
      PROVE  IInv'
  <2>1. CASE FinalPassword(r)
    BY <2>1, AfterInv, AnswerInv
  <2>2. CASE Acquire(r) \/ AlreadyConsumed(r)
    BY <2>2, BeforeInv
  <2>3. CASE Interfere(r)
    BY <2>3, AfterInv, BeforeInv DEF Interfere
  <2>4. CASE Continue(r)
    BY <2>1, <2>4, BeforeInv, AfterInv, FinalizeInv, CreateInv, RecordInv, RevokeInv, CleanedInv
      DEF Continue
  <2> QED
    BY <1>2, <2>2, <2>3, <2>4
<1> QED
  BY <1>1, <1>2 DEF Next

-----------------------------------------------------------------------------
\* The inductive invariant holds in every reachable state.
THEOREM Invariance ==
    ASSUME ExchangeAssumption
    PROVE  Spec => []IInv
<1>1. Init => IInv
  BY InitInv
<1>2. IInv /\ [Next]_vars => IInv'
  BY NextInv
<1> QED
  BY <1>1, <1>2, PTL DEF Spec

\* Every reachable state has the type that TypeOK states.
THEOREM TypeCorrect ==
    ASSUME ExchangeAssumption
    PROVE  Spec => []TypeOK
<1>1. IInv => TypeOK
  BY DEF IInv
<1> QED
  BY <1>1, Invariance, PTL

\* One code yields one token response and one family at most, however many requests
\* present it and however its leases lapse.
THEOREM OneIssue ==
    ASSUME ExchangeAssumption
    PROVE  Spec => []SingleIssue
<1>1. IInv => SingleIssue
  BY DEF IInv, Winner, SingleIssue
<1> QED
  BY <1>1, Invariance, PTL

\* Once a replay was answered as one, nothing the code was exchanged for is usable.
THEOREM ReplayIsFatal ==
    ASSUME ExchangeAssumption
    PROVE  Spec => []ReplayRevokes
<1>1. IInv => ReplayRevokes
  <2> SUFFICES ASSUME Replays, replayed, issued > 0
               PROVE  Dead(fam) /\ Dead(grant)
    BY DEF IInv, ReplayRevokes, Dead
  <2> QED
    BY DEF Replays, Told, Barren
<1> QED
  BY <1>1, Invariance, PTL

\* Without a fault, an exchange that hands out nothing leaves nothing usable behind.
THEOREM NothingStrands ==
    ASSUME ExchangeAssumption
    PROVE  Spec => []NoStrandedAuthority
<1>1. IInv => NoStrandedAuthority
  <2> SUFFICES ASSUME Cleanups, \A r \in Requests : proc[r].pc = "idle", faults = 0, issued = 0,
                      NEW r \in Requests
               PROVE  fam[r] # "active" /\ grant[r] # "active"
    BY DEF IInv, NoStrandedAuthority
  <2> QED
    BY DEF Cleanups, Answered, BeforeGrant, AfterGrant, Last
<1> QED
  BY <1>1, Invariance, PTL

\* The session tells what became of the code.
THEOREM SessionIsTruthful ==
    ASSUME ExchangeAssumption
    PROVE  Spec => []SessionTruthful
<1>1. IInv => SessionTruthful
  BY DEF IInv
<1> QED
  BY <1>1, Invariance, PTL

-----------------------------------------------------------------------------
\* What a step that leaves the lease alone leaves alone.
LEMMA LeaseStays ==
    ASSUME code'.consumed = code.consumed, code'.issuedTo = code.issuedTo,
           code'.owner = code.owner, code'.lapsed = code.lapsed
    PROVE  UNCHANGED Lease!vars
  BY DEF Lease!vars, LeaseOfCode

LEMMA LeaseInit ==
    ASSUME Init
    PROVE  Lease!Init
  BY DEF Init, Lease!Init, LeaseOfCode

LEMMA LeaseNext ==
    ASSUME ExchangeAssumption, IInv, [Next]_vars
    PROVE  [Lease!Next]_(Lease!vars)
<1> USE DEF IInv
<1>1. code \in Code /\ (code.lapsed => code.owner # NoOne) /\ NoOne \notin Requests
      /\ (code.owner # NoOne => ~code.consumed /\ code.issuedTo = NoOne)
      /\ (code.issuedTo # NoOne => code.consumed)
  BY DEF TypeOK, Code, Winner, ExchangeAssumption
<1>2. CASE UNCHANGED code
  BY <1>2, LeaseStays
<1>3. CASE Expire
  BY <1>1, <1>3, LeaseStays DEF Expire, Code
<1>4. CASE Lapse
  <2>1. LeaseOfCode = "Signing" /\ LeaseOfCode' = "Signing" /\ code'.lapsed = TRUE
        /\ code'.owner = code.owner
    BY <1>1, <1>4 DEF Lapse, LeaseOfCode, Code
  <2> QED
    BY <2>1 DEF Lease!Next, Lease!Lapse
<1>5. ASSUME NEW r \in Requests, Acquire(r)
      PROVE  Lease!Next
  <2>1. /\ LeaseOfCode = "Idle" \/ (LeaseOfCode = "Signing" /\ code.lapsed)
        /\ LeaseOfCode' = "Signing" /\ code'.owner \in Requests /\ code'.lapsed = FALSE
    BY <1>1, <1>5 DEF Acquire, LeaseFree, LeaseOfCode, Code
  <2> QED
    BY <2>1 DEF Lease!Next, Lease!Acquire
<1>6. ASSUME NEW r \in Requests, Release(r), OwnLease(r)
      PROVE  Lease!Next
  <2>1. LeaseOfCode = "Signing" /\ LeaseOfCode' = "Idle" /\ code'.owner = NoOne
        /\ code'.lapsed = FALSE
    BY <1>1, <1>6 DEF Release, OwnLease, LeaseOfCode, Code
  <2>2. Lease!Resolve("KmsTransient")
    BY <2>1 DEF Lease!Resolve, Lease!Resolution
  <2> QED
    BY <2>2 DEF Lease!Next, Lease!Outcomes
<1>7. ASSUME NEW r \in Requests, ConsumeFailure(r), FailureCommits(r)
      PROVE  Lease!Next
  <2>1. LeaseOfCode = "Signing" /\ LeaseOfCode' = "ExchangeFailed" /\ code'.owner = NoOne
        /\ code'.lapsed = FALSE
    BY <1>1, <1>7 DEF ConsumeFailure, FailureCommits, OwnLease, LeaseOfCode, Code
  <2>2. Lease!Resolve("SemanticFailure")
    BY <2>1 DEF Lease!Resolve, Lease!Resolution
  <2> QED
    BY <2>2 DEF Lease!Next, Lease!Outcomes
<1>8. ASSUME NEW r \in Requests, Finalize(r)
      PROVE  Lease!Next
  <2>1. LeaseOfCode = "Signing" /\ LeaseOfCode' = "Finalized" /\ code'.owner = NoOne
        /\ code'.lapsed = FALSE
    BY <1>1, <1>8 DEF Finalize, OwnLease, LeaseOfCode, Code
  <2>2. Lease!Resolve("Success")
    BY <2>1 DEF Lease!Resolve, Lease!Resolution
  <2> QED
    BY <2>2 DEF Lease!Next, Lease!Outcomes
<1>9. ASSUME NEW r \in Requests, RecordReplay(r)
      PROVE  UNCHANGED Lease!vars
  <2> code'.consumed = code.consumed /\ code'.issuedTo = code.issuedTo
      /\ code'.owner = code.owner /\ code'.lapsed = code.lapsed
    BY <1>1, <1>9 DEF RecordReplay, Code
  <2> QED
    BY LeaseStays
<1>10. ASSUME NEW r \in Requests, Continue(r)
       PROVE  \/ UNCHANGED code \/ Finalize(r) \/ RecordReplay(r)
              \/ Release(r) /\ OwnLease(r)
              \/ ConsumeFailure(r) /\ FailureCommits(r)
  BY <1>10 DEF Continue, Authenticate, Gate, FinalizeRefused, Release, ConsumeFailure,
    CompleteSession, CreateFamily, PostGate, CreateGrant, CheckReplay, FinalEpoch,
    FinalPassword, ReplayRejected, Revoke, Cleaned
<1>11. ASSUME NEW r \in Requests, AlreadyConsumed(r) \/ Interfere(r)
       PROVE  UNCHANGED code
  BY <1>11 DEF AlreadyConsumed, Interfere, GrantConflict, Abort, Transient, CreationFails,
    CheckFails, RevokeFails
<1>12. CASE ChangeAuthority \/ UNCHANGED vars
  BY <1>2, <1>12 DEF ChangeAuthority, vars
<1>13. ASSUME NEW r \in Requests,
              Acquire(r) \/ AlreadyConsumed(r) \/ Continue(r) \/ Interfere(r)
       PROVE  [Lease!Next]_(Lease!vars)
  <2>1. CASE Continue(r)
    BY <1>2, <1>6, <1>7, <1>8, <1>9, <1>10, <2>1
  <2> QED
    BY <1>2, <1>5, <1>11, <1>13, <2>1
<1> QED
  BY <1>3, <1>4, <1>12, <1>13 DEF Next

\* The store of codes implements the two-phase signing lease of lease.rs: every step
\* of an exchange acquires, resolves or lapses the lease as lease.rs has it, or leaves
\* it alone.
THEOREM LeaseIsImplemented ==
    ASSUME ExchangeAssumption
    PROVE  Spec => ImplementsLease
<1>1. Init => Lease!Init
  BY LeaseInit
<1>2. IInv /\ [Next]_vars => [Lease!Next]_(Lease!vars)
  BY LeaseNext
<1> QED
  BY <1>1, <1>2, Invariance, PTL DEF Spec, ImplementsLease, Lease!Spec
=============================================================================
