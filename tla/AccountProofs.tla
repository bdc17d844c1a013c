---------------------------- MODULE AccountProofs ---------------------------
(***************************************************************************)
(* Theorems about credentials and sessions, for any number of logins,      *)
(* passkeys, changes, resets and disables, all of them at once, and about  *)
(* a security event, for any number of concurrent invocations of its       *)
(* archiver, failing calls and crashes.                                    *)
(*                                                                         *)
(* Credentials rest on the epoch.  A row that is held for an operation is  *)
(* in an epoch no session has read yet (Current); a gate that frees it     *)
(* lets sessions into the epoch and takes it from the operation, whose     *)
(* commit is then refused.  So whenever a credential goes, every session   *)
(* so far is of an earlier epoch.                                          *)
(*                                                                         *)
(* The event rests on an order.  The row only grows, so that all that was  *)
(* ever read of it, the object included, is a chain (Chain): a comparison  *)
(* always ends, and the object moves forward.  The copies of the record    *)
(* are one, in one place at a time (OneCopy), and each store continues     *)
(* what the stores before it left in the row.                              *)
(***************************************************************************)
EXTENDS UserAuthority, SecurityEvents, SequenceTheorems, TLAPS

UserV == [status : {"active", "disabled"}, epoch : Nat, pend : BOOLEAN,
          op : Ops \cup {None}, aged : BOOLEAN]
PasswordV == [ver : Nat, temp : BOOLEAN, pend : BOOLEAN, op : Admins \cup {None}]
SessionPC == {"idle", "temp", "auth", "epoch", "made", "gated", "recover", "given", "over"}
SessionV == [pc : SessionPC, by : Kinds \cup {"none", "email"}, cred : Keys \cup Nat,
             epoch : Nat, row : BOOLEAN, cur : BOOLEAN, old : BOOLEAN]
ChangePC == {"idle", "checked", "begun", "fenced", "sure", "over"}
ChangeV == [pc : ChangePC, kind : Kinds \cup {"none"}, ses : Sessions \cup {None},
            cred : Keys \cup Nat, epoch : Nat]
ResetPC == {"idle", "record", "takeover", "fresh", "resume", "stage", "revoke", "complete", "over"}
ResetV == [pc : ResetPC, epoch : Nat, pend : BOOLEAN, ver : Nat, op : Admins \cup {None}]
LifeV == [pc : {"idle", "cascade", "en_cascade", "complete", "en_complete", "enable", "over"},
          epoch : Nat]

Types ==
    /\ user \in UserV /\ password \in PasswordV /\ codes \in Nat
    /\ keys \in [Keys -> {"none", "live", "gone"}]
    /\ ses \in [Sessions -> SessionV] /\ chg \in [Changes -> ChangeV]
    /\ adm \in [Admins -> ResetV] /\ life \in [Lifecycle -> LifeV]

\* The row is held for an operation.
HeldRow == user.pend /\ user.op # None

\* What a session of the present epoch, still to be handed out or in use, may count on.
Current(z) ==
    /\ ~HeldRow
    /\ user.status = "active" \/ user.epoch = 0
    /\ z.old => user.status = "disabled"
    /\ z.pc = "given" /\ z.by = "password" => z.cred = password.ver /\ ~password.temp
    /\ z.pc \in {"gated", "given"} /\ z.by = "passkey" => keys[z.cred] = "live"

Dated == {"epoch", "made", "gated", "given"}

Right(z) ==
    /\ z.by = "passkey" => z.cred \in Keys
    /\ z.pc = "temp" => z.by = "password"
    /\ z.pc = "recover" => z.by = "recovery"
    /\ z.pc \in {"idle", "temp", "auth", "recover"} => ~z.old
    /\ z.pc \in Dated => z.epoch <= user.epoch
    /\ z.pc \in Dated /\ z.epoch = user.epoch => Current(z)
SessionOK(s) == Right(ses[s])

\* Something to log in with besides the passkey k.
FactorsLeft(k) == LiveKeys \ {k} # {} \/ PasswordUsable \/ codes > 0

ChangeRight(t, c) ==
    /\ c.kind = "passkey" => c.cred \in Keys
    /\ c.pc \in {"begun", "fenced", "sure"} => c.epoch <= user.epoch
    /\ c.pc = "sure" => c.kind = "passkey" /\ (Owns(t, c.epoch) => FactorsLeft(c.cred))
ChangeOK(t) == ChangeRight(t, chg[t])

ResetOK(a) == adm[a].pc \in {"idle", "record", "takeover", "fresh", "stage"} => adm[a].op = a
LifeOK(l) == life[l].pc \notin {"idle", "over"} => life[l].epoch > 0
RowOK == user.pend => user.epoch > 0

AInv ==
    /\ Types /\ RowOK
    /\ \A s \in Sessions : SessionOK(s)
    /\ \A t \in Changes : ChangeOK(t)
    /\ \A a \in Admins : ResetOK(a)
    /\ \A l \in Lifecycle : LifeOK(l)

Assumptions == UserAssumption /\ Changes \cap Admins = {}

-----------------------------------------------------------------------------
\* The sessions, but for their rows and their generation.
SameSessions(f) ==
    /\ f \in [Sessions -> SessionV]
    /\ \A s \in Sessions :
         /\ f[s].pc = ses[s].pc /\ f[s].by = ses[s].by /\ f[s].cred = ses[s].cred
         /\ f[s].epoch = ses[s].epoch /\ f[s].old = ses[s].old

\* The row stays in its epoch and is not held anew; whoever was shut out stays out.
RowKept ==
    /\ user'.epoch = user.epoch /\ (HeldRow' => HeldRow)
    /\ user'.status = user.status \/ (user.status = "disabled" /\ user.epoch > 0)

\* A credential goes only while the row is held, or the password is temporary.
CredentialsKept ==
    /\ HeldRow \/ password.temp \/ (password'.ver = password.ver /\ password'.temp = password.temp)
    /\ HeldRow \/ \A k \in Keys : keys[k] = "live" => keys'[k] = "live"

\* A session that is of the present epoch, and the step that leaves it alone.
LEMMA RightKept ==
    ASSUME Types, Types', NEW z \in SessionV, Right(z), RowKept, CredentialsKept
    PROVE  Right(z)'
<1>1. user.epoch \in Nat /\ user'.epoch = user.epoch /\ z.epoch \in Nat
  BY DEF Types, UserV, SessionV, RowKept
<1>2. ASSUME z.pc \in Dated, z.epoch = user.epoch, Current(z)
      PROVE  Current(z)'
  <2>1. ~HeldRow /\ ~HeldRow' /\ user'.status = user.status
    BY <1>2 DEF Current, RowKept, Types, UserV
  <2>2. z.pc = "given" /\ z.by = "password" => z.cred = password'.ver /\ ~password'.temp
    BY <1>2, <2>1 DEF Current, CredentialsKept, Types, PasswordV
  <2>3. z.pc \in {"gated", "given"} /\ z.by = "passkey" => keys'[z.cred] = "live"
    BY <1>2, <2>1 DEF Current, CredentialsKept, Right
  <2> QED
    BY <1>1, <1>2, <2>1, <2>2, <2>3 DEF Current
<1> QED
  BY <1>1, <1>2 DEF Right

\* A new epoch: nothing is asked of the sessions so far.
LEMMA RightOutrun ==
    ASSUME Types, NEW z \in SessionV, Right(z), user'.epoch \in Nat, user'.epoch > user.epoch
    PROVE  Right(z)'
<1>1. user.epoch \in Nat /\ z.epoch \in Nat
  BY DEF Types, UserV, SessionV
<1>2. z.pc \in Dated => z.epoch < user'.epoch
  BY <1>1 DEF Right
<1> QED
  BY <1>1, <1>2 DEF Right

\* Rows and generations do not matter.
LEMMA RightSame ==
    ASSUME NEW y \in SessionV, NEW z \in SessionV, Right(y),
           z.pc = y.pc, z.by = y.by, z.cred = y.cred, z.epoch = y.epoch, z.old = y.old
    PROVE  Right(z)
BY DEF Right, Current

LEMMA SessionsKept ==
    ASSUME AInv, Types', SameSessions(ses'),
           (RowKept /\ CredentialsKept) \/ user'.epoch > user.epoch
    PROVE  \A s \in Sessions : SessionOK(s)'
<1> SUFFICES ASSUME NEW s \in Sessions PROVE Right(ses[s])'
  BY DEF SessionOK
<1>1. PICK y \in SessionV : y = ses[s] /\ Right(y)
  BY DEF AInv, Types, SessionOK
<1>2. PICK z \in SessionV : z = ses'[s]
  BY DEF SameSessions
<1>3. Right(z)
  BY <1>1, <1>2, RightSame DEF SameSessions
<1>4. user'.epoch \in Nat
  BY DEF Types, UserV
<1>5. Right(z)'
  BY <1>3, <1>4, RightKept, RightOutrun DEF AInv
<1> QED
  BY <1>2, <1>5 DEF Right, Current

-----------------------------------------------------------------------------
\* A change under way is disturbed by nothing that leaves the row to it.
LEMMA ChangesKept ==
    ASSUME AInv, Types', chg' = chg, user.epoch <= user'.epoch,
           \A t \in Changes : Owns(t, chg[t].epoch)' =>
               /\ Owns(t, chg[t].epoch)
               /\ \A k \in Keys : FactorsLeft(k) => FactorsLeft(k)'
    PROVE  \A t \in Changes : ChangeOK(t)'
<1> SUFFICES ASSUME NEW t \in Changes PROVE ChangeOK(t)'
  OBVIOUS
<1>1. ChangeOK(t) /\ chg'[t] = chg[t] /\ chg[t] \in ChangeV
  BY DEF AInv, Types
<1>2. user.epoch \in Nat /\ user'.epoch \in Nat /\ chg[t].epoch \in Nat
  BY <1>1 DEF AInv, Types, UserV, ChangeV
<1>3. chg[t].pc \in {"begun", "fenced", "sure"} => chg[t].epoch <= user'.epoch
  BY <1>1, <1>2 DEF ChangeOK, ChangeRight
<1>4. ASSUME chg[t].pc = "sure", Owns(t, chg[t].epoch)'
      PROVE  FactorsLeft(chg[t].cred)'
  BY <1>1, <1>4 DEF ChangeOK, ChangeRight
<1> QED
  BY <1>1, <1>3, <1>4 DEF ChangeOK, ChangeRight

\* One change moves, the others are left the row they hold.
LEMMA ChangesStep ==
    ASSUME AInv, Types', NEW t \in Changes, NEW c \in ChangeV, chg' = [chg EXCEPT ![t] = c],
           ChangeRight(t, c)', user.epoch <= user'.epoch,
           \A q \in Changes : (q # t /\ Owns(q, chg[q].epoch)') =>
               /\ Owns(q, chg[q].epoch)
               /\ \A k \in Keys : FactorsLeft(k) => FactorsLeft(k)'
    PROVE  \A q \in Changes : ChangeOK(q)'
<1> SUFFICES ASSUME NEW q \in Changes PROVE ChangeOK(q)'
  OBVIOUS
<1>1. CASE q = t
  <2>1. chg'[q] = c
    BY <1>1 DEF AInv, Types
  <2> QED
    BY <1>1, <2>1 DEF ChangeOK, ChangeRight, Owns
<1>2. CASE q # t
  <2>1. ChangeOK(q) /\ chg'[q] = chg[q] /\ chg[q] \in ChangeV
    BY <1>2 DEF AInv, Types
  <2>2. user.epoch \in Nat /\ user'.epoch \in Nat /\ chg[q].epoch \in Nat
    BY <2>1 DEF AInv, Types, UserV, ChangeV
  <2>3. chg[q].pc \in {"begun", "fenced", "sure"} => chg[q].epoch <= user'.epoch
    BY <2>1, <2>2 DEF ChangeOK, ChangeRight
  <2>5. ASSUME chg[q].pc = "sure", Owns(q, chg[q].epoch)'
        PROVE  FactorsLeft(chg[q].cred)'
    <3>1. chg[q].cred \in Keys /\ FactorsLeft(chg[q].cred) /\ chg'[q].cred = chg[q].cred
      BY <1>2, <2>1, <2>5 DEF ChangeOK, ChangeRight
    <3> QED
      BY <1>2, <2>1, <2>5, <3>1
  <2> QED
    BY <2>1, <2>3, <2>5 DEF ChangeOK, ChangeRight
<1> QED
  BY <1>1, <1>2

\* One session moves.
LEMMA SessionsStep ==
    ASSUME AInv, Types', NEW s \in Sessions, NEW r \in SessionV, ses' = [ses EXCEPT ![s] = r],
           Right(r)', RowKept, CredentialsKept
    PROVE  \A q \in Sessions : SessionOK(q)'
<1> SUFFICES ASSUME NEW q \in Sessions PROVE Right(ses[q])'
  BY DEF SessionOK
<1>1. CASE q = s
  <2>1. ses'[q] = r
    BY <1>1 DEF AInv, Types
  <2> QED
    BY <2>1 DEF Right, Current
<1>2. CASE q # s
  <2>1. PICK y \in SessionV : y = ses[q] /\ Right(y)
    BY DEF AInv, Types, SessionOK
  <2>2. ses'[q] = y
    BY <1>2, <2>1 DEF AInv, Types
  <2>3. Right(y)'
    BY <2>1, RightKept DEF AInv
  <2> QED
    BY <2>2, <2>3 DEF Right, Current
<1> QED
  BY <1>1, <1>2

\* The row is left alone or freed.
LEMMA RowFreed ==
    ASSUME AInv, user' = user \/ user' = Freed
    PROVE  /\ user' \in UserV /\ RowKept /\ RowOK' /\ user.epoch <= user'.epoch
           /\ user'.status = user.status
           /\ user'.pend => user' = user
<1>1. user \in UserV /\ Freed \in UserV /\ user.epoch \in Nat
  BY DEF AInv, Types, UserV, Freed
<1>2. Freed.epoch = user.epoch /\ ~Freed.pend /\ Freed.status = user.status
  BY DEF AInv, Types, UserV, Freed
<1>3. user' \in UserV /\ user.epoch <= user'.epoch /\ user'.epoch = user.epoch
      /\ user'.status = user.status
  BY <1>1, <1>2
<1>4. user'.pend => user' = user
  BY <1>2
<1>5. HeldRow' => HeldRow
  BY <1>4 DEF HeldRow
<1> QED
  BY <1>3, <1>4, <1>5 DEF RowKept, RowOK, AInv

LEMMA GateFrees ==
    AfterGate = user \/ AfterGate = Freed
BY DEF AfterGate

\* A step of a login that changes no credential.
LEMMA LoginInv ==
    ASSUME AInv, NEW s \in Sessions, NEW r \in SessionV, ses' = [ses EXCEPT ![s] = r],
           user' = user \/ user' = Freed, Right(r)',
           UNCHANGED <<password, keys, codes, chg, adm, life>>
    PROVE  AInv'
<1>1. Types'
  BY RowFreed DEF AInv, Types
<1>2. RowKept /\ CredentialsKept /\ RowOK'
  BY RowFreed DEF CredentialsKept
<1>3. \A q \in Sessions : SessionOK(q)'
  BY <1>1, <1>2, SessionsStep
<1>4. \A t \in Changes : ChangeOK(t)'
  <2>1. \A t \in Changes : Owns(t, chg[t].epoch)' => Owns(t, chg[t].epoch)
    BY RowFreed DEF Owns
  <2>2. \A k \in Keys : FactorsLeft(k) => FactorsLeft(k)'
    BY DEF FactorsLeft, LiveKeys, PasswordUsable, PasswordSettled
  <2> QED
    BY <1>1, <2>1, <2>2, RowFreed, ChangesKept
<1>5. /\ \A a \in Admins : ResetOK(a)'
      /\ \A l \in Lifecycle : LifeOK(l)'
  BY DEF AInv, ResetOK, LifeOK
<1> QED
  BY <1>1, <1>2, <1>3, <1>4, <1>5 DEF AInv

\* The same when the session is right already.
LEMMA LoginStays ==
    ASSUME AInv, NEW s \in Sessions, NEW r \in SessionV, ses' = [ses EXCEPT ![s] = r],
           user' = user \/ user' = Freed, Right(r),
           UNCHANGED <<password, keys, codes, chg, adm, life>>
    PROVE  AInv'
<1>1. Types'
  BY RowFreed DEF AInv, Types
<1>2. RowKept /\ CredentialsKept
  BY RowFreed DEF CredentialsKept
<1> QED
  BY <1>1, <1>2, RightKept, LoginInv DEF AInv

\* What is known of a session that takes a step.
LEMMA SessionFacts ==
    ASSUME AInv, NEW s \in Sessions
    PROVE  /\ ses[s] \in SessionV /\ Right(ses[s])
           /\ user \in UserV /\ user.epoch \in Nat /\ ses[s].epoch \in Nat
           /\ password \in PasswordV /\ password.ver \in Nat
BY DEF AInv, Types, SessionOK, UserV, SessionV, PasswordV

LEMMA AuthenticateInv ==
    ASSUME AInv, NEW s \in Sessions,
           \/ PasswordAuthenticate(s) \/ TemporaryAuthenticate(s) \/ LinkAuthenticate(s)
           \/ RecoverRead(s) \/ \E k \in Keys : PasskeyAuthenticate(s, k)
    PROVE  AInv'
<1> DEFINE z == ses[s]
<1>1. z \in SessionV /\ z.pc = "idle" /\ Right(z)
  BY SessionFacts DEF PasswordAuthenticate, TemporaryAuthenticate, LinkAuthenticate, RecoverRead,
    PasskeyAuthenticate, AtLogin
<1>2. CASE PasswordAuthenticate(s)
  <2> DEFINE r == [z EXCEPT !.pc = "auth", !.by = "password", !.cred = password.ver]
  <2>1. r \in SessionV /\ Right(r)
    BY <1>1, SessionFacts DEF SessionV, SessionPC, Kinds, Right, Dated
  <2> HIDE DEF r
  <2>2. ses' = [ses EXCEPT ![s] = r]
    BY <1>2 DEF PasswordAuthenticate, Login, r
  <2> QED
    BY <1>2, <2>1, <2>2, LoginStays DEF PasswordAuthenticate
<1>3. CASE TemporaryAuthenticate(s)
  <2> DEFINE r == [z EXCEPT !.pc = "temp", !.by = "password", !.cred = password.ver]
  <2>1. r \in SessionV /\ Right(r)
    BY <1>1, SessionFacts DEF SessionV, SessionPC, Kinds, Right, Dated
  <2> HIDE DEF r
  <2>2. ses' = [ses EXCEPT ![s] = r]
    BY <1>3 DEF TemporaryAuthenticate, Login, r
  <2> QED
    BY <1>3, <2>1, <2>2, LoginStays DEF TemporaryAuthenticate
<1>4. CASE LinkAuthenticate(s)
  <2> DEFINE r == [z EXCEPT !.pc = "auth", !.by = "email"]
  <2>1. r \in SessionV /\ Right(r)
    BY <1>1 DEF SessionV, SessionPC, Kinds, Right, Dated
  <2> HIDE DEF r
  <2>2. ses' = [ses EXCEPT ![s] = r]
    BY <1>4 DEF LinkAuthenticate, Login, r
  <2> QED
    BY <1>4, <2>1, <2>2, LoginStays, GateFrees DEF LinkAuthenticate
<1>5. CASE RecoverRead(s)
  <2>0. PICK e \in Nat : e = user.epoch + 1
    BY SessionFacts
  <2> DEFINE r == [z EXCEPT !.pc = "recover", !.by = "recovery", !.epoch = e]
  <2>1. r \in SessionV /\ Right(r)
    BY <1>1, <2>0 DEF SessionV, SessionPC, Kinds, Right, Dated
  <2>2. ses' = [ses EXCEPT ![s] = r]
    BY <1>5, <2>0 DEF RecoverRead, Login
  <2> HIDE DEF r
  <2> QED
    BY <1>5, <2>1, <2>2, LoginStays, GateFrees DEF RecoverRead
<1>6. ASSUME NEW k \in Keys, PasskeyAuthenticate(s, k)
      PROVE  AInv'
  <2> DEFINE r == [z EXCEPT !.pc = "auth", !.by = "passkey", !.cred = k]
  <2>1. r \in SessionV /\ Right(r)
    BY <1>1 DEF SessionV, SessionPC, Kinds, Right, Dated
  <2> HIDE DEF r
  <2>2. ses' = [ses EXCEPT ![s] = r]
    BY <1>6 DEF PasskeyAuthenticate, Login, r
  <2> QED
    BY <1>6, <2>1, <2>2, LoginStays DEF PasskeyAuthenticate
<1> QED
  BY <1>2, <1>3, <1>4, <1>5, <1>6

\* The session enters the epoch by a row that nobody holds any more.
LEMMA ReadEpochInv ==
    ASSUME AInv, NEW s \in Sessions, ReadEpoch(s)
    PROVE  AInv'
<1> DEFINE z == ses[s]
           r == [z EXCEPT !.pc = "epoch", !.epoch = user.epoch]
<1>1. /\ r \in SessionV /\ r.pc = "epoch" /\ r.by = z.by /\ r.cred = z.cred /\ r.old = z.old
      /\ r.epoch = user.epoch
  BY SessionFacts DEF SessionV, SessionPC
<1>2. z.pc = "auth" /\ ~z.old /\ (z.by = "passkey" => z.cred \in Keys)
  BY SessionFacts DEF ReadEpoch, AtLogin, Right
<1>3. user' = user \/ user' = Freed
  BY GateFrees DEF ReadEpoch
<1>4. ~HeldRow' /\ user'.status = "active" /\ user'.epoch = user.epoch
  BY DEF ReadEpoch, GatePasses, AfterGate, Freed, HeldRow, AInv, Types, UserV
<1>5. ses' = [ses EXCEPT ![s] = r]
  BY DEF ReadEpoch, Login
<1> HIDE DEF r
<1>6. PICK x \in SessionV : x = r
  BY <1>1
<1>7. Right(x)'
  BY <1>1, <1>2, <1>4, <1>6, SessionFacts DEF Right, Current, Dated
<1> QED
  BY <1>3, <1>5, <1>6, <1>7, LoginInv DEF ReadEpoch

LEMMA EstablishInv ==
    ASSUME AInv, NEW s \in Sessions,
           CreateSession(s) \/ Recheck(s) \/ HandOut(s) \/ Refuse(s)
    PROVE  AInv'
<1> DEFINE z == ses[s]
<1>1. z \in SessionV /\ Right(z)
  BY SessionFacts
<1>2. CASE CreateSession(s)
  <2> DEFINE r == [z EXCEPT !.pc = "made", !.row = TRUE, !.cur = TRUE]
  <2>1. r \in SessionV /\ Right(r)
    BY <1>1, <1>2 DEF SessionV, SessionPC, Right, Dated, Current, CreateSession, AtLogin
  <2> HIDE DEF r
  <2>2. ses' = [ses EXCEPT ![s] = r]
    BY <1>2 DEF CreateSession, Login, r
  <2> QED
    BY <1>2, <2>1, <2>2, LoginStays DEF CreateSession
<1>3. CASE Recheck(s)
  <2> DEFINE r == [z EXCEPT !.pc = "gated"]
  <2>1. r \in SessionV /\ Right(r)
    BY <1>1, <1>3 DEF SessionV, SessionPC, Right, Dated, Current, Recheck, AtLogin
  <2> HIDE DEF r
  <2>2. ses' = [ses EXCEPT ![s] = r]
    BY <1>3 DEF Recheck, Login, r
  <2> QED
    BY <1>3, <2>1, <2>2, LoginStays, GateFrees DEF Recheck
<1>4. CASE HandOut(s)
  <2> DEFINE r == [z EXCEPT !.pc = "given"]
  <2>1. z.by = "password" => z.cred = password.ver /\ ~password.temp
    BY <1>4 DEF HandOut, SamePassword, PasswordSettled
  <2>2. r \in SessionV /\ Right(r)
    BY <1>1, <1>4, <2>1 DEF SessionV, SessionPC, Right, Dated, Current, HandOut, AtLogin
  <2> HIDE DEF r
  <2>3. ses' = [ses EXCEPT ![s] = r]
    BY <1>4 DEF HandOut, Login, r
  <2> QED
    BY <1>4, <2>2, <2>3, LoginStays, GateFrees DEF HandOut
<1>5. ASSUME NEW shown \in BOOLEAN, Refuse(s), Login(s, [z EXCEPT !.pc = "over", !.row = shown])
      PROVE  AInv'
  <2> DEFINE r == [z EXCEPT !.pc = "over", !.row = shown]
  <2>1. r \in SessionV /\ Right(r)
    BY <1>1 DEF SessionV, SessionPC, Right, Dated
  <2> HIDE DEF r
  <2>2. ses' = [ses EXCEPT ![s] = r]
    BY <1>5 DEF Login, r
  <2> QED
    BY <1>5, <2>1, <2>2, LoginStays DEF Refuse
<1>6. CASE Refuse(s)
  <2>1. ses[s].row \in BOOLEAN
    BY <1>1 DEF SessionV
  <2> QED
    BY <1>5, <1>6, <2>1 DEF Refuse
<1> QED
  BY <1>2, <1>3, <1>4, <1>6

\* What a change may still log in with survives what happens beside it.
LEMMA FactorsKept ==
    ASSUME Types, Types', PasswordUsable => PasswordUsable', codes > 0 => codes' > 0,
           \A k \in Keys : keys[k] = "live" => keys'[k] = "live"
    PROVE  \A k \in Keys : FactorsLeft(k) => FactorsLeft(k)'
BY DEF FactorsLeft, LiveKeys

\* The user replaces a temporary password: nobody was handed a session of this epoch for
\* the old one.
LEMMA TemporaryReplaceInv ==
    ASSUME AInv, NEW s \in Sessions, TemporaryReplace(s)
    PROVE  AInv'
<1> DEFINE z == ses[s]
<1>0. PICK n \in Nat : n = z.cred + 1
  BY SessionFacts DEF TemporaryReplace, AtLogin
<1> DEFINE r == [z EXCEPT !.pc = "auth", !.cred = n]
<1>1. /\ z \in SessionV /\ Right(z) /\ z.pc = "temp" /\ z.cred = password.ver
      /\ password.ver \in Nat
  BY SessionFacts DEF TemporaryReplace, AtLogin
<1>2. /\ r \in SessionV /\ r.pc = "auth" /\ r.by = "password" /\ ~r.old
  BY <1>1 DEF SessionV, SessionPC, Right
<1>3. ses' = [ses EXCEPT ![s] = r]
  BY <1>0 DEF TemporaryReplace, Login
<1> HIDE DEF r
<1>4. /\ password' \in PasswordV /\ password'.ver = password.ver + 1
      /\ password'.temp = FALSE /\ password'.pend = FALSE
      /\ password.temp /\ UNCHANGED <<user, keys, codes, chg, adm, life>>
  BY <1>1 DEF TemporaryReplace, PasswordV
<1>5. Types'
  BY <1>2, <1>3, <1>4 DEF AInv, Types
<1>6. RowKept /\ CredentialsKept /\ RowOK'
  BY <1>4 DEF AInv, RowKept, HeldRow, CredentialsKept, RowOK
<1>7. PICK x \in SessionV : x = r
  BY <1>2
<1>8. Right(x)'
  BY <1>2, <1>7 DEF Right, Dated
<1>9. \A q \in Sessions : SessionOK(q)'
  BY <1>3, <1>5, <1>6, <1>7, <1>8, SessionsStep
<1>10. \A t \in Changes : ChangeOK(t)'
  <2>1. \A t \in Changes : Owns(t, chg[t].epoch)' => Owns(t, chg[t].epoch)
    BY <1>4 DEF Owns
  <2>2. PasswordUsable'
    BY <1>1, <1>4 DEF PasswordUsable, PasswordSettled
  <2>3. \A k \in Keys : FactorsLeft(k) => FactorsLeft(k)'
    BY <1>4, <1>5, <2>2, FactorsKept DEF AInv
  <2>4. user.epoch <= user'.epoch
    BY <1>4, SessionFacts
  <2> QED
    BY <1>4, <1>5, <2>1, <2>3, <2>4, ChangesKept
<1>11. /\ \A a \in Admins : ResetOK(a)'
       /\ \A l \in Lifecycle : LifeOK(l)'
  BY <1>4 DEF AInv, ResetOK, LifeOK
<1> QED
  BY <1>5, <1>6, <1>9, <1>10, <1>11 DEF AInv

\* delete_by_user and a new generation leave a session what it is.
LEMMA SweptSame ==
    ASSUME Types, NEW S \in SUBSET Sessions, NEW f \in Sweep(S)
    PROVE  SameSessions(f) /\ SameSessions(NewGeneration(f))
<1>1. PICK D \in SUBSET {s \in S : ses[s].row} :
        f = [s \in Sessions |-> IF s \in D THEN [ses[s] EXCEPT !.row = FALSE] ELSE ses[s]]
  BY DEF Sweep
<1>2. SameSessions(f)
  BY <1>1 DEF SameSessions, Types, SessionV
<1>3. SameSessions(NewGeneration(f))
  <2> SUFFICES ASSUME NEW s \in Sessions
               PROVE  LET g == NewGeneration(f)[s] IN
                      /\ g \in SessionV /\ g.pc = f[s].pc /\ g.by = f[s].by /\ g.cred = f[s].cred
                      /\ g.epoch = f[s].epoch /\ g.old = f[s].old
    BY <1>2 DEF SameSessions, NewGeneration
  <2>1. PICK z \in SessionV : z = f[s]
    BY <1>2 DEF SameSessions
  <2>2. NewGeneration(f)[s] = [z EXCEPT !.cur = FALSE]
    BY <2>1 DEF NewGeneration
  <2> QED
    BY <2>1, <2>2 DEF SessionV
<1> QED
  BY <1>2, <1>3

LEMMA EarlierSame ==
    ASSUME Types, NEW e, NEW f \in EarlierSwept(e)
    PROVE  SameSessions(f) /\ SameSessions(NewGeneration(f))
BY SweptSame DEF EarlierSwept, Before

\* A recovery opens an epoch with a session of its own.
LEMMA RecoverCommitInv ==
    ASSUME AInv, NEW s \in Sessions, RecoverCommit(s)
    PROVE  AInv'
<1>1. PICK f \in EarlierSwept(user.epoch + 1) :
        ses' = [NewGeneration(f) EXCEPT ![s].pc = "given", ![s].row = TRUE, ![s].cur = TRUE]
  BY DEF RecoverCommit
<1> DEFINE g == NewGeneration(f)
           r == [g[s] EXCEPT !.pc = "given", !.row = TRUE, !.cur = TRUE]
<1>2. SameSessions(g)
  BY EarlierSame DEF AInv
<1> HIDE DEF g
<1>3. ses' = [g EXCEPT ![s] = r]
  BY <1>1, <1>2 DEF g, SameSessions, SessionV
<1>4. /\ user' \in UserV /\ user'.epoch = user.epoch + 1 /\ ~user'.pend
      /\ user'.status = "active" /\ user.epoch \in Nat /\ user'.epoch > user.epoch
      /\ ~user.pend
  BY SessionFacts DEF RecoverCommit, UserV
<1>5. r \in SessionV /\ r.pc = "given" /\ r.epoch = ses[s].epoch /\ r.old = ses[s].old
      /\ r.by = ses[s].by /\ r.cred = ses[s].cred
  BY <1>2 DEF SameSessions, SessionV, SessionPC
<1> HIDE DEF r
<1>6. ses[s].pc = "recover" /\ ses[s].epoch = user'.epoch
  BY <1>4 DEF RecoverCommit, AtLogin
<1>7. codes' \in Nat /\ UNCHANGED <<password, keys, chg, adm, life>>
  BY DEF RecoverCommit, AInv, Types
<1>8. Types'
  BY <1>2, <1>3, <1>4, <1>5, <1>7 DEF AInv, Types, SameSessions
<1>9. \A q \in Sessions : SessionOK(q)'
  <2> SUFFICES ASSUME NEW q \in Sessions PROVE Right(ses[q])'
    BY DEF SessionOK
  <2>1. CASE q # s
    <3>1. PICK y \in SessionV : y = ses[q] /\ Right(y)
      BY SessionFacts
    <3>2. PICK x \in SessionV : x = ses'[q]
      BY <1>8 DEF Types
    <3>3. Right(x)
      BY <1>2, <1>3, <2>1, <3>1, <3>2, RightSame DEF SameSessions
    <3>4. Right(x)'
      BY <1>4, <3>3, RightOutrun DEF AInv, UserV
    <3> QED
      BY <3>2, <3>4 DEF Right, Current
  <2>2. CASE q = s
    <3>1. ses'[q] = r
      BY <1>2, <1>3, <2>2 DEF SameSessions
    <3>2. Right(ses[s])
      BY SessionFacts
    <3>3. ses[s].by = "recovery" /\ ~ses[s].old
      BY <1>6, <3>2 DEF Right
    <3> QED
      BY <1>4, <1>5, <1>6, <3>1, <3>3 DEF Right, Current, HeldRow, Dated
  <2> QED
    BY <2>1, <2>2
<1>10. \A t \in Changes : ChangeOK(t)'
  <2>1. \A t \in Changes : ~Owns(t, chg[t].epoch)'
    BY <1>4 DEF Owns
  <2>2. user.epoch <= user'.epoch
    BY <1>4
  <2> QED
    BY <1>7, <1>8, <2>1, <2>2, ChangesKept
<1>11. /\ \A a \in Admins : ResetOK(a)'
       /\ \A l \in Lifecycle : LifeOK(l)'
       /\ RowOK'
  BY <1>4, <1>7 DEF AInv, ResetOK, LifeOK, RowOK
<1> QED
  BY <1>8, <1>9, <1>10, <1>11 DEF AInv

\* Passing time, other requests, and a passkey that is added.
LEMMA RowInv ==
    ASSUME AInv, Gate \/ Age
    PROVE  AInv'
<1>1. UNCHANGED <<password, keys, codes, ses, chg, adm, life>>
  BY DEF Gate, Age
<1>2. /\ user' \in UserV /\ user'.epoch = user.epoch /\ user'.status = user.status
      /\ user'.pend => user.pend /\ user'.op = user.op
  <2>1. user \in UserV
    BY DEF AInv, Types
  <2>2. CASE Gate
    BY <2>1, <2>2 DEF Gate, AfterGate, Freed, UserV
  <2>3. CASE Age
    <3>1. user' = [user EXCEPT !.aged = TRUE]
      BY <2>3 DEF Age
    <3> QED
      BY <2>1, <3>1 DEF UserV
  <2> QED
    BY <2>2, <2>3
<1>3. RowKept /\ CredentialsKept /\ RowOK' /\ user.epoch <= user'.epoch
  BY <1>1, <1>2, SessionFacts DEF RowKept, HeldRow, CredentialsKept, RowOK, AInv, Types, UserV
<1>4. Types'
  BY <1>1, <1>2 DEF AInv, Types
<1>5. \A q \in Sessions : SessionOK(q)'
  <2>1. SameSessions(ses')
    BY <1>1 DEF SameSessions, AInv, Types
  <2> QED
    BY <1>3, <1>4, <2>1, SessionsKept
<1>6. \A t \in Changes : ChangeOK(t)'
  <2>1. \A t \in Changes : Owns(t, chg[t].epoch)' => Owns(t, chg[t].epoch)
    BY <1>1, <1>2 DEF Owns
  <2>2. \A k \in Keys : FactorsLeft(k) => FactorsLeft(k)'
    BY <1>1 DEF FactorsLeft, LiveKeys, PasswordUsable, PasswordSettled
  <2> QED
    BY <1>1, <1>3, <1>4, <2>1, <2>2, ChangesKept
<1> QED
  BY <1>1, <1>3, <1>4, <1>5, <1>6 DEF AInv, ResetOK, LifeOK

LEMMA RegisterInv ==
    ASSUME AInv, NEW s \in Sessions, NEW k \in Keys, Register(s, k)
    PROVE  AInv'
<1>1. /\ UNCHANGED <<user, password, codes, ses, chg, adm, life>>
      /\ keys' \in [Keys -> {"none", "live", "gone"}]
      /\ \A j \in Keys : keys[j] = "live" => keys'[j] = "live"
  BY DEF Register, AInv, Types
<1>2. Types'
  BY <1>1 DEF AInv, Types
<1>3. RowKept /\ CredentialsKept /\ RowOK' /\ user.epoch <= user'.epoch
  BY <1>1, SessionFacts DEF RowKept, HeldRow, CredentialsKept, RowOK, AInv, Types, UserV
<1>4. \A q \in Sessions : SessionOK(q)'
  <2>1. SameSessions(ses')
    BY <1>1 DEF SameSessions, AInv, Types
  <2> QED
    BY <1>2, <1>3, <2>1, SessionsKept
<1>5. \A t \in Changes : ChangeOK(t)'
  <2>1. \A t \in Changes : Owns(t, chg[t].epoch)' => Owns(t, chg[t].epoch)
    BY <1>1 DEF Owns
  <2>2. PasswordUsable => PasswordUsable'
    BY <1>1 DEF PasswordUsable, PasswordSettled
  <2>3. \A j \in Keys : FactorsLeft(j) => FactorsLeft(j)'
    BY <1>1, <1>2, <2>2, FactorsKept DEF AInv
  <2> QED
    BY <1>1, <1>2, <1>3, <2>1, <2>3, ChangesKept
<1> QED
  BY <1>1, <1>2, <1>3, <1>4, <1>5 DEF AInv, ResetOK, LifeOK

-----------------------------------------------------------------------------
\* A step of a change: it leaves the row free, or as it was, or holds it in a new epoch.
LEMMA ChangeInv ==
    ASSUME AInv, Types', NEW t \in Changes, NEW c \in ChangeV, chg' = [chg EXCEPT ![t] = c],
           ChangeRight(t, c)', SameSessions(ses'), UNCHANGED <<adm, life>>,
           \/ user' = Freed /\ (HeldRow \/ UNCHANGED <<password, keys, codes>>)
           \/ user' = user /\ UNCHANGED <<password, keys, codes>>
           \/ user' = Held(user.epoch + 1, t) /\ UNCHANGED <<password, keys, codes>>
    PROVE  AInv'
<1>1. user \in UserV /\ user.epoch \in Nat
  BY DEF AInv, Types, UserV
<1>2. CASE user' = Freed \/ user' = user
  <2>1. RowKept /\ RowOK' /\ user.epoch <= user'.epoch /\ (user'.pend => user' = user)
    BY <1>2, RowFreed
  <2>2. CredentialsKept
    BY DEF CredentialsKept, Held
  <2>3. CASE ~user'.pend
    <3>1. \A q \in Changes : ~Owns(q, chg[q].epoch)'
      BY <2>3 DEF Owns
    <3>2. \A q \in Changes : ChangeOK(q)'
      BY <2>1, <3>1, ChangesStep
    <3>3. \A s \in Sessions : SessionOK(s)'
      BY <2>1, <2>2, SessionsKept
    <3> QED
      BY <2>1, <3>2, <3>3 DEF AInv, ResetOK, LifeOK
  <2>4. CASE user'.pend
    <3>1. user' = user
      BY <2>1, <2>4
    <3>2. UNCHANGED <<password, keys, codes>>
      BY <1>1, <2>4, <3>1 DEF Freed, Held, UserV
    <3>3. \A q \in Changes : Owns(q, chg[q].epoch)' => q = t \/ Owns(q, chg[q].epoch)
      <4> SUFFICES ASSUME NEW q \in Changes, q # t, Owns(q, chg[q].epoch)'
                   PROVE  Owns(q, chg[q].epoch)
        OBVIOUS
      <4>1. chg'[q] = chg[q]
        BY DEF AInv, Types
      <4> QED
        BY <3>1, <4>1 DEF Owns
    <3>4. \A k \in Keys : FactorsLeft(k) => FactorsLeft(k)'
      BY <3>2 DEF FactorsLeft, LiveKeys, PasswordUsable, PasswordSettled
    <3>5. \A q \in Changes : ChangeOK(q)'
      BY <2>1, <3>3, <3>4, ChangesStep
    <3>6. \A s \in Sessions : SessionOK(s)'
      BY <2>1, <2>2, SessionsKept
    <3> QED
      BY <2>1, <3>5, <3>6 DEF AInv, ResetOK, LifeOK
  <2> QED
    BY <2>3, <2>4
<1>3. CASE user' = Held(user.epoch + 1, t)
  <2>1. user'.epoch = user.epoch + 1 /\ user'.op = t
    BY <1>1, <1>3 DEF Held, UserV
  <2>2. user.epoch < user'.epoch /\ RowOK'
    BY <1>1, <2>1 DEF RowOK
  <2>3. \A s \in Sessions : SessionOK(s)'
    BY <2>2, SessionsKept
  <2>4. \A q \in Changes : q # t => ~Owns(q, chg[q].epoch)'
    BY <2>1 DEF Owns
  <2>5. \A q \in Changes : ChangeOK(q)'
    <3>1. user'.epoch \in Nat /\ user.epoch <= user'.epoch
      BY <1>1, <2>1
    <3>2. \A q \in Changes : (q # t /\ Owns(q, chg[q].epoch)') =>
             /\ Owns(q, chg[q].epoch)
             /\ \A k \in Keys : FactorsLeft(k) => FactorsLeft(k)'
      BY <2>4
    <3> QED
      BY <3>1, <3>2, ChangesStep
  <2> QED
    BY <2>2, <2>3, <2>5 DEF AInv, ResetOK, LifeOK
<1> QED
  BY <1>2, <1>3

LEMMA ChangeFacts ==
    ASSUME AInv, NEW t \in Changes
    PROVE  /\ chg[t] \in ChangeV /\ ChangeRight(t, chg[t])
           /\ user \in UserV /\ user.epoch \in Nat /\ chg[t].epoch \in Nat
           /\ password \in PasswordV /\ password.ver \in Nat
           /\ Freed \in UserV /\ Freed.epoch = user.epoch /\ ~Freed.pend
           /\ SameSessions(ses)
BY DEF AInv, Types, ChangeOK, UserV, ChangeV, PasswordV, Freed, SameSessions

LEMMA StartInv ==
    ASSUME Assumptions, AInv, NEW t \in Changes, NEW s \in Sessions, NEW kind, NEW k,
           StartChange(t, s, kind, k),
           (kind = "passkey" /\ k \in Keys) \/ kind \in Kinds \ {"passkey"}
    PROVE  AInv'
<1> DEFINE cred == CASE kind = "password" -> password.ver
                     [] kind = "passkey" -> k
                     [] OTHER -> 0
           c == [pc |-> "checked", kind |-> kind, ses |-> s, cred |-> cred, epoch |-> ses[s].epoch]
<1>1. cred \in Keys \cup Nat /\ (kind = "passkey" => cred \in Keys)
  BY ChangeFacts DEF Kinds
<1> HIDE DEF cred
<1>2. c \in ChangeV
  BY <1>1, SessionFacts DEF ChangeV, ChangePC, Kinds
<1>3. PICK x \in ChangeV : x = c
  BY <1>2
<1>4. x.pc = "checked" /\ x.kind = kind /\ x.cred = cred
  BY <1>3
<1>5. ChangeRight(t, x)'
  BY <1>1, <1>4 DEF ChangeRight
<1>6. chg' = [chg EXCEPT ![t] = x]
  BY <1>3 DEF StartChange, Change, cred
<1>7. user' = user \/ user' = Freed
  BY GateFrees DEF StartChange
<1>8. Types' /\ SameSessions(ses')
  BY <1>6, <1>7, ChangeFacts DEF StartChange, AInv, Types, SameSessions
<1> QED
  BY <1>5, <1>6, <1>7, <1>8, ChangeInv DEF StartChange

\* What the steps of a change have in common: the next state of the change is c.
LEMMA ChangeTypes ==
    ASSUME AInv, NEW t \in Changes, NEW c \in ChangeV, chg' = [chg EXCEPT ![t] = c],
           user' \in UserV, password' \in PasswordV, codes' \in Nat,
           keys' \in [Keys -> {"none", "live", "gone"}], SameSessions(ses'),
           UNCHANGED <<adm, life>>
    PROVE  Types'
BY DEF AInv, Types, SameSessions

LEMMA BeginInv ==
    ASSUME Assumptions, AInv, NEW t \in Changes, BeginChange(t)
    PROVE  AInv'
<1>0. PICK e \in Nat : e = user.epoch + 1 /\ e = chg[t].epoch + 1
  BY ChangeFacts DEF BeginChange
<1>1. PICK c \in ChangeV : c = [chg[t] EXCEPT !.pc = "begun", !.epoch = e]
  BY ChangeFacts DEF ChangeV, ChangePC
<1>2. chg' = [chg EXCEPT ![t] = c]
  BY <1>0, <1>1 DEF BeginChange, Change
<1>3. /\ user' \in UserV /\ user'.epoch = user.epoch + 1 /\ c.epoch = user.epoch + 1
      /\ c.pc = "begun" /\ c.kind = chg[t].kind /\ c.cred = chg[t].cred
  BY <1>0, <1>1, ChangeFacts DEF BeginChange, Held, UserV, Ops, ChangeV
<1>4. ChangeRight(t, c)'
  BY <1>3, ChangeFacts DEF ChangeRight
<1>5. Types'
  BY <1>2, <1>3, ChangeFacts, ChangeTypes DEF BeginChange, AInv, Types
<1> QED
  BY <1>2, <1>4, <1>5, ChangeFacts, ChangeInv DEF BeginChange

\* The steps that move the change on and leave the row as it is.
LEMMA ProceedInv ==
    ASSUME Assumptions, AInv, NEW t \in Changes,
           ConsumeSession(t) \/ RecheckFactors(t) \/ CrashChange(t)
    PROVE  AInv'
<1>1. CASE ConsumeSession(t)
  <2>1. PICK c \in ChangeV : c = [chg[t] EXCEPT !.pc = "fenced"]
    BY ChangeFacts DEF ChangeV, ChangePC
  <2>2. chg' = [chg EXCEPT ![t] = c] /\ c.pc = "fenced" /\ c.epoch = chg[t].epoch
        /\ c.kind = chg[t].kind /\ c.cred = chg[t].cred /\ chg[t].pc = "begun"
    BY <1>1, <2>1, ChangeFacts DEF ConsumeSession, Change, ChangeV
  <2>3. ChangeRight(t, c)'
    BY <1>1, <2>2, ChangeFacts DEF ChangeRight, ConsumeSession
  <2>4. PICK f \in EarlierSwept(chg[t].epoch) :
          ses' = [NewGeneration(f) EXCEPT ![chg[t].ses].row = FALSE]
    BY <1>1 DEF ConsumeSession
  <2>5. SameSessions(NewGeneration(f))
    BY EarlierSame DEF AInv
  <2>6. SameSessions(ses')
    <3> DEFINE g == NewGeneration(f)
    <3> HIDE DEF g
    <3>1. SameSessions(g) /\ ses' = [g EXCEPT ![chg[t].ses].row = FALSE]
      BY <2>4, <2>5 DEF g
    <3>2. ses' \in [Sessions -> SessionV]
      BY <3>1 DEF SameSessions, SessionV
    <3> SUFFICES ASSUME NEW q \in Sessions
                 PROVE  /\ ses'[q].pc = ses[q].pc /\ ses'[q].by = ses[q].by
                        /\ ses'[q].cred = ses[q].cred
                        /\ ses'[q].epoch = ses[q].epoch /\ ses'[q].old = ses[q].old
      BY <3>2 DEF SameSessions
    <3>3. PICK z \in SessionV : z = g[q]
      BY <3>1 DEF SameSessions
    <3>4. ses'[q] = z \/ ses'[q] = [z EXCEPT !.row = FALSE]
      BY <3>1, <3>3 DEF SameSessions
    <3>5. /\ z.pc = ses[q].pc /\ z.by = ses[q].by /\ z.cred = ses[q].cred
          /\ z.epoch = ses[q].epoch /\ z.old = ses[q].old
      BY <3>1, <3>3 DEF SameSessions
    <3> QED
      BY <3>4, <3>5 DEF SessionV
  <2>7. Types'
    BY <1>1, <2>2, <2>6, ChangeFacts, ChangeTypes DEF ConsumeSession, AInv, Types
  <2> QED
    BY <1>1, <2>2, <2>3, <2>6, <2>7, ChangeInv DEF ConsumeSession
<1>2. CASE RecheckFactors(t)
  <2>1. PICK c \in ChangeV : c = [chg[t] EXCEPT !.pc = "sure"]
    BY ChangeFacts DEF ChangeV, ChangePC
  <2>2. chg' = [chg EXCEPT ![t] = c] /\ c.pc = "sure" /\ c.epoch = chg[t].epoch
        /\ c.kind = "passkey" /\ c.cred = chg[t].cred /\ chg[t].pc = "fenced"
        /\ c.cred \in Keys
    BY <1>2, <2>1, ChangeFacts DEF RecheckFactors, Change, ChangeV, ChangeRight
  <2>3. FactorsLeft(c.cred) /\ UNCHANGED <<user, password, keys, codes, ses, adm, life>>
    BY <1>2, <2>2 DEF RecheckFactors, MayDelete, FactorsLeft
  <2>4. FactorsLeft(c.cred)'
    BY <2>3 DEF FactorsLeft, LiveKeys, PasswordUsable, PasswordSettled
  <2>5. ChangeRight(t, c)'
    BY <2>2, <2>3, <2>4, ChangeFacts DEF ChangeRight
  <2>6. Types'
    BY <2>2, <2>3, ChangeFacts, ChangeTypes DEF AInv, Types
  <2> QED
    BY <2>2, <2>3, <2>5, <2>6, ChangeFacts, ChangeInv
<1>3. CASE CrashChange(t)
  <2>1. PICK c \in ChangeV : c = [chg[t] EXCEPT !.pc = "over"]
    BY ChangeFacts DEF ChangeV, ChangePC
  <2>2. chg' = [chg EXCEPT ![t] = c] /\ c.pc = "over"
        /\ c.kind = chg[t].kind /\ c.cred = chg[t].cred
    BY <1>3, <2>1, ChangeFacts DEF CrashChange, Change, ChangeV
  <2>3. ChangeRight(t, c)'
    BY <2>2, ChangeFacts DEF ChangeRight
  <2>4. Types'
    BY <1>3, <2>2, ChangeFacts, ChangeTypes DEF CrashChange, AInv, Types
  <2> QED
    BY <1>3, <2>2, <2>3, <2>4, ChangeFacts, ChangeInv DEF CrashChange
<1> QED
  BY <1>1, <1>2, <1>3

\* A commit needs the row it holds, and frees it.
LEMMA CommitInv ==
    ASSUME Assumptions, AInv, NEW t \in Changes,
           CommitPassword(t) \/ CommitDelete(t) \/ CommitRotation(t) \/ AbortChange(t)
    PROVE  AInv'
<1>1. PICK c \in ChangeV : c = [chg[t] EXCEPT !.pc = "over"]
  BY ChangeFacts DEF ChangeV, ChangePC
<1>2. /\ chg' = [chg EXCEPT ![t] = c] /\ c.pc = "over"
      /\ c.kind = chg[t].kind /\ c.cred = chg[t].cred
      /\ UNCHANGED <<ses, adm, life>>
  BY <1>1, ChangeFacts DEF CommitPassword, CommitDelete, CommitRotation, AbortChange, Change, ChangeV
<1>3. ChangeRight(t, c)'
  BY <1>2, ChangeFacts DEF ChangeRight
<1>4. Owns(t, chg[t].epoch) => HeldRow
  BY DEF Assumptions, UserAssumption, Owns, HeldRow
<1>5. \/ user' = Freed /\ (HeldRow \/ UNCHANGED <<password, keys, codes>>)
      \/ user' = user /\ UNCHANGED <<password, keys, codes>>
  BY <1>4 DEF CommitPassword, CommitDelete, CommitRotation, AbortChange
<1>6. password' \in PasswordV
  <2>1. CASE CommitPassword(t)
    <3>1. PICK n \in Nat : n = password.ver + 1
      BY ChangeFacts
    <3>2. password' = [ver |-> n, temp |-> FALSE, pend |-> FALSE, op |-> None]
      BY <2>1, <3>1 DEF CommitPassword
    <3> QED
      BY <3>2 DEF PasswordV
  <2>2. CASE ~CommitPassword(t)
    BY <2>2, ChangeFacts DEF CommitDelete, CommitRotation, AbortChange
  <2> QED
    BY <2>1, <2>2
<1>7. codes' \in Nat /\ keys' \in [Keys -> {"none", "live", "gone"}]
  BY DEF CommitPassword, CommitDelete, CommitRotation, AbortChange, AInv, Types, Assumptions,
    UserAssumption
<1>8. user' \in UserV /\ SameSessions(ses')
  BY <1>2, <1>5, ChangeFacts DEF SameSessions
<1>9. Types'
  BY <1>2, <1>6, <1>7, <1>8, ChangeTypes
<1> QED
  BY <1>2, <1>3, <1>5, <1>8, <1>9, ChangeInv

-----------------------------------------------------------------------------
\* A step that is not a change: the row is left alone, or freed, or goes to a new epoch, and
\* no change owns it any more.
LEMMA BesideInv ==
    ASSUME AInv, UNCHANGED <<keys, codes, chg>>, user' \in UserV, password' \in PasswordV,
           adm' \in [Admins -> ResetV], life' \in [Lifecycle -> LifeV], SameSessions(ses'),
           RowOK', (RowKept /\ CredentialsKept) \/ user'.epoch > user.epoch,
           \/ UNCHANGED <<user, password>>
           \/ \A t \in Changes : ~Owns(t, chg[t].epoch)',
           \A a \in Admins : ResetOK(a)', \A l \in Lifecycle : LifeOK(l)'
    PROVE  AInv'
<1>1. Types'
  BY DEF AInv, Types, SameSessions
<1>2. user.epoch <= user'.epoch
  BY DEF AInv, Types, UserV, RowKept
<1>3. \A s \in Sessions : SessionOK(s)'
  BY <1>1, SessionsKept
<1>4. \A t \in Changes : ChangeOK(t)'
  <2>1. CASE UNCHANGED <<user, password>>
    <3>1. \A t \in Changes : Owns(t, chg[t].epoch)' => Owns(t, chg[t].epoch)
      BY <2>1 DEF Owns
    <3>2. \A k \in Keys : FactorsLeft(k) => FactorsLeft(k)'
      BY <2>1 DEF FactorsLeft, LiveKeys, PasswordUsable, PasswordSettled
    <3> QED
      BY <1>1, <1>2, <3>1, <3>2, ChangesKept
  <2>2. CASE \A t \in Changes : ~Owns(t, chg[t].epoch)'
    BY <1>1, <1>2, <2>2, ChangesKept
  <2> QED
    BY <2>1, <2>2
<1> QED
  BY <1>1, <1>3, <1>4 DEF AInv

LEMMA ResetFacts ==
    ASSUME AInv, NEW a \in Admins
    PROVE  /\ adm[a] \in ResetV /\ ResetOK(a) /\ adm[a].epoch \in Nat /\ adm[a].ver \in Nat
           /\ user \in UserV /\ user.epoch \in Nat
           /\ password \in PasswordV /\ password.ver \in Nat
           /\ Freed \in UserV /\ Freed.epoch = user.epoch /\ ~Freed.pend
           /\ SameSessions(ses)
BY DEF AInv, Types, ResetV, UserV, PasswordV, Freed, SameSessions

\* A step of a reset.
LEMMA ResetInv ==
    ASSUME AInv, NEW a \in Admins, NEW r \in ResetV, adm' = [adm EXCEPT ![a] = r],
           r.pc \in {"idle", "record", "takeover", "fresh", "stage"} => r.op = a,
           UNCHANGED <<keys, codes, chg, life>>, SameSessions(ses'),
           user' \in UserV, password' \in PasswordV, RowOK',
           (RowKept /\ CredentialsKept) \/ user'.epoch > user.epoch,
           \/ UNCHANGED <<user, password>>
           \/ \A t \in Changes : ~Owns(t, chg[t].epoch)'
    PROVE  AInv'
<1>1. adm' \in [Admins -> ResetV]
  BY DEF AInv, Types
<1>2. \A b \in Admins : ResetOK(b)'
  BY DEF AInv, Types, ResetOK
<1>3. /\ life' \in [Lifecycle -> LifeV]
      /\ \A l \in Lifecycle : LifeOK(l)'
  BY DEF AInv, Types, LifeOK
<1> QED
  BY <1>1, <1>2, <1>3, BesideInv

\* The steps that leave the row and the password alone.
LEMMA ResetProceeds ==
    ASSUME AInv, NEW a \in Admins, NEW r \in ResetV, adm' = [adm EXCEPT ![a] = r],
           r.pc \in {"idle", "record", "takeover", "fresh", "stage"} => r.op = a,
           UNCHANGED <<user, password, keys, codes, chg, life>>, SameSessions(ses')
    PROVE  AInv'
<1>1. RowKept /\ CredentialsKept /\ RowOK'
  BY DEF AInv, RowKept, HeldRow, CredentialsKept, RowOK
<1>2. user' \in UserV /\ password' \in PasswordV
  BY ResetFacts
<1> QED
  BY <1>1, <1>2, ResetInv

\* The steps that free the row, and keep the password or settle it.
LEMMA ResetFrees ==
    ASSUME AInv, NEW a \in Admins, NEW r \in ResetV, adm' = [adm EXCEPT ![a] = r],
           r.pc \in {"idle", "record", "takeover", "fresh", "stage"} => r.op = a,
           UNCHANGED <<keys, codes, ses, chg, life>>,
           user' = Freed, password' \in PasswordV,
           password'.ver = password.ver, password'.temp = password.temp
    PROVE  AInv'
<1>1. user' \in UserV /\ RowKept /\ RowOK' /\ ~user'.pend
  BY RowFreed, ResetFacts
<1>2. CredentialsKept
  BY DEF CredentialsKept
<1>3. \A t \in Changes : ~Owns(t, chg[t].epoch)'
  BY <1>1 DEF Owns
<1>4. SameSessions(ses')
  BY ResetFacts
<1> QED
  BY <1>1, <1>2, <1>3, <1>4, ResetInv

LEMMA AdminReadInv ==
    ASSUME AInv, NEW a \in Admins,
           \/ AdminRecord(a) \/ AdminRevoke(a) \/ AdminFail(a)
           \/ \E same \in BOOLEAN : AdminDecide(a, same)
    PROVE  AInv'
<1>0. adm[a] \in ResetV /\ ResetOK(a) /\ SameSessions(ses)
  BY ResetFacts
<1>1. CASE AdminRecord(a)
  <2>1. PICK r \in ResetV : r = [adm[a] EXCEPT !.pc = "record", !.epoch = user.epoch, !.pend = user.pend]
    BY <1>0, ResetFacts DEF ResetV, ResetPC, UserV
  <2>2. r.pc = "record" /\ r.op = a
    BY <1>0, <1>1, <2>1 DEF AdminRecord, ResetOK, ResetV
  <2> QED
    BY <1>0, <1>1, <2>1, <2>2, ResetProceeds DEF AdminRecord, Reset
<1>2. CASE AdminRevoke(a)
  <2>1. PICK r \in ResetV : r = [adm[a] EXCEPT !.pc = "complete"]
    BY <1>0 DEF ResetV, ResetPC
  <2>2. r.pc = "complete"
    BY <1>0, <2>1 DEF ResetV
  <2>3. SameSessions(ses')
    BY <1>2, SweptSame DEF AdminRevoke, AInv
  <2> QED
    BY <1>2, <2>1, <2>2, <2>3, ResetProceeds DEF AdminRevoke, Reset
<1>3. CASE AdminFail(a)
  <2>1. PICK r \in ResetV : r = [adm[a] EXCEPT !.pc = "over"]
    BY <1>0 DEF ResetV, ResetPC
  <2>2. r.pc = "over"
    BY <1>0, <2>1 DEF ResetV
  <2> QED
    BY <1>0, <1>3, <2>1, <2>2, ResetProceeds DEF AdminFail, Reset
<1>4. ASSUME NEW same \in BOOLEAN, AdminDecide(a, same)
      PROVE  AInv'
  <2>1. /\ adm[a].pc = "record" /\ adm[a].op = a
        /\ UNCHANGED <<user, password, keys, codes, ses, chg, life>>
    BY <1>0, <1>4 DEF AdminDecide, ResetOK
  <2>2. CASE Reset(a, [[adm[a] EXCEPT !.ver = password.ver] EXCEPT
                         !.pc = "resume", !.op = password.op, !.epoch = ExpectedEpoch(a)])
              /\ (adm[a].pend => adm[a].epoch > 0)
    <3>1. PICK e \in Nat : e = ExpectedEpoch(a)
      BY <2>2, ResetFacts DEF ExpectedEpoch
    <3>2. PICK r \in ResetV : r = [[adm[a] EXCEPT !.ver = password.ver] EXCEPT
                                      !.pc = "resume", !.op = password.op, !.epoch = e]
      BY ResetFacts DEF ResetV, ResetPC, PasswordV
    <3>3. r.pc = "resume"
      BY <1>0, <3>2 DEF ResetV
    <3> QED
      BY <1>0, <2>1, <2>2, <3>1, <3>2, <3>3, ResetProceeds DEF Reset
  <2>3. CASE \E pc \in {"takeover", "fresh"} :
               Reset(a, [[adm[a] EXCEPT !.ver = password.ver] EXCEPT !.pc = pc])
    <3>1. PICK pc \in {"takeover", "fresh"} :
             Reset(a, [[adm[a] EXCEPT !.ver = password.ver] EXCEPT !.pc = pc])
      BY <2>3
    <3>2. PICK r \in ResetV : r = [[adm[a] EXCEPT !.ver = password.ver] EXCEPT !.pc = pc]
      BY ResetFacts DEF ResetV, ResetPC
    <3>3. r.op = a
      BY <1>0, <2>1, <3>2 DEF ResetV
    <3> QED
      BY <1>0, <2>1, <3>1, <3>2, <3>3, ResetProceeds DEF Reset
  <2> QED
    BY <1>4, <2>2, <2>3 DEF AdminDecide
<1> QED
  BY <1>1, <1>2, <1>3, <1>4

LEMMA AdminFreesInv ==
    ASSUME AInv, NEW a \in Admins, AdminTakeover(a) \/ AdminAbort(a) \/ AdminComplete(a)
    PROVE  AInv'
<1>0. adm[a] \in ResetV /\ ResetOK(a) /\ SameSessions(ses)
  BY ResetFacts
<1>1. CASE AdminTakeover(a)
  <2>1. PICK r \in ResetV : r = [adm[a] EXCEPT !.pc = "fresh"]
    BY <1>0 DEF ResetV, ResetPC
  <2>2. r.op = a
    BY <1>0, <1>1, <2>1 DEF AdminTakeover, ResetOK, ResetV
  <2> QED
    BY <1>1, <2>1, <2>2, ResetFacts, ResetFrees DEF AdminTakeover, Reset
<1>2. CASE AdminAbort(a)
  <2>1. PICK r \in ResetV : r = [adm[a] EXCEPT !.pc = "over"]
    BY <1>0 DEF ResetV, ResetPC
  <2>2. r.pc = "over"
    BY <1>0, <2>1 DEF ResetV
  <2>3. /\ adm' = [adm EXCEPT ![a] = r]
        /\ user' = user \/ user' = Freed
        /\ UNCHANGED <<password, keys, codes, ses, chg, life>>
    BY <1>2, <2>1 DEF AdminAbort, Reset
  <2> QED
    BY <1>0, <2>2, <2>3, ResetFacts, ResetFrees, ResetProceeds
<1>3. CASE AdminComplete(a)
  <2>1. PICK r \in ResetV : r = [adm[a] EXCEPT !.pc = "over"]
    BY <1>0 DEF ResetV, ResetPC
  <2>2. r.pc = "over"
    BY <1>0, <2>1 DEF ResetV
  <2>3. /\ password' \in PasswordV
        /\ password'.ver = password.ver /\ password'.temp = password.temp
    <3>1. password' = [password EXCEPT !.pend = FALSE, !.op = None]
      BY <1>3 DEF AdminComplete
    <3> QED
      BY <3>1, ResetFacts DEF PasswordV
  <2> QED
    BY <1>3, <2>1, <2>2, <2>3, ResetFrees DEF AdminComplete, Reset
<1> QED
  BY <1>1, <1>2, <1>3

LEMMA AdminBeginInv ==
    ASSUME Assumptions, AInv, NEW a \in Admins, AdminBegin(a)
    PROVE  AInv'
<1>0. adm[a] \in ResetV /\ ResetOK(a) /\ SameSessions(ses)
  BY ResetFacts
<1>1. PICK e \in Nat : e = adm[a].epoch + 1
  BY ResetFacts
<1>2. PICK pc \in {"stage", "revoke"} : pc = IF adm[a].pc = "fresh" THEN "stage" ELSE "revoke"
  OBVIOUS
<1>3. PICK r \in ResetV : r = [adm[a] EXCEPT !.epoch = e, !.pc = pc]
  BY <1>0 DEF ResetV, ResetPC
<1>4. adm' = [adm EXCEPT ![a] = r]
  BY <1>1, <1>2, <1>3 DEF AdminBegin, Reset
<1>5. r.pc = "stage" => r.op = a
  BY <1>0, <1>2, <1>3 DEF ResetOK, ResetV
<1>6. r.pc \in {"stage", "revoke"}
  BY <1>0, <1>3 DEF ResetV
<1>7. CASE UNCHANGED user
  BY <1>0, <1>4, <1>5, <1>6, <1>7, ResetProceeds DEF AdminBegin
<1>8. CASE user' = Held(user.epoch + 1, adm[a].op)
  <2>1. PICK n \in Nat : n = user.epoch + 1
    BY ResetFacts
  <2>2. user' = [user EXCEPT !.epoch = n, !.pend = TRUE, !.op = adm[a].op, !.aged = FALSE]
    BY <1>8, <2>1 DEF Held
  <2>3. user' \in UserV /\ user'.epoch = n /\ user'.op = adm[a].op
    BY <1>0, <2>2, ResetFacts DEF UserV, Ops, ResetV
  <2>4. user'.epoch > user.epoch /\ user'.epoch > 0
    BY <2>1, <2>3, ResetFacts
  <2>5. \A t \in Changes : ~Owns(t, chg[t].epoch)'
    <3>1. user'.op \notin Changes
      BY <1>0, <2>3 DEF ResetV, Assumptions, UserAssumption
    <3> QED
      BY <3>1 DEF Owns
  <2>6. UNCHANGED <<password, keys, codes, ses, chg, life>>
    BY DEF AdminBegin
  <2>7. SameSessions(ses') /\ password' \in PasswordV
    BY <2>6, ResetFacts
  <2> QED
    BY <1>4, <1>5, <1>6, <2>3, <2>4, <2>5, <2>6, <2>7, ResetInv DEF RowOK
<1> QED
  BY <1>7, <1>8 DEF AdminBegin

\* A reset stages its password while the row is held for it.
LEMMA AdminStageInv ==
    ASSUME Assumptions, AInv, NEW a \in Admins, AdminStage(a)
    PROVE  AInv'
<1>0. adm[a] \in ResetV /\ ResetOK(a) /\ SameSessions(ses)
  BY ResetFacts
<1>1. PICK n \in Nat : n = adm[a].ver + 1
  BY ResetFacts
<1>2. PICK r \in ResetV : r = [adm[a] EXCEPT !.pc = "revoke", !.ver = n]
  BY <1>0 DEF ResetV, ResetPC
<1>3. adm' = [adm EXCEPT ![a] = r]
  BY <1>1, <1>2 DEF AdminStage, Reset
<1>4. r.pc = "revoke"
  BY <1>0, <1>2 DEF ResetV
<1>5. HeldRow /\ user.op = a
  BY <1>0 DEF AdminStage, OwnsAsAdmin, ResetOK, HeldRow, Assumptions, UserAssumption
<1>6. UNCHANGED <<user, keys, codes, ses, chg, life>>
  BY DEF AdminStage
<1>7. password' \in PasswordV
  <2>1. PICK v \in Nat : v = password.ver + 1
    BY ResetFacts
  <2>2. password' = [ver |-> v, temp |-> TRUE, pend |-> TRUE, op |-> adm[a].op]
    BY <2>1 DEF AdminStage
  <2> QED
    BY <1>0, <2>2 DEF PasswordV, ResetV
<1>8. RowKept /\ CredentialsKept /\ RowOK'
  BY <1>5, <1>6 DEF AInv, RowKept, HeldRow, CredentialsKept, RowOK
<1>9. \A t \in Changes : ~Owns(t, chg[t].epoch)'
  BY <1>5, <1>6 DEF Owns, Assumptions
<1>10. user' \in UserV /\ SameSessions(ses')
  BY <1>6, ResetFacts
<1> QED
  BY <1>3, <1>4, <1>6, <1>7, <1>8, <1>9, <1>10, ResetInv

-----------------------------------------------------------------------------
LEMMA LifeFacts ==
    ASSUME AInv, NEW l \in Lifecycle
    PROVE  /\ life[l] \in LifeV /\ LifeOK(l) /\ life[l].epoch \in Nat
           /\ user \in UserV /\ user.epoch \in Nat /\ password \in PasswordV
           /\ SameSessions(ses)
BY DEF AInv, Types, LifeV, UserV, SameSessions

\* A step of a disable or an enable that outdates no session.
LEMMA LifeInv ==
    ASSUME AInv, NEW l \in Lifecycle, NEW r \in LifeV, life' = [life EXCEPT ![l] = r],
           r.pc \notin {"idle", "over"} => r.epoch > 0,
           UNCHANGED <<password, keys, codes, chg, adm>>, SameSessions(ses'),
           user' \in UserV, RowOK', RowKept \/ user'.epoch > user.epoch,
           UNCHANGED user \/ \A t \in Changes : ~Owns(t, chg[t].epoch)'
    PROVE  AInv'
<1>1. life' \in [Lifecycle -> LifeV]
  BY DEF AInv, Types
<1>2. \A k \in Lifecycle : LifeOK(k)'
  BY DEF AInv, Types, LifeOK
<1>3. /\ adm' \in [Admins -> ResetV]
      /\ \A a \in Admins : ResetOK(a)'
  BY DEF AInv, Types, ResetOK
<1>4. CredentialsKept /\ password' \in PasswordV
  BY LifeFacts DEF CredentialsKept
<1> QED
  BY <1>1, <1>2, <1>3, <1>4, BesideInv

LEMMA LifeProceeds ==
    ASSUME AInv, NEW l \in Lifecycle, Cascade(l) \/ LifecycleFail(l)
    PROVE  AInv'
<1>1. UNCHANGED <<user, password, keys, codes, chg, adm>>
  BY DEF Cascade, LifecycleFail
<1>2. RowKept /\ RowOK' /\ user' \in UserV
  BY <1>1, LifeFacts DEF AInv, RowKept, HeldRow, RowOK
<1>3. CASE Cascade(l)
  <2>1. PICK pc \in {"complete", "en_complete"} :
          pc = IF life[l].pc = "cascade" THEN "complete" ELSE "en_complete"
    OBVIOUS
  <2>2. PICK r \in LifeV : r = [pc |-> pc, epoch |-> life[l].epoch]
    BY LifeFacts DEF LifeV
  <2>3. life' = [life EXCEPT ![l] = r] /\ r.epoch > 0
    BY <1>3, <2>1, <2>2, LifeFacts DEF Cascade, Step, LifeOK
  <2>4. SameSessions(ses')
    BY <1>3, EarlierSame DEF Cascade, AInv
  <2> QED
    BY <1>1, <1>2, <2>3, <2>4, LifeInv
<1>4. CASE LifecycleFail(l)
  <2>1. PICK r \in LifeV : r = [pc |-> "over", epoch |-> life[l].epoch]
    BY LifeFacts DEF LifeV
  <2>2. life' = [life EXCEPT ![l] = r] /\ r.pc = "over" /\ ses' = ses
    BY <1>4, <2>1 DEF LifecycleFail, Step
  <2> QED
    BY <1>1, <1>2, <2>2, LifeFacts, LifeInv
<1> QED
  BY <1>3, <1>4

\* The row is free at the end of a disable, and of an enable.
LEMMA LifeFrees ==
    ASSUME AInv, NEW l \in Lifecycle, CompleteDisable(l) \/ EnableCompleted(l)
    PROVE  AInv'
<1>1. UNCHANGED <<password, keys, codes, ses, chg, adm>> /\ SameSessions(ses')
  BY LifeFacts DEF CompleteDisable, EnableCompleted
<1>2. life[l].epoch > 0 /\ life[l] \in LifeV
  BY LifeFacts DEF CompleteDisable, EnableCompleted, LifeOK
<1>3. /\ user' \in UserV /\ user'.epoch = user.epoch /\ ~user'.pend
      /\ user.status = "disabled" /\ user.epoch > 0
  BY <1>2, LifeFacts DEF CompleteDisable, EnableCompleted, Freed, UserV
<1>4. RowKept /\ RowOK'
  BY <1>3 DEF RowKept, HeldRow, RowOK
<1>5. \A t \in Changes : ~Owns(t, chg[t].epoch)'
  BY <1>3 DEF Owns
<1>6. PICK pc \in {"over", "enable"} : life' = [life EXCEPT ![l] = [pc |-> pc, epoch |-> life[l].epoch]]
  BY DEF CompleteDisable, EnableCompleted, Step
<1>7. PICK r \in LifeV : r = [pc |-> pc, epoch |-> life[l].epoch]
  BY <1>2 DEF LifeV
<1> QED
  BY <1>1, <1>2, <1>3, <1>4, <1>5, <1>6, <1>7, LifeInv

\* An enable that gives the user an epoch first, or finds one.
LEMMA BeginEnableInv ==
    ASSUME AInv, NEW l \in Lifecycle, BeginEnable(l)
    PROVE  AInv'
<1>1. UNCHANGED <<password, keys, codes, ses, chg, adm>> /\ SameSessions(ses')
  BY LifeFacts DEF BeginEnable
<1>2. CASE user.status = "disabled" /\ user.epoch = 0
  <2>1. user' = Upgraded /\ Step(l, "en_cascade", 1)
    BY <1>2 DEF BeginEnable
  <2>2. user' \in UserV /\ user'.epoch = 1 /\ user'.status = "disabled"
    BY <1>2, <2>1, LifeFacts DEF Upgraded, UserV
  <2>3. PICK r \in LifeV : r = [pc |-> "en_cascade", epoch |-> 1]
    BY DEF LifeV
  <2>4. life' = [life EXCEPT ![l] = r] /\ r.epoch > 0
    BY <2>1, <2>3 DEF Step
  <2>5. RowOK' /\ user'.epoch > user.epoch
    BY <1>2, <2>2 DEF RowOK
  <2>6. \A t \in Changes : ~Owns(t, chg[t].epoch)'
    BY <2>2 DEF Owns
  <2> QED
    BY <1>1, <2>2, <2>4, <2>5, <2>6, LifeInv
<1>3. CASE ~(user.status = "disabled" /\ user.epoch = 0)
  <2>1. PICK pc \in {"en_cascade", "enable"} : Step(l, pc, user.epoch)
    BY <1>3 DEF BeginEnable
  <2>2. user' = user
    BY <1>3 DEF BeginEnable
  <2>3. user.epoch > 0
    <3>1. user.status = "disabled" \/ user.pend
      BY LifeFacts DEF BeginEnable, UserV
    <3> QED
      BY <1>3, <3>1, LifeFacts DEF AInv, RowOK
  <2>4. PICK r \in LifeV : r = [pc |-> pc, epoch |-> user.epoch]
    BY LifeFacts DEF LifeV
  <2>5. life' = [life EXCEPT ![l] = r] /\ r.epoch > 0
    BY <2>1, <2>3, <2>4 DEF Step
  <2>6. RowKept /\ RowOK' /\ user' \in UserV
    BY <2>2, LifeFacts DEF AInv, RowKept, HeldRow, RowOK
  <2> QED
    BY <1>1, <2>2, <2>5, <2>6, LifeInv
<1> QED
  BY <1>2, <1>3

\* A disable leaves every session so far in an earlier epoch.
LEMMA BeginDisableInv ==
    ASSUME Assumptions, AInv, NEW l \in Lifecycle, BeginDisable(l)
    PROVE  AInv'
<1>1. PICK e \in Nat : e = NextDisableEpoch
  BY LifeFacts DEF NextDisableEpoch
<1>2. e > 0 /\ e >= user.epoch /\ (e = user.epoch => user.status = "disabled" /\ user.epoch > 0)
  BY <1>1, LifeFacts DEF NextDisableEpoch, UserV
<1>3. user' = [status |-> "disabled", epoch |-> e, pend |-> TRUE, op |-> None, aged |-> FALSE]
  BY <1>1 DEF BeginDisable
<1>4. /\ user' \in UserV /\ user'.epoch = e /\ user'.status = "disabled" /\ RowOK'
      /\ user.epoch <= user'.epoch
  BY <1>2, <1>3, LifeFacts DEF UserV, RowOK
<1>5. PICK r \in LifeV : r = [pc |-> "cascade", epoch |-> e]
  BY DEF LifeV
<1>6. life' = [life EXCEPT ![l] = r] /\ r.epoch > 0
  BY <1>1, <1>2, <1>5 DEF BeginDisable, Step
<1>7. UNCHANGED <<password, keys, codes, chg, adm>>
  BY DEF BeginDisable
<1>8. \A s \in Sessions : ses'[s] \in SessionV /\ Right(ses[s])'
  <2> SUFFICES ASSUME NEW s \in Sessions PROVE ses'[s] \in SessionV /\ Right(ses[s])'
    OBVIOUS
  <2>1. PICK y \in SessionV : y = ses[s] /\ Right(y) /\ y.epoch \in Nat
    BY SessionFacts
  <2>2. PICK z \in SessionV :
          z = IF y.pc \in {"epoch", "made", "gated", "given"} THEN [y EXCEPT !.old = TRUE] ELSE y
    BY DEF SessionV
  <2>3. ses'[s] = z
    BY <2>1, <2>2 DEF BeginDisable, Outdated
  <2>4. y.pc \in Dated => y.epoch < user'.epoch
    BY <1>2, <1>4, <2>1, LifeFacts DEF Right, Current
  <2>5. /\ z.pc = y.pc /\ z.by = y.by /\ z.cred = y.cred /\ z.epoch = y.epoch
        /\ z.pc \notin Dated => z.old = y.old
    BY <2>2 DEF SessionV, Dated
  <2>6. Right(z)'
    BY <1>4, <2>1, <2>4, <2>5, LifeFacts DEF Right, Dated
  <2> QED
    BY <2>3, <2>6 DEF Right, Current
<1>9. Types'
  <2>1. ses' \in [Sessions -> SessionV]
    BY <1>8 DEF BeginDisable, Outdated
  <2> QED
    BY <1>4, <1>6, <1>7, <2>1 DEF AInv, Types
<1>10. \A t \in Changes : ChangeOK(t)'
  <2>1. \A t \in Changes : ~Owns(t, chg[t].epoch)'
    BY <1>4 DEF Owns
  <2> QED
    BY <1>4, <1>7, <1>9, <2>1, ChangesKept
<1>11. /\ \A a \in Admins : ResetOK(a)'
       /\ \A k \in Lifecycle : LifeOK(k)'
  BY <1>6, <1>7 DEF AInv, Types, ResetOK, LifeOK
<1> QED
  BY <1>4, <1>8, <1>9, <1>10, <1>11 DEF AInv, SessionOK

-----------------------------------------------------------------------------
LEMMA InitInv ==
    ASSUME Assumptions, Init
    PROVE  AInv
<1>0. Enrolled \subseteq Nat
  BY DEF Assumptions, UserAssumption
<1>1. PICK ver \in Nat : password = [ver |-> ver, temp |-> FALSE, pend |-> FALSE, op |-> None]
  BY <1>0 DEF Init
<1>2. PICK status \in {"active", "disabled"} :
        /\ user = [status |-> status, epoch |-> 0, pend |-> FALSE, op |-> None, aged |-> FALSE]
        /\ \E S \in SUBSET Sessions :
              ses = [s \in Sessions |-> IF s \in S THEN Issued(status = "disabled", password.ver)
                                                   ELSE NewLogin]
  BY DEF Init
<1>3. PICK S \in SUBSET Sessions :
        ses = [s \in Sessions |-> IF s \in S THEN Issued(status = "disabled", ver) ELSE NewLogin]
  BY <1>1, <1>2
<1>4. PICK d \in BOOLEAN : d = (status = "disabled")
  OBVIOUS
<1>5. \A s \in Sessions : ses[s] \in SessionV /\ Right(ses[s])
  <2> SUFFICES ASSUME NEW s \in Sessions PROVE ses[s] \in SessionV /\ Right(ses[s])
    OBVIOUS
  <2>1. CASE s \notin S
    <3>1. PICK z \in SessionV : z = NewLogin
      BY DEF SessionV, SessionPC, Kinds, NewLogin
    <3>2. Right(z)
      BY <3>1 DEF Right, NewLogin, Dated
    <3> QED
      BY <1>3, <2>1, <3>1, <3>2
  <2>2. CASE s \in S
    <3>1. PICK by \in {"password", "email"} : by = IF ver > 0 THEN "password" ELSE "email"
      OBVIOUS
    <3>2. PICK z \in SessionV :
            z = [pc |-> "given", by |-> by, cred |-> ver, epoch |-> 0,
                 row |-> TRUE, cur |-> TRUE, old |-> d]
      BY DEF SessionV, SessionPC, Kinds
    <3>3. ses[s] = z
      <4>1. ses[s] = Issued(d, ver)
        BY <1>3, <1>4, <2>2
      <4> QED
        BY <3>1, <3>2, <4>1 DEF Issued, NewLogin
    <3>4. /\ z.pc = "given" /\ z.by # "passkey" /\ z.cred = ver /\ z.epoch = 0 /\ z.old = d
      BY <3>1, <3>2
    <3>5. /\ password.ver = ver /\ ~password.temp /\ ~user.pend /\ user.epoch = 0
          /\ user.status = status
      BY <1>1, <1>2
    <3>6. z.old => user.status = "disabled"
      BY <1>4, <3>4, <3>5
    <3>7. Current(z)
      BY <3>4, <3>5, <3>6 DEF Current, HeldRow
    <3>8. Right(z)
      BY <3>4, <3>5, <3>7 DEF Right
    <3> QED
      BY <3>3, <3>8
  <2> QED
    BY <2>1, <2>2
<1>6. Types
  <2>1. ses \in [Sessions -> SessionV]
    BY <1>3, <1>5
  <2>2. user \in UserV
    BY <1>2 DEF UserV
  <2>3. password \in PasswordV
    BY <1>1 DEF PasswordV
  <2>4. keys \in [Keys -> {"none", "live", "gone"}] /\ codes \in Nat
    BY DEF Init, Assumptions, UserAssumption
  <2>5. chg \in [Changes -> ChangeV]
    BY DEF Init, ChangeV, ChangePC
  <2>6. adm \in [Admins -> ResetV] /\ life \in [Lifecycle -> LifeV]
    BY DEF Init, ResetV, ResetPC, LifeV
  <2> QED
    BY <2>1, <2>2, <2>3, <2>4, <2>5, <2>6 DEF Types
<1>7. RowOK
  BY <1>2 DEF RowOK
<1>8. \A t \in Changes : ChangeOK(t)
  BY DEF Init, ChangeOK, ChangeRight
<1>9. /\ \A a \in Admins : ResetOK(a)
      /\ \A l \in Lifecycle : LifeOK(l)
  BY DEF Init, ResetOK, LifeOK
<1> QED
  BY <1>5, <1>6, <1>7, <1>8, <1>9 DEF AInv, SessionOK

LEMMA NextInv ==
    ASSUME Assumptions, AInv, [Next]_vars
    PROVE  AInv'
<1>1. CASE UNCHANGED vars
  <2>1. UNCHANGED <<user, password, keys, codes, ses, chg, adm, life>>
    BY <1>1 DEF vars
  <2> QED
    BY <2>1 DEF AInv, Types, RowOK, SessionOK, Right, Current, HeldRow, ChangeOK, ChangeRight,
      Owns, FactorsLeft, LiveKeys, PasswordUsable, PasswordSettled, ResetOK, LifeOK
<1>2. CASE Gate \/ Age
  BY <1>2, RowInv
<1>3. ASSUME NEW s \in Sessions, LoginStep(s)
      PROVE  AInv'
  <2>1. CASE \/ PasswordAuthenticate(s) \/ TemporaryAuthenticate(s) \/ LinkAuthenticate(s)
             \/ RecoverRead(s) \/ \E k \in Keys : PasskeyAuthenticate(s, k)
    BY <2>1, AuthenticateInv
  <2>2. CASE TemporaryReplace(s)
    BY <2>2, TemporaryReplaceInv
  <2>3. CASE ReadEpoch(s)
    BY <2>3, ReadEpochInv
  <2>4. CASE CreateSession(s) \/ Recheck(s) \/ HandOut(s) \/ Refuse(s)
    BY <2>4, EstablishInv
  <2>5. CASE RecoverCommit(s)
    BY <2>5, RecoverCommitInv
  <2>6. CASE \E k \in Keys : Register(s, k)
    BY <2>6, RegisterInv
  <2> QED
    BY <1>3, <2>1, <2>2, <2>3, <2>4, <2>5, <2>6 DEF LoginStep
<1>4. ASSUME NEW t \in Changes, ChangeStep(t)
      PROVE  AInv'
  <2>1. ASSUME NEW s \in Sessions, NEW kind \in Kinds \ {"passkey"}, StartChange(t, s, kind, None)
        PROVE  AInv'
    BY <2>1, StartInv
  <2>2. ASSUME NEW s \in Sessions, NEW k \in Keys, StartChange(t, s, "passkey", k)
        PROVE  AInv'
    BY <2>2, StartInv
  <2>3. CASE BeginChange(t)
    BY <2>3, BeginInv
  <2>4. CASE ConsumeSession(t) \/ RecheckFactors(t) \/ CrashChange(t)
    BY <2>4, ProceedInv
  <2>5. CASE CommitPassword(t) \/ CommitDelete(t) \/ CommitRotation(t) \/ AbortChange(t)
    BY <2>5, CommitInv
  <2> QED
    BY <1>4, <2>1, <2>2, <2>3, <2>4, <2>5 DEF ChangeStep
<1>5. ASSUME NEW a \in Admins, AdminStep(a)
      PROVE  AInv'
  <2>1. CASE \/ AdminRecord(a) \/ AdminRevoke(a) \/ AdminFail(a)
             \/ \E same \in BOOLEAN : AdminDecide(a, same)
    BY <2>1, AdminReadInv
  <2>2. CASE AdminTakeover(a) \/ AdminAbort(a) \/ AdminComplete(a)
    BY <2>2, AdminFreesInv
  <2>3. CASE AdminBegin(a)
    BY <2>3, AdminBeginInv
  <2>4. CASE AdminStage(a)
    BY <2>4, AdminStageInv
  <2> QED
    BY <1>5, <2>1, <2>2, <2>3, <2>4 DEF AdminStep
<1>6. ASSUME NEW l \in Lifecycle, LifecycleStep(l)
      PROVE  AInv'
  BY <1>6, BeginDisableInv, BeginEnableInv, LifeProceeds, LifeFrees DEF LifecycleStep
<1> QED
  BY <1>1, <1>2, <1>3, <1>4, <1>5, <1>6 DEF Next

\* The invariant holds, for any logins, passkeys, changes, resets and disables: a session of
\* the present epoch is one the row is not held against, and rests on what the user has.
THEOREM Invariance ==
    ASSUME Assumptions
    PROVE  Spec => []AInv
<1>1. Init => AInv
  BY InitInv
<1>2. AInv /\ [Next]_vars => AInv'
  BY NextInv
<1> QED
  BY <1>1, <1>2, PTL DEF Spec

-----------------------------------------------------------------------------
\* However logins, slow changes whose row a gate freed, recoveries, resets, their retries and
\* disables interleave, a session that is accepted was opened with the password that still is
\* the password, or with a passkey that is still there; and it was not issued before a
\* disable, also when that was interrupted, repeated or done by a release without epochs.
THEOREM AcceptedRestsOnCredential ==
    ASSUME Assumptions
    PROVE  Spec => []RestsOnCredential
<1>1. ASSUME AInv PROVE RestsOnCredential
  <2> SUFFICES ASSUME NEW s \in Sessions, InUse(s)
               PROVE  /\ ses[s].by = "password" => ses[s].cred = password.ver
                      /\ ses[s].by = "passkey" => ses[s].cred \in LiveKeys
                      /\ ~ses[s].old
    BY DEF RestsOnCredential
  <2>1. Right(ses[s])
    BY <1>1, SessionFacts
  <2>2. ses[s].pc = "given" /\ ses[s].epoch = user.epoch /\ user.status = "active"
    BY DEF InUse, Accepted, GatePasses
  <2> QED
    BY <2>1, <2>2 DEF Right, Current, Dated, LiveKeys
<1> QED
  BY <1>1, Invariance, PTL

\* The steps that may make a passkey stop being live.
LEMMA OnlyDeletionShrinks ==
    ASSUME Next, keys' # keys, ~(\E s \in Sessions, k \in Keys : Register(s, k))
    PROVE  \E t \in Changes : CommitDelete(t)
<1>1. ~(Gate \/ Age)
  BY DEF Gate, Age
<1>2. \A s \in Sessions : ~LoginStep(s)
  BY DEF LoginStep, PasswordAuthenticate, TemporaryAuthenticate, TemporaryReplace,
    LinkAuthenticate, PasskeyAuthenticate, ReadEpoch, CreateSession, Recheck, HandOut, Refuse,
    RecoverRead, RecoverCommit
<1>3. \A a \in Admins : ~AdminStep(a)
  BY DEF AdminStep, AdminRecord, AdminDecide, AdminTakeover, AdminBegin, AdminStage, AdminAbort,
    AdminRevoke, AdminComplete, AdminFail
<1>4. \A l \in Lifecycle : ~LifecycleStep(l)
  BY DEF LifecycleStep, BeginDisable, BeginEnable, Cascade, CompleteDisable, EnableCompleted,
    LifecycleFail
<1>5. \A t \in Changes : ChangeStep(t) => CommitDelete(t)
  BY DEF ChangeStep, StartChange, BeginChange, ConsumeSession, RecheckFactors, CommitPassword,
    CommitRotation, AbortChange, CrashChange
<1> QED
  BY <1>1, <1>2, <1>3, <1>4, <1>5 DEF Next

\* No deletion of a passkey leaves the user without a way to log in: what delete_passkey
\* counted while it held the row is still there when it commits, or the row is not its own.
THEOREM DeletionLeavesAFactor ==
    ASSUME Assumptions
    PROVE  Spec => FactorRemains
<1> DEFINE Keeps == LiveKeys' \subseteq LiveKeys /\ LiveKeys' # LiveKeys
                      => OtherFactor' \/ codes' > 0
<1>1. ASSUME AInv, [Next]_vars PROVE Keeps
  <2> SUFFICES ASSUME LiveKeys' \subseteq LiveKeys, LiveKeys' # LiveKeys
               PROVE  OtherFactor' \/ codes' > 0
    OBVIOUS
  <2>1. keys' # keys
    BY DEF LiveKeys
  <2>2. Next
    BY <1>1, <2>1 DEF vars
  <2>3. ASSUME NEW s \in Sessions, NEW k \in Keys, Register(s, k)
        PROVE  FALSE
    <3>1. \A j \in Keys : keys[j] = "live" => keys'[j] = "live"
      BY <1>1, <2>3 DEF Register, AInv, Types
    <3> QED
      BY <3>1 DEF LiveKeys
  <2>4. PICK t \in Changes : CommitDelete(t)
    BY <2>1, <2>2, <2>3, OnlyDeletionShrinks
  <2>5. FactorsLeft(chg[t].cred) /\ chg[t].cred \in Keys
    BY <1>1, <2>4, ChangeFacts DEF CommitDelete, ChangeRight
  <2>6. \A j \in Keys : j # chg[t].cred => keys'[j] = keys[j]
    BY <1>1, <2>4 DEF CommitDelete, AInv, Types
  <2>7. UNCHANGED <<password, codes>>
    BY <2>4 DEF CommitDelete
  <2> QED
    BY <2>5, <2>6, <2>7 DEF FactorsLeft, OtherFactor, LiveKeys, PasswordUsable, PasswordSettled
<1>2. AInv /\ [Next]_vars => [Keeps]_vars
  BY <1>1
<1> QED
  BY <1>2, Invariance, PTL DEF Spec, FactorRemains

-----------------------------------------------------------------------------
(***************************************************************************)
(* A security event.                                                       *)
(***************************************************************************)
Histories == Seq(Statuses \X Nat)
Deliveries == [attempts : Nat, history : Histories]
Messages == [id : Nat, d : Deliveries, attempts : Nat, receives : Nat]
Rows == [status : Statuses, attempts : Nat, history : Histories, source : Deliveries,
         redriving : BOOLEAN, refreshLease : Nat]
\* An archived object ends with the entry of its archiving.
Objects == {o \in [status : {"archived", "dead_lettered"}, attempts : Nat, history : Histories] :
               o.status = "archived" => o.history # <<>>}
Snaps == [status : Statuses, attempts : Nat, history : Histories]
Tasks == {"none", "stream", "note", "ingress", "sweep"}
Modes == {"none", "deliver", "redrive", "refresh", "quarantine", "terminal"}
\* Steps of an invocation that need no row, and those that read it.
Free == {"idle", "store", "retain", "terminal", "announce", "done", "fail"}
OnRow == {"check", "attempt", "load", "put", "replace", "commit", "put_failed",
          "commit_failed", "give_up", "finish", "dead_letter", "redrive", "restore", "claim"}
Slot == [pc : Free \cup OnRow, task : Tasks, mode : Modes, n : Nat, cas : Nat,
         snap : Snaps \cup {Absent}, etag : Objects \cup {Absent}, lease : Nat,
         msg : Messages \cup {Absent}]

Typed ==
    /\ prod \in [phase : {"hot", "enqueue", "done", "dead"}, n : Nat, d : Deliveries,
                 twice : BOOLEAN]
    /\ late \subseteq Deliveries
    /\ queue \subseteq Messages
    /\ log \in Deliveries \cup {Absent}
    /\ row \in Rows \cup {Absent}
    /\ idx \in Statuses
    /\ stream \in [st : {"none", "ready", "busy", "done", "failed"}, left : Nat]
    /\ note \in [st : {"none", "ready", "busy", "done", "dead"}, left : Nat]
    /\ object \in Objects \cup {Absent}
    /\ work \in [Slots -> Slot]
    /\ sent \in BOOLEAN
    /\ retained \subseteq {"terminal", "quarantine"}
    /\ faults \in Nat /\ crashes \in Nat

\* What a step needs is there: the row that started it, the copy it stores, the snapshot
\* and the object it compares with; and it belongs to a task that takes it.
Ready(s) ==
    /\ s.pc \in {"store", "retain", "terminal"} => s.msg # Absent
    /\ s.pc = "retain" => s.mode \in {"terminal", "quarantine"}
    /\ s.pc \in {"attempt", "put_failed", "commit_failed"} => s.mode = "deliver"
    /\ s.pc = "restore" => s.mode = "redrive"
    /\ s.pc \in {"load", "put", "replace", "commit"} => s.mode \in {"deliver", "redrive", "refresh"}
    /\ s.pc \in {"put", "replace", "commit"} => s.snap # Absent
    /\ s.pc \in {"replace", "commit"} => s.etag # Absent
    /\ s.pc = "commit" => s.etag.status = "archived"
    /\ s.pc \in {"check", "give_up", "finish", "dead_letter"} \/ s.mode = "deliver"
         => s.task \in {"stream", "note", "sweep"}
    /\ (s.pc = "idle") <=> (s.task = "none")

Equipped ==
    /\ stream.st # "none" => row # Absent
    /\ note.st # "none" => row # Absent
    /\ idx # "pending" => row # Absent
    /\ \A w \in Slots : Ready(work[w]) /\ (work[w].pc \in OnRow => row # Absent)
    /\ \A w \in Slots : work[w].task \in {"stream", "note"} => row # Absent

Kept ==
    /\ EventIsDurable
    /\ \A w \in Slots :
         /\ work[w].task = "ingress" /\ work[w].pc = "done" => row # Absent \/ retained # {}
         /\ work[w].pc \in {"terminal", "announce"} => retained # {}

Announced ==
    /\ DeadLetterIsAnnounced
    /\ \A w \in Slots : work[w].pc = "dead_letter" => sent

-----------------------------------------------------------------------------
\* Histories, compared entry by entry.
Pre(h, g) == Len(h) <= Len(g) /\ \A k \in 1..Len(h) : h[k] = g[k]
Le(x, y) == x.attempts <= y.attempts /\ Pre(x.history, y.history)
\* What an object knows, without the entry of its archiving.
Src(o) == [attempts |-> o.attempts, history |-> SourceHistory(o)]

Holding == {w \in Slots : work[w].pc \in {"put", "replace", "commit"}}

\* What the row was when it was last read, at different times: all of it is behind the row,
\* and of any two one is behind the other.
Readings == {work[w].snap : w \in Holding}
            \cup (IF object # Absent /\ object.status = "archived" THEN {Src(object)} ELSE {})
Chain ==
    /\ \A x \in Readings : row # Absent /\ Le(x, row)
    /\ \A x, y \in Readings : Le(x, y) \/ Le(y, x)

\* An object that is about to be replaced knows less.
Replacing ==
    \A w \in Slots : work[w].pc = "replace" =>
        /\ Dominates(Proposed(w), work[w].etag)
        /\ work[w].etag.status = "archived" => ~Dominates(work[w].etag, Proposed(w))

\* A row that still has the history of a reading has its status.
SameStatus ==
    \A w \in Holding : work[w].snap.history = row.history => work[w].snap.status = row.status

OneRedrive ==
    \A v, w \in Slots : work[v].mode = "redrive" /\ work[w].mode = "redrive" => v = w

\* One invocation at a time serves the stream and its notification.
OneTask ==
    /\ \A w \in Slots :
         /\ work[w].task = "stream" => stream.st = "busy"
         /\ work[w].task = "note" => note.st = "busy"
    /\ stream.st \in {"none", "ready", "busy"} => note.st = "none"
    /\ \A v, w \in Slots :
         work[v].task = work[w].task /\ work[v].task \in {"stream", "note"} => v = w

\* The sweep serves rows that no delivery is open for.
Closed ==
    /\ idx \notin Open => row.status \notin Open
    /\ \A w \in Slots : work[w].task = "sweep" => row # Absent /\ row.status \notin Open

OneDriver == OneTask /\ Closed

\* What the modes read.
Loading ==
    \A w \in Slots :
        /\ work[w].pc = "load" /\ work[w].mode = "deliver" => row.status \in Open
        /\ work[w].pc = "load" /\ work[w].mode = "redrive" => row.status = "dead_lettered"
        /\ work[w].pc \in {"put", "replace", "commit"} =>
             /\ work[w].mode = "deliver" => work[w].snap.status \in Open
             /\ work[w].mode = "redrive" => work[w].snap.status = "dead_lettered"
             /\ work[w].mode = "refresh" => work[w].snap.status = "archive_refresh_pending"

\* What a commit rests on: the object it found or wrote is the object, or one that knows more
\* has taken its place.
Committing ==
    \A w \in Slots : work[w].pc = "commit" =>
        /\ object # Absent /\ object.status = "archived" /\ work[w].etag.status = "archived"
        /\ Le(work[w].snap, Src(work[w].etag))
        /\ Le(Src(work[w].etag), Src(object))
        /\ Le(Src(object), Src(work[w].etag)) => object = work[w].etag

-----------------------------------------------------------------------------
\* Copies.
SLe(x, y) ==
    /\ x.attempts <= y.attempts
    /\ Len(x.history) <= Len(y.history)
    /\ \A k \in 1..Len(x.history) : x.history[k][1] = y.history[k][1]

\* A record under way is not cut yet.
Fits ==
    /\ prod.phase = "hot" =>
         /\ prod.n \in 1..HotAttempts
         /\ prod.n = 1 => Len(prod.d.history) = 1
         /\ prod.n > 1 => Len(prod.d.history) = 3 * prod.n - 3
    /\ prod.phase = "enqueue" =>
         /\ prod.n \in 1..EnqueueAttempts
         /\ prod.n = 1 => Len(prod.d.history) <= 3 * HotAttempts
         /\ prod.n > 1 => Len(prod.d.history) <= 3 * HotAttempts + 3 * prod.n - 4
    /\ log # Absent => Len(log.history) <= HistoryLimit
    /\ \A m \in queue : Len(m.d.history) <= HistoryLimit

Behind(d) == (\A e \in late : SLe(e, d)) /\ (row # Absent => SLe(row.source, d))

AtReceive(m, c) == [m EXCEPT !.receives = c]

Beneath(m) ==
    /\ \A e \in late : SLe(e, m.d)
    /\ row # Absent =>
         \/ SLe(row.source, m.d)
         \/ \E c \in 1..m.receives : row.source = Received(AtReceive(m, c))

\* The one copy there is: with the producer, in the log, or in the queue.
Line ==
    /\ prod.phase \in {"hot", "enqueue"} => queue = {} /\ log = Absent /\ Behind(prod.d)
    /\ log # Absent => queue = {} /\ Behind(log)
    /\ \A m, k \in queue : m = k
    /\ \A m \in queue : Beneath(m)

\* Which invocation holds it.
Hands ==
    /\ \A w \in Slots : work[w].msg # Absent => work[w].msg \in queue
    /\ \A v, w \in Slots : work[v].msg # Absent /\ work[w].msg # Absent => v = w
    /\ \A w \in Slots : work[w].pc = "store" => work[w].msg.receives > 0
    /\ \A w \in Slots : work[w].pc = "retain" => work[w].mode # "quarantine"
    /\ "quarantine" \notin retained

OneCopy == prod.twice = FALSE => Line /\ Hands

-----------------------------------------------------------------------------
\* Sequences.

\* A history is a function on the positions up to its length.
LEMMA HistoryFacts ==
    ASSUME NEW h \in Histories
    PROVE  /\ Len(h) \in Nat /\ DOMAIN h = 1..Len(h)
           /\ h \in [1..Len(h) -> Statuses \X Nat]
           /\ \A k \in 1..Len(h) : h[k] \in Statuses \X Nat /\ h[k][1] \in Statuses
           /\ h # <<>> => Len(h) > 0
  <1>1. Len(h) \in Nat /\ DOMAIN h = 1..Len(h) /\ h \in [1..Len(h) -> Statuses \X Nat]
    BY LenProperties DEF Histories
  <1>2. \A k \in 1..Len(h) : h[k] \in Statuses \X Nat
    BY <1>1
  <1>3. h # <<>> => Len(h) \in Nat \ {0}
    BY EmptySeq DEF Histories
  <1> QED
    BY <1>1, <1>2, <1>3

\* Histories with the same entries are the same.
LEMMA SameEntries ==
    ASSUME NEW h \in Histories, NEW g \in Histories,
           Len(h) = Len(g), \A k \in 1..Len(h) : h[k] = g[k]
    PROVE  h = g
  BY SeqEqual DEF Histories

\* A piece of a history is a history, entry by entry.
LEMMA Segment ==
    ASSUME NEW g \in Histories, NEW i \in Nat \ {0}, NEW n \in Nat, n <= Len(g)
    PROVE  /\ SubSeq(g, i, n) \in Histories
           /\ Len(SubSeq(g, i, n)) = IF i <= n THEN n - i + 1 ELSE 0
           /\ \A k \in 1..(n - i + 1) : SubSeq(g, i, n)[k] = g[i + k - 1]
  <1>1. Len(g) \in Nat /\ \A k \in 1..Len(g) : g[k] \in Statuses \X Nat
    BY HistoryFacts
  <1>2. \A k \in i..n : g[k] \in Statuses \X Nat
    BY <1>1
  <1>3. i \in Int /\ n \in Int
    OBVIOUS
  <1> QED
    BY <1>2, <1>3, SubSeqProperties DEF Histories

\* A prefix is a shorter history with the same entries.
LEMMA PrefixIsPre ==
    ASSUME NEW h \in Histories, NEW g \in Histories
    PROVE  IsPrefix(h, g) <=> Pre(h, g)
  <1>0. Len(h) \in Nat /\ Len(g) \in Nat
    BY HistoryFacts
  <1>1. SubSeq(h, 1, Len(h)) = h
    BY SubSeqFull DEF Histories
  <1>2. CASE Len(h) <= Len(g)
    <2>1. /\ SubSeq(g, 1, Len(h)) \in Histories
          /\ Len(SubSeq(g, 1, Len(h))) = Len(h)
          /\ \A k \in 1..Len(h) : SubSeq(g, 1, Len(h))[k] = g[k]
      <3>1. /\ SubSeq(g, 1, Len(h)) \in Histories
            /\ Len(SubSeq(g, 1, Len(h))) = IF 1 <= Len(h) THEN Len(h) - 1 + 1 ELSE 0
            /\ \A k \in 1..(Len(h) - 1 + 1) : SubSeq(g, 1, Len(h))[k] = g[1 + k - 1]
        BY <1>0, <1>2, Segment
      <3>2. \A k \in 1..Len(h) : SubSeq(g, 1, Len(h))[k] = g[k]
        <4> TAKE k \in 1..Len(h)
        <4>1. k \in 1..(Len(h) - 1 + 1) /\ 1 + k - 1 = k
          BY <1>0
        <4> QED
          BY <3>1, <4>1
      <3> QED
        BY <1>0, <3>1, <3>2
    <2>2. (h = SubSeq(g, 1, Len(h))) <=> (\A k \in 1..Len(h) : h[k] = g[k])
      BY <2>1, SameEntries
    <2> QED
      BY <1>1, <1>2, <2>2 DEF IsPrefix, Pre
  <1>3. CASE ~(Len(h) <= Len(g))
    BY <1>3 DEF IsPrefix, Pre
  <1> QED
    BY <1>2, <1>3

\* The statuses of a history, position by position.
LEMMA StatusesFacts ==
    ASSUME NEW h \in Histories
    PROVE  /\ StatusesOf(h) \in Seq(Statuses) /\ Len(StatusesOf(h)) = Len(h)
           /\ \A k \in 1..Len(h) : StatusesOf(h)[k] = h[k][1]
  <1>1. Len(h) \in Nat /\ DOMAIN h = 1..Len(h)
    BY HistoryFacts
  <1>2. StatusesOf(h) \in [1..Len(h) -> Statuses] /\ DOMAIN StatusesOf(h) = 1..Len(h)
        /\ \A k \in 1..Len(h) : StatusesOf(h)[k] = h[k][1]
    BY <1>1, HistoryFacts DEF StatusesOf
  <1>3. StatusesOf(h) \in Seq(Statuses)
    BY <1>1, <1>2, SeqDef
  <1>4. Len(StatusesOf(h)) \in Nat /\ DOMAIN StatusesOf(h) = 1..Len(StatusesOf(h))
    BY <1>3, LenProperties
  <1>5. Len(StatusesOf(h)) = Len(h)
    BY <1>1, <1>2, <1>4
  <1> QED
    BY <1>2, <1>3, <1>5

\* The comparison of a duplicate (reconcile_duplicate_delivery) looks at the statuses only.
LEMMA StatusPrefix ==
    ASSUME NEW h \in Histories, NEW g \in Histories
    PROVE  IsPrefix(StatusesOf(h), StatusesOf(g))
             <=> /\ Len(h) <= Len(g)
                 /\ \A k \in 1..Len(h) : h[k][1] = g[k][1]
  <1> DEFINE s == StatusesOf(h)
             t == StatusesOf(g)
  <1>1. /\ s \in Seq(Statuses) /\ t \in Seq(Statuses) /\ Len(s) = Len(h) /\ Len(t) = Len(g)
        /\ \A k \in 1..Len(h) : s[k] = h[k][1]
        /\ \A k \in 1..Len(g) : t[k] = g[k][1]
        /\ Len(h) \in Nat /\ Len(g) \in Nat
        /\ \A k \in 1..Len(g) : t[k] \in Statuses
    BY StatusesFacts, HistoryFacts
  <1> HIDE DEF s, t
  <1>2. SubSeq(s, 1, Len(s)) = s
    BY <1>1, SubSeqFull
  <1>3. CASE Len(h) <= Len(g)
    <2>1. \A k \in 1..Len(h) : t[k] \in Statuses /\ t[k] = g[k][1]
      BY <1>1, <1>3
    <2>2. /\ SubSeq(t, 1, Len(h)) \in Seq(Statuses)
          /\ Len(SubSeq(t, 1, Len(h))) = IF 1 <= Len(h) THEN Len(h) - 1 + 1 ELSE 0
          /\ \A k \in 1..(Len(h) - 1 + 1) : SubSeq(t, 1, Len(h))[k] = t[1 + k - 1]
      BY <1>1, <2>1, SubSeqProperties
    <2>3. Len(SubSeq(t, 1, Len(h))) = Len(h)
      BY <1>1, <2>2
    <2>4. \A k \in 1..Len(h) : SubSeq(t, 1, Len(h))[k] = g[k][1]
      <3> TAKE k \in 1..Len(h)
      <3>1. k \in 1..(Len(h) - 1 + 1) /\ 1 + k - 1 = k
        BY <1>1
      <3> QED
        BY <2>1, <2>2, <3>1
    <2>5. (s = SubSeq(t, 1, Len(h))) <=> (\A k \in 1..Len(h) : h[k][1] = g[k][1])
      <3>1. ASSUME s = SubSeq(t, 1, Len(h)) PROVE \A k \in 1..Len(h) : h[k][1] = g[k][1]
        BY <1>1, <2>4, <3>1
      <3>2. ASSUME \A k \in 1..Len(h) : h[k][1] = g[k][1] PROVE s = SubSeq(t, 1, Len(h))
        <4>1. \A k \in 1..Len(s) : s[k] = SubSeq(t, 1, Len(h))[k]
          BY <1>1, <2>4, <3>2
        <4> QED
          BY <1>1, <2>2, <2>3, <4>1, SeqEqual
      <3> QED
        BY <3>1, <3>2
    <2> QED
      BY <1>1, <1>2, <1>3, <2>5 DEF IsPrefix, s, t
  <1>4. CASE ~(Len(h) <= Len(g))
    BY <1>1, <1>4 DEF IsPrefix, s, t
  <1> QED
    BY <1>3, <1>4

\* Pre is a partial order on histories.
LEMMA PreReflexive == ASSUME NEW h \in Histories PROVE Pre(h, h)
  BY HistoryFacts DEF Pre

LEMMA PreTransitive ==
    ASSUME NEW f \in Histories, NEW g \in Histories, NEW h \in Histories, Pre(f, g), Pre(g, h)
    PROVE  Pre(f, h)
  <1>1. Len(f) \in Nat /\ Len(g) \in Nat /\ Len(h) \in Nat
    BY HistoryFacts
  <1> QED
    BY <1>1 DEF Pre

LEMMA PreAntisymmetric ==
    ASSUME NEW h \in Histories, NEW g \in Histories, Pre(h, g), Pre(g, h)
    PROVE  h = g
  <1>1. Len(h) \in Nat /\ Len(g) \in Nat
    BY HistoryFacts
  <1>2. Len(h) = Len(g) /\ \A k \in 1..Len(h) : h[k] = g[k]
    BY <1>1 DEF Pre
  <1> QED
    BY <1>2, SameEntries

\* A history with one more entry.
LEMMA Appended ==
    ASSUME NEW h \in Histories, NEW e \in Statuses \X Nat
    PROVE  /\ Append(h, e) \in Histories /\ Append(h, e) # <<>>
           /\ Len(Append(h, e)) = Len(h) + 1
           /\ \A k \in 1..Len(h) : Append(h, e)[k] = h[k]
           /\ Append(h, e)[Len(h) + 1] = e
           /\ Pre(h, Append(h, e)) /\ Append(h, e) # h
           /\ Front(Append(h, e)) = h /\ Last(Append(h, e)) = e
  <1> DEFINE a == Append(h, e)
  <1>0. Len(h) \in Nat
    BY HistoryFacts
  <1>1. /\ a \in Histories /\ a # <<>> /\ Len(a) = Len(h) + 1
        /\ \A k \in 1..Len(h) : a[k] = h[k]
        /\ a[Len(h) + 1] = e
    <2> DEFINE S == Statuses \X Nat
    <2>1. e \in S /\ h \in Seq(S)
      BY DEF Histories
    <2> HIDE DEF S
    <2>2. /\ a \in Seq(S) /\ a # <<>> /\ Len(a) = Len(h) + 1
          /\ \A k \in 1..Len(h) : a[k] = h[k]
          /\ a[Len(h) + 1] = e
      BY <2>1, AppendProperties
    <2> QED
      BY <2>2 DEF S, Histories
  <1> HIDE DEF a
  <1>2. Pre(h, a) /\ a # h
    BY <1>0, <1>1 DEF Pre
  <1>3. /\ SubSeq(a, 1, Len(h)) \in Histories
        /\ Len(SubSeq(a, 1, Len(h))) = IF 1 <= Len(h) THEN Len(h) - 1 + 1 ELSE 0
        /\ \A k \in 1..(Len(h) - 1 + 1) : SubSeq(a, 1, Len(h))[k] = a[1 + k - 1]
    <2>1. Len(h) <= Len(a) /\ 1 \in Nat \ {0}
      BY <1>0, <1>1
    <2> QED
      BY <1>0, <1>1, <2>1, Segment
  <1>4. \A k \in 1..Len(h) : SubSeq(a, 1, Len(h))[k] = h[k]
    <2> TAKE k \in 1..Len(h)
    <2>1. k \in 1..(Len(h) - 1 + 1) /\ 1 + k - 1 = k
      BY <1>0
    <2> QED
      BY <1>1, <1>3, <2>1
  <1>5. SubSeq(a, 1, Len(h)) = h
    <2>1. Len(SubSeq(a, 1, Len(h))) = Len(h)
      BY <1>0, <1>3
    <2> QED
      BY <1>3, <1>4, <2>1, SameEntries
  <1>6. Front(a) = h /\ Last(a) = e
    <2>1. Len(a) - 1 = Len(h)
      BY <1>0, <1>1
    <2> QED
      BY <1>1, <1>5, <2>1 DEF Front, Last
  <1> QED
    BY <1>1, <1>2, <1>6 DEF a

\* A history continued by another.
LEMMA Concatenated ==
    ASSUME NEW h \in Histories, NEW g \in Histories
    PROVE  /\ h \o g \in Histories /\ Len(h \o g) = Len(h) + Len(g)
           /\ \A k \in 1..Len(h) : (h \o g)[k] = h[k]
           /\ \A k \in 1..Len(g) : (h \o g)[Len(h) + k] = g[k]
           /\ Pre(h, h \o g)
  <1>0. Len(h) \in Nat /\ Len(g) \in Nat
    BY HistoryFacts
  <1> DEFINE c == h \o g
  <1>1. /\ c \in Histories /\ Len(c) = Len(h) + Len(g)
        /\ \A k \in 1..(Len(h) + Len(g)) : c[k] = IF k <= Len(h) THEN h[k] ELSE g[k - Len(h)]
    BY ConcatProperties DEF Histories
  <1> HIDE DEF c
  <1>2. \A k \in 1..Len(h) : c[k] = h[k]
    BY <1>0, <1>1
  <1>3. ASSUME NEW k \in 1..Len(g) PROVE c[Len(h) + k] = g[k]
    <2>1. Len(h) + k \in 1..(Len(h) + Len(g)) /\ ~(Len(h) + k <= Len(h)) /\ Len(h) + k - Len(h) = k
      BY <1>0
    <2> QED
      BY <1>1, <2>1
  <1>4. Pre(h, c)
    BY <1>0, <1>1, <1>2 DEF Pre
  <1> QED
    BY <1>1, <1>2, <1>3, <1>4 DEF c

\* A history without its last entry.
LEMMA FrontFacts ==
    ASSUME NEW h \in Histories, h # <<>>
    PROVE  /\ Front(h) \in Histories /\ Len(Front(h)) = Len(h) - 1 /\ Pre(Front(h), h)
           /\ Last(h) \in Statuses \X Nat
           /\ Append(Front(h), Last(h)) = h
  <1>0. Len(h) \in Nat /\ Len(h) > 0 /\ \A k \in 1..Len(h) : h[k] \in Statuses \X Nat
    BY HistoryFacts
  <1>1. PICK n \in Nat : n = Len(h) - 1
    BY <1>0
  <1> DEFINE f == SubSeq(h, 1, n)
  <1>2. /\ f \in Histories /\ Len(f) = IF 1 <= n THEN n - 1 + 1 ELSE 0
        /\ \A k \in 1..(n - 1 + 1) : f[k] = h[1 + k - 1]
    <2>1. n <= Len(h) /\ 1 \in Nat \ {0}
      BY <1>0, <1>1
    <2> QED
      BY <2>1, Segment
  <1> HIDE DEF f
  <1>3. Len(f) = n /\ \A k \in 1..n : f[k] = h[k]
    <2>1. Len(f) = n
      BY <1>2
    <2>2. ASSUME NEW k \in 1..n PROVE f[k] = h[k]
      <3>1. k \in 1..(n - 1 + 1) /\ 1 + k - 1 = k
        OBVIOUS
      <3> QED
        BY <1>2, <3>1
    <2> QED
      BY <2>1, <2>2
  <1>4. Front(h) = f
    BY <1>1 DEF Front, f
  <1>5. Last(h) \in Statuses \X Nat /\ Last(h) = h[n + 1]
    BY <1>0, <1>1 DEF Last
  <1>6. Append(f, Last(h)) = h
    <2>1. /\ Append(f, Last(h)) \in Histories /\ Len(Append(f, Last(h))) = n + 1
          /\ \A k \in 1..n : Append(f, Last(h))[k] = f[k]
          /\ Append(f, Last(h))[n + 1] = Last(h)
      BY <1>2, <1>3, <1>5, Appended
    <2>2. Len(h) = n + 1
      BY <1>0, <1>1
    <2>3. \A k \in 1..(n + 1) : Append(f, Last(h))[k] = h[k]
      <3> TAKE k \in 1..(n + 1)
      <3>1. CASE k = n + 1
        BY <1>5, <2>1, <3>1
      <3>2. CASE k # n + 1
        <4>1. k \in 1..n
          BY <3>2
        <4> QED
          BY <1>3, <2>1, <4>1
      <3> QED
        BY <3>1, <3>2
    <2> QED
      BY <2>1, <2>2, <2>3, SameEntries
  <1>7. Pre(f, h)
    BY <1>0, <1>1, <1>3 DEF Pre
  <1> QED
    BY <1>1, <1>2, <1>3, <1>4, <1>5, <1>6, <1>7

-----------------------------------------------------------------------------
\* Deliveries, rows and objects.

\* Absent is none of the records.
LEMMA AbsentFacts ==
    Absent \notin Rows /\ Absent \notin Objects /\ Absent \notin Snaps /\ Absent \notin Deliveries
    /\ Absent \notin Messages
  <1>1. DOMAIN Absent = {"none"}
    BY DEF Absent
  <1>2. \A x \in Rows : DOMAIN x = {"status", "attempts", "history", "source", "redriving",
                                    "refreshLease"}
    BY DEF Rows
  <1>3. \A x \in Objects \cup Snaps : DOMAIN x = {"status", "attempts", "history"}
    BY DEF Objects, Snaps
  <1>4. \A x \in Deliveries : DOMAIN x = {"attempts", "history"}
    BY DEF Deliveries
  <1>5. \A x \in Messages : DOMAIN x = {"id", "d", "attempts", "receives"}
    BY DEF Messages
  <1> QED
    BY <1>1, <1>2, <1>3, <1>4, <1>5

\* The short histories attempts are made of.
LEMMA OneEntry ==
    ASSUME NEW e \in Statuses \X Nat
    PROVE  <<e>> \in Histories /\ Len(<<e>>) = 1 /\ <<e>>[1] = e
  BY DEF Histories

LEMMA NoEntry == <<>> \in Histories /\ Len(<<>>) = 0
  BY EmptySeq DEF Histories

LEMMA DeliveryFacts ==
    ASSUME NEW d \in Deliveries
    PROVE  d.attempts \in Nat /\ d.history \in Histories
  BY DEF Deliveries

\* A failed attempt only adds its entry.
LEMMA FailedFacts ==
    ASSUME NEW d \in Deliveries
    PROVE  /\ Failed(d) \in Deliveries /\ Failed(d).attempts = d.attempts
           /\ Failed(d).history = Append(d.history, Once("failed"))
           /\ Len(Failed(d).history) = Len(d.history) + 1 /\ Le(d, Failed(d))
  <1>1. Once("failed") \in Statuses \X Nat
    BY DEF Once, At, Statuses, Open
  <1>2. d.attempts \in Nat /\ d.history \in Histories
    BY DeliveryFacts
  <1>3. Failed(d).attempts = d.attempts /\ Failed(d).history = Append(d.history, Once("failed"))
        /\ Failed(d) = [attempts |-> d.attempts, history |-> Append(d.history, Once("failed"))]
    <2>1. PICK h : h = Append(d.history, Once("failed"))
      OBVIOUS
    <2>2. Failed(d) = [d EXCEPT !.history = h]
      BY <2>1 DEF Failed
    <2>3. Failed(d).attempts = d.attempts /\ Failed(d).history = h
          /\ Failed(d) = [attempts |-> d.attempts, history |-> h]
      BY <2>2 DEF Deliveries
    <2> QED
      BY <2>1, <2>3
  <1>4. /\ Append(d.history, Once("failed")) \in Histories
        /\ Len(Append(d.history, Once("failed"))) = Len(d.history) + 1
        /\ Pre(d.history, Append(d.history, Once("failed")))
    BY <1>1, <1>2, Appended
  <1> QED
    BY <1>2, <1>3, <1>4 DEF Deliveries, Le

\* A new attempt only adds entries, two when it is a retry.
LEMMA StartFacts ==
    ASSUME NEW d \in Deliveries, NEW again \in BOOLEAN
    PROVE  /\ StartAttempt(d, again) \in Deliveries
           /\ StartAttempt(d, again).attempts = d.attempts + 1
           /\ Len(StartAttempt(d, again).history) = Len(d.history) + (IF again THEN 2 ELSE 1)
           /\ Le(d, StartAttempt(d, again))
  <1> DEFINE a == IF again THEN <<Once("retrying")>> ELSE <<>>
             p == <<Once("pending")>>
             h == d.history \o a
  <1>1. Once("retrying") \in Statuses \X Nat /\ Once("pending") \in Statuses \X Nat
    BY DEF Once, At, Statuses, Open
  <1>2. a \in Histories /\ Len(a) = (IF again THEN 1 ELSE 0) /\ p \in Histories /\ Len(p) = 1
    BY <1>1, OneEntry, NoEntry
  <1>3. d.attempts \in Nat /\ d.history \in Histories /\ Len(d.history) \in Nat
    BY DeliveryFacts, HistoryFacts
  <1> HIDE DEF a, p
  <1>4. h \in Histories /\ Len(h) = Len(d.history) + Len(a) /\ Pre(d.history, h)
    BY <1>2, <1>3, Concatenated
  <1> HIDE DEF h
  <1>5. h \o p \in Histories /\ Len(h \o p) = Len(h) + Len(p) /\ Pre(h, h \o p)
    BY <1>2, <1>4, Concatenated
  <1>6. Pre(d.history, h \o p)
    BY <1>3, <1>4, <1>5, PreTransitive
  <1>7. StartAttempt(d, again) = [attempts |-> d.attempts + 1, history |-> h \o p]
    BY DEF StartAttempt, h, a, p
  <1>8. Len(h \o p) = Len(d.history) + (IF again THEN 2 ELSE 1)
    <2>1. CASE again
      BY <1>2, <1>3, <1>4, <1>5, <2>1
    <2>2. CASE ~again
      BY <1>2, <1>3, <1>4, <1>5, <2>2
    <2> QED
      BY <2>1, <2>2
  <1> QED
    BY <1>3, <1>5, <1>6, <1>7, <1>8 DEF Deliveries, Le

LEMMA PendingFacts == Pending \in Deliveries /\ Len(Pending.history) = 1
  <1>1. Once("pending") \in Statuses \X Nat
    BY DEF Once, At, Statuses, Open
  <1> QED
    BY <1>1, OneEntry DEF Pending, Deliveries

\* What a row's source knows is covered, what continues it extends it.
LEMMA CoveredFacts ==
    ASSUME NEW r \in Rows, NEW d \in Deliveries
    PROVE  /\ SLe(d, r.source) => Covered(r, d)
           /\ SLe(r.source, d) => Extends(r, d)
           /\ Extends(r, d) => Len(r.source.history) <= Len(d.history)
           /\ ~Covered(r, d) => r.source.attempts <= d.attempts
           /\ Extends(r, d) /\ ~Covered(r, d) => SLe(r.source, d)
  <1>1. r.source \in Deliveries
    BY DEF Rows
  <1>2. /\ d.attempts \in Nat /\ d.history \in Histories
        /\ r.source.attempts \in Nat /\ r.source.history \in Histories
    BY <1>1, DeliveryFacts
  <1>3. /\ IsPrefix(StatusesOf(d.history), StatusesOf(r.source.history))
             <=> /\ Len(d.history) <= Len(r.source.history)
                 /\ \A k \in 1..Len(d.history) : d.history[k][1] = r.source.history[k][1]
        /\ IsPrefix(StatusesOf(r.source.history), StatusesOf(d.history))
             <=> /\ Len(r.source.history) <= Len(d.history)
                 /\ \A k \in 1..Len(r.source.history) : r.source.history[k][1] = d.history[k][1]
    BY <1>2, StatusPrefix
  <1> QED
    BY <1>2, <1>3 DEF Covered, Extends, SLe

LEMMA RowFacts ==
    ASSUME NEW r \in Rows
    PROVE  /\ r.status \in Statuses /\ r.attempts \in Nat /\ r.history \in Histories
           /\ r.source \in Deliveries /\ r.redriving \in BOOLEAN /\ r.refreshLease \in Nat
           /\ r # Absent
  BY AbsentFacts DEF Rows

\* The row of a first write remembers what was written.
LEMMA NewRowFacts ==
    ASSUME NEW d \in Deliveries
    PROVE  NewRow(d) \in Rows /\ NewRow(d).source = d /\ NewRow(d).status = "pending"
  BY DeliveryFacts DEF NewRow, Rows, Statuses, Open

\* A row that is behind another: its attempts and its history are there, and as long as the
\* history is the same, the status is.
Grows(r, s) == Le(r, s) /\ (s.history = r.history => s.status = r.status)

Refreshed(status) ==
    IF status \in {"archived", "archive_refresh_pending"} THEN "archive_refresh_pending" ELSE status

\* A merge only adds to the row and remembers the copy as its source.
LEMMA MergedFacts ==
    ASSUME NEW r \in Rows, NEW d \in Deliveries, ~Covered(r, d), Extends(r, d)
    PROVE  /\ Merged(r, d) \in Rows /\ Grows(r, Merged(r, d))
           /\ Merged(r, d).source = d /\ Merged(r, d).status = Refreshed(r.status)
  <1> DEFINE suffix  == SubSeq(d.history, Len(r.source.history) + 1, Len(d.history))
             refresh == r.status \in {"archived", "archive_refresh_pending"}
             marker  == IF refresh THEN <<Once("archive_refresh_pending")>> ELSE <<>>
             long    == r.history \o suffix
  <1>1. /\ r.status \in Statuses /\ r.attempts \in Nat /\ r.history \in Histories
        /\ r.source \in Deliveries
    BY RowFacts
  <1>2. /\ d.attempts \in Nat /\ d.history \in Histories
        /\ r.source.attempts \in Nat /\ r.source.history \in Histories
        /\ Len(d.history) \in Nat /\ Len(r.source.history) \in Nat
    BY <1>1, DeliveryFacts, HistoryFacts
  <1>3. Len(r.source.history) <= Len(d.history) /\ r.source.attempts <= d.attempts
    BY CoveredFacts
  <1>4. suffix \in Histories
    <2>1. Len(r.source.history) + 1 \in Nat \ {0} /\ Len(d.history) <= Len(d.history)
      BY <1>2
    <2> QED
      BY <1>2, <2>1, Segment
  <1>5. marker \in Histories /\ (refresh => Len(marker) = 1)
    BY NoEntry, OneEntry DEF Once, At, Statuses, Open
  <1> HIDE DEF suffix, marker
  <1>6. long \in Histories /\ Pre(r.history, long) /\ Len(long) = Len(r.history) + Len(suffix)
        /\ Len(r.history) \in Nat /\ Len(suffix) \in Nat /\ Len(marker) \in Nat
    BY <1>1, <1>4, <1>5, Concatenated, HistoryFacts
  <1> HIDE DEF long
  <1>7. long \o marker \in Histories /\ Pre(long, long \o marker)
        /\ Len(long \o marker) = Len(long) + Len(marker)
    BY <1>5, <1>6, Concatenated
  <1>8. Pre(r.history, long \o marker)
    BY <1>1, <1>6, <1>7, PreTransitive
  <1>9. r.attempts + d.attempts - r.source.attempts \in Nat
        /\ r.attempts <= r.attempts + d.attempts - r.source.attempts
    BY <1>1, <1>2, <1>3
  <1>10. Merged(r, d) = [r EXCEPT !.source = d, !.status = Refreshed(r.status),
                                  !.history = long \o marker,
                                  !.attempts = r.attempts + d.attempts - r.source.attempts]
    BY DEF Merged, Refreshed, long, suffix, marker
  <1>11. PICK a \in Nat : a = r.attempts + d.attempts - r.source.attempts
    BY <1>9
  <1>12. PICK s \in Statuses : s = Refreshed(r.status)
    BY <1>1 DEF Refreshed, Statuses
  <1>13. PICK h \in Histories : h = long \o marker
    BY <1>7
  <1>14. Merged(r, d) = [r EXCEPT !.source = d, !.status = s, !.history = h, !.attempts = a]
    BY <1>10, <1>11, <1>12, <1>13
  <1>15. /\ Merged(r, d) \in Rows /\ Merged(r, d).source = d /\ Merged(r, d).status = s
         /\ Merged(r, d).history = h /\ Merged(r, d).attempts = a
    BY <1>14 DEF Rows
  <1>16. h = r.history => s = r.status
    <2>1. CASE refresh
      <3>1. Len(h) = Len(r.history) + Len(suffix) + 1
        <4>1. Len(marker) = 1
          BY <1>5, <2>1
        <4>2. Len(h) = Len(r.history) + Len(suffix) + Len(marker)
          BY <1>6, <1>7, <1>13
        <4> QED
          BY <4>1, <4>2
      <3>2. Len(h) # Len(r.history)
        BY <1>6, <3>1
      <3> QED
        BY <3>2
    <2>2. CASE ~refresh
      BY <1>12, <2>2 DEF Refreshed
    <2> QED
      BY <2>1, <2>2
  <1> QED
    BY <1>8, <1>9, <1>11, <1>12, <1>13, <1>15, <1>16 DEF Grows, Le

LEMMA GrowsReflexive == \A r \in Rows : Grows(r, r)
  <1> TAKE r \in Rows
  <1>1. r.attempts \in Nat /\ r.history \in Histories
    BY RowFacts
  <1> QED
    BY <1>1, PreReflexive DEF Grows, Le

\* A write leaves the row, creates it, or merges what continues its source.
LEMMA StoredFacts ==
    ASSUME NEW r \in Rows \cup {Absent}, NEW d \in Deliveries
    PROVE  /\ Stored(r, d) \in Rows
           /\ r = Absent => Stored(r, d) = NewRow(d)
           /\ r # Absent => \/ Stored(r, d) = r
                            \/ /\ SLe(r.source, d) /\ Stored(r, d).source = d
                               /\ Grows(r, Stored(r, d))
                               /\ Stored(r, d).status = Refreshed(r.status)
  <1>1. CASE r = Absent
    BY <1>1, NewRowFacts DEF Stored
  <1>2. CASE r # Absent
    <2>1. r \in Rows
      BY <1>2
    <2>2. CASE Covered(r, d) \/ ~Extends(r, d)
      BY <1>2, <2>1, <2>2 DEF Stored
    <2>3. CASE ~Covered(r, d) /\ Extends(r, d)
      <3>1. Stored(r, d) = Merged(r, d)
        BY <1>2, <2>3 DEF Stored
      <3> QED
        BY <1>2, <2>1, <2>3, <3>1, MergedFacts, CoveredFacts
    <2> QED
      BY <2>2, <2>3
  <1> QED
    BY <1>1, <1>2

-----------------------------------------------------------------------------
\* Comparing objects.

Timed(x) == x.attempts \in Nat /\ x.history \in Histories

\* Le is a partial order on what has attempts and a history.
LEMMA LeReflexive == ASSUME NEW x, Timed(x) PROVE Le(x, x)
  BY PreReflexive DEF Timed, Le

LEMMA LeTransitive ==
    ASSUME NEW x, NEW y, NEW z, Timed(x), Timed(y), Timed(z), Le(x, y), Le(y, z)
    PROVE  Le(x, z)
  BY PreTransitive DEF Timed, Le

LEMMA LeAntisymmetric ==
    ASSUME NEW x, NEW y, Timed(x), Timed(y), Le(x, y), Le(y, x)
    PROVE  x.attempts = y.attempts /\ x.history = y.history
  BY PreAntisymmetric DEF Timed, Le

LEMMA TimedFacts ==
    /\ \A r \in Rows : Timed(r)
    /\ \A s \in Snaps : Timed(s)
    /\ \A d \in Deliveries : Timed(d)
  BY DEF Timed, Rows, Snaps, Deliveries

\* What an object knows without the entry of its archiving.
LEMMA ObjectFacts ==
    ASSUME NEW o \in Objects
    PROVE  /\ Src(o) \in Deliveries /\ Timed(Src(o)) /\ Src(o).attempts = o.attempts
           /\ o.status \in {"archived", "dead_lettered"} /\ o.history \in Histories
           /\ o.status = "archived" =>
                /\ o.history # <<>> /\ Last(o.history) \in Statuses \X Nat
                /\ o.history = Append(Src(o).history, Last(o.history))
  <1>1. /\ o.attempts \in Nat /\ o.history \in Histories /\ o.status \in {"archived", "dead_lettered"}
        /\ o.status = "archived" => o.history # <<>>
    BY DEF Objects
  <1>2. Src(o).attempts = o.attempts /\ Src(o).history = SourceHistory(o)
    BY DEF Src
  <1>3. CASE o.status = "archived"
    <2>1. SourceHistory(o) = Front(o.history)
      BY <1>3 DEF SourceHistory
    <2>2. /\ Front(o.history) \in Histories /\ Last(o.history) \in Statuses \X Nat
          /\ Append(Front(o.history), Last(o.history)) = o.history
      BY <1>1, <1>3, FrontFacts
    <2> QED
      BY <1>1, <1>2, <2>1, <2>2 DEF Src, Timed, Deliveries
  <1>4. CASE o.status # "archived"
    <2>1. SourceHistory(o) = o.history
      BY <1>4 DEF SourceHistory
    <2> QED
      BY <1>1, <1>2, <1>4, <2>1 DEF Src, Timed, Deliveries
  <1> QED
    BY <1>3, <1>4

\* One object dominates another when it knows at least as much.
LEMMA DominatesIsLe ==
    ASSUME NEW o \in Objects, NEW p \in Objects
    PROVE  Dominates(o, p) <=> Le(Src(p), Src(o))
  <1>1. Src(o) \in Deliveries /\ Src(p) \in Deliveries
    BY ObjectFacts
  <1>2. /\ Src(o).attempts = o.attempts /\ Src(o).history = SourceHistory(o)
        /\ Src(p).attempts = p.attempts /\ Src(p).history = SourceHistory(p)
    BY DEF Src
  <1>3. /\ SourceHistory(o) \in Histories /\ SourceHistory(p) \in Histories
        /\ o.attempts \in Nat /\ p.attempts \in Nat
    BY <1>1, <1>2, DeliveryFacts
  <1>4. IsPrefix(SourceHistory(p), SourceHistory(o)) <=> Pre(SourceHistory(p), SourceHistory(o))
    BY <1>3, PrefixIsPre
  <1> QED
    BY <1>2, <1>3, <1>4 DEF Dominates, Le

\* What the comparison with the stored object decides.
LEMMA CompareFacts ==
    ASSUME NEW o \in Objects, NEW p \in Objects
    PROVE  /\ compare_archive_objects(o, p) = "keep"
                => o.status = "archived" /\ Le(Src(p), Src(o))
           /\ compare_archive_objects(o, p) = "replace"
                => Le(Src(o), Src(p)) /\ (o.status = "archived" => ~Le(Src(p), Src(o)))
           /\ compare_archive_objects(o, p) = "error" /\ o.status = "archived"
                => ~Le(Src(o), Src(p)) /\ ~Le(Src(p), Src(o))
  <1>1. /\ Dominates(o, p) <=> Le(Src(p), Src(o))
        /\ Dominates(p, o) <=> Le(Src(o), Src(p))
    BY DominatesIsLe
  <1>2. o.status \in {"archived", "dead_lettered"}
    BY ObjectFacts
  <1> QED
    BY <1>1, <1>2 DEF compare_archive_objects

LEMMA SnapFacts ==
    ASSUME NEW s \in Snaps
    PROVE  s.status \in Statuses /\ s.attempts \in Nat /\ s.history \in Histories /\ Timed(s)
  BY TimedFacts DEF Snaps

\* A proposed object knows exactly what was loaded.
LEMMA ProposedFacts ==
    ASSUME BoundsAssumption, NEW w \in Slots, work[w].snap \in Snaps
    PROVE  /\ Proposed(w) \in Objects /\ Proposed(w).status = "archived"
           /\ Src(Proposed(w)).attempts = work[w].snap.attempts
           /\ Src(Proposed(w)).history = work[w].snap.history
           /\ \A x : Le(x, Src(Proposed(w))) <=> Le(x, work[w].snap)
           /\ \A x : Le(Src(Proposed(w)), x) <=> Le(work[w].snap, x)
  <1> DEFINE s == work[w].snap
             e == At("archived", 100 + w)
  <1>1. e \in Statuses \X Nat
    BY DEF At, Statuses, BoundsAssumption
  <1>2. s.attempts \in Nat /\ s.history \in Histories
    BY SnapFacts
  <1> HIDE DEF s, e
  <1>3. /\ Append(s.history, e) \in Histories /\ Append(s.history, e) # <<>>
        /\ Front(Append(s.history, e)) = s.history
    BY <1>1, <1>2, Appended
  <1>4. Proposed(w) = [status |-> "archived", attempts |-> s.attempts,
                       history |-> Append(s.history, e)]
    BY DEF Proposed, s, e
  <1>5. Proposed(w) \in Objects
    BY <1>2, <1>3, <1>4 DEF Objects
  <1>6. /\ Src(Proposed(w)).attempts = s.attempts
        /\ Src(Proposed(w)).history = s.history
    BY <1>3, <1>4 DEF Src, SourceHistory
  <1>7. /\ \A x : Le(x, Src(Proposed(w))) <=> Le(x, s)
        /\ \A x : Le(Src(Proposed(w)), x) <=> Le(s, x)
    BY <1>6 DEF Le
  <1>8. Proposed(w).status = "archived"
    BY <1>4
  <1> QED
    BY <1>5, <1>6, <1>7, <1>8 DEF s

-----------------------------------------------------------------------------
\* What a step may do to the row, the object and a slot.

Base == BoundsAssumption /\ Typed /\ Equipped

RowMoves(s) ==
    /\ row # Absent => Grows(row, s)
    /\ \/ row = Absent /\ s.status = "pending"
       \/ /\ row # Absent /\ s.status = row.status
          /\ row.status = "archived" => s.attempts = row.attempts /\ s.history = row.history
       \/ row # Absent /\ s.status = Refreshed(row.status)
       \/ row # Absent /\ row.status \in Open /\ s.status \in Open
       \/ /\ row # Absent /\ s.status = "dead_letter_pending"
          /\ row.status \notin {"archived", "dead_lettered"}
          /\ \E v \in Slots : work[v].pc = "give_up"
       \/ /\ row # Absent /\ row.status = "dead_letter_pending" /\ s.status = "dead_lettered"
          /\ \E v \in Slots : work[v].pc = "dead_letter"
       \/ /\ row # Absent /\ s.status = "archived"
          /\ \E v \in Slots :
               /\ work[v].pc = "commit" /\ row.status = work[v].snap.status
               /\ row.attempts = work[v].snap.attempts /\ row.history = work[v].snap.history
               /\ s.attempts = row.attempts
               /\ s.history = Append(row.history, Last(work[v].etag.history))

RowEffect == row' = row \/ (row' \in Rows /\ RowMoves(row') /\ object' = object)

ObjectEffect ==
    \/ object' = object
    \/ /\ row' = row
       /\ \/ object = Absent /\ object' \in Objects /\ object'.status = "dead_lettered"
          \/ \E v \in Slots :
               /\ object' = Proposed(v)
               /\ \/ work[v].pc = "put" /\ object = Absent
                  \/ work[v].pc = "replace" /\ object = work[v].etag

Quits(v) == work'[v].pc \notin {"load", "put", "replace", "commit"}

Loads(v) ==
    /\ work'[v].pc = "load"
    /\ \/ /\ work[v].mode = "deliver" /\ work'[v].mode = "deliver"
          /\ row' # Absent /\ row'.status \in Open
       \/ /\ work'[v].mode = "redrive"
          /\ row' # Absent /\ row'.status = "dead_lettered"
       \/ work'[v].mode = "refresh"

Reads(v) ==
    /\ work[v].pc = "load" /\ work'[v].pc = "put" /\ work'[v].mode = work[v].mode
    /\ work'[v].snap.status = row.status
    /\ work'[v].snap.attempts = row.attempts /\ work'[v].snap.history = row.history
    /\ work[v].mode = "refresh" => row.status = "archive_refresh_pending"

Keeps(v) == work'[v].mode = work[v].mode /\ work'[v].snap = work[v].snap

Retries(v) == work[v].pc = "replace" /\ work'[v].pc = "put" /\ Keeps(v)

Compares(v) ==
    /\ work[v].pc = "put" /\ Keeps(v)
    /\ object # Absent /\ object' = object /\ work'[v].etag = object
    /\ \/ /\ compare_archive_objects(object, Proposed(v)) = "replace"
          /\ work'[v].pc = "replace"
       \/ /\ compare_archive_objects(object, Proposed(v)) = "keep"
          /\ work'[v].pc = "commit"

Writes(v) ==
    /\ work'[v].pc = "commit" /\ Keeps(v)
    /\ object' = Proposed(v) /\ work'[v].etag = Proposed(v)
    /\ \/ work[v].pc = "put" /\ object = Absent
       \/ work[v].pc = "replace" /\ object = work[v].etag

SlotEffect(v) ==
    \/ work'[v] = work[v] \/ Quits(v) \/ Loads(v)
    \/ row' = row /\ (Reads(v) \/ Retries(v) \/ Compares(v) \/ Writes(v))

\* Who begins to tell of the event has seen that it is kept, and who marks the row
\* dead_lettered has told of it.
Telling == {"terminal", "announce", "dead_letter"}

Tells(v) ==
    \/ work'[v] = work[v] \/ work'[v].pc \notin Telling
    \/ work'[v].pc = "announce" /\ work[v].pc = "terminal"
    \/ work'[v].pc \in {"terminal", "announce"} /\ retained' # {}
    \/ work'[v].pc = "dead_letter" /\ sent' = TRUE

\* An invocation begins or ends.
Turn(w) == Begin(w) \/ \E ok \in BOOLEAN : End(w, ok)

StreamEffect ==
    \/ stream' = stream
    \/ row = Absent /\ stream' = [stream EXCEPT !.st = "ready"]

TaskEffect ==
    \/ note' = note /\ StreamEffect /\ \A v \in Slots : work'[v].task = work[v].task
    \/ \E v \in Slots : Turn(v)

IdxEffect == idx' = idx \/ (row # Absent /\ idx' = row.status /\ row' = row)

Effects ==
    /\ RowEffect /\ ObjectEffect /\ TaskEffect /\ IdxEffect
    /\ \A v \in Slots : SlotEffect(v) /\ Tells(v)
    /\ sent = TRUE => sent' = TRUE
    /\ retained \subseteq retained'

StepFacts == Typed' /\ Equipped' /\ Effects

PCs == Free \cup OnRow
Drops == {"done", "fail", "claim", "give_up", "finish", "dead_letter"}
Clears == {"put_failed", "commit_failed", "restore"}

LEMMA SlotFacts ==
    ASSUME NEW s \in Slot
    PROVE  /\ s.pc \in PCs /\ s.task \in Tasks /\ s.mode \in Modes /\ s.n \in Nat /\ s.cas \in Nat
           /\ s.snap \in Snaps \cup {Absent} /\ s.etag \in Objects \cup {Absent}
           /\ s.lease \in Nat /\ s.msg \in Messages \cup {Absent}
  BY DEF Slot, PCs

\* An idle invocation holds nothing.
LEMMA IdleFacts == IdleSlot \in Slot /\ Ready(IdleSlot) /\ IdleSlot.pc = "idle"
  BY DEF IdleSlot, Slot, Free, OnRow, Tasks, Modes, Ready

\* Where an invocation goes on without what it loaded.
LEMMA GoDrops ==
    ASSUME NEW w \in Slots, work[w] \in Slot, NEW pc \in Drops
    PROVE  /\ Go(w, pc) \in Slot /\ Go(w, pc).pc = pc /\ Go(w, pc).task = work[w].task
           /\ Go(w, pc).msg = work[w].msg /\ Go(w, pc).mode = "none"
  <1>1. work[w].task \in Tasks /\ work[w].msg \in Messages \cup {Absent}
    BY SlotFacts
  <1>2. Go(w, pc) = [IdleSlot EXCEPT !.pc = pc, !.task = work[w].task, !.msg = work[w].msg]
    BY DEF Go, Drops
  <1>3. pc \in Free \cup OnRow /\ "none" \in Modes /\ 0 \in Nat
    BY DEF Drops, Free, OnRow, Modes
  <1>4. Go(w, pc) = [pc |-> pc, task |-> work[w].task, mode |-> "none", n |-> 0, cas |-> 0,
                     snap |-> Absent, etag |-> Absent, lease |-> 0, msg |-> work[w].msg]
    BY <1>2 DEF IdleSlot
  <1>5. Go(w, pc) \in Slot
    BY <1>1, <1>3, <1>4 DEF Slot
  <1> QED
    BY <1>4, <1>5

\* Where it starts over.
LEMMA GoClears ==
    ASSUME NEW w \in Slots, work[w] \in Slot, NEW pc \in Clears
    PROVE  /\ Go(w, pc) \in Slot /\ Go(w, pc).pc = pc /\ Go(w, pc).task = work[w].task
           /\ Go(w, pc).msg = work[w].msg /\ Go(w, pc).mode = work[w].mode
  <1>1. Go(w, pc) = [work[w] EXCEPT !.pc = pc, !.cas = 0, !.snap = Absent, !.etag = Absent]
    BY DEF Go, Clears
  <1>2. pc \in Free \cup OnRow
    BY DEF Clears, Free, OnRow
  <1>3. Go(w, pc) = [pc |-> pc, task |-> work[w].task, mode |-> work[w].mode, n |-> work[w].n,
                     cas |-> 0, snap |-> Absent, etag |-> Absent, lease |-> work[w].lease,
                     msg |-> work[w].msg]
    BY <1>1 DEF Slot
  <1>4. Go(w, pc) \in Slot
    BY <1>2, <1>3, SlotFacts DEF Slot
  <1> QED
    BY <1>3, <1>4

\* Where it keeps everything.
LEMMA GoOn ==
    ASSUME NEW w \in Slots, work[w] \in Slot, NEW pc \in PCs \ (Drops \cup Clears)
    PROVE  /\ Go(w, pc) = [work[w] EXCEPT !.pc = pc]
           /\ Go(w, pc) \in Slot /\ Go(w, pc).pc = pc /\ Go(w, pc).task = work[w].task
           /\ Go(w, pc).msg = work[w].msg /\ Go(w, pc).mode = work[w].mode
           /\ Go(w, pc).snap = work[w].snap /\ Go(w, pc).etag = work[w].etag
  <1>1. Go(w, pc) = [work[w] EXCEPT !.pc = pc]
    BY DEF Go, Drops, Clears
  <1> QED
    BY <1>1 DEF Slot, PCs

\* The next attempt of a delivery starts over.
LEMMA NextAttemptFacts ==
    ASSUME NEW w \in Slots, work[w] \in Slot
    PROVE  /\ NextAttempt(w) \in Slot /\ NextAttempt(w).pc = "attempt"
           /\ NextAttempt(w).task = work[w].task /\ NextAttempt(w).mode = work[w].mode
           /\ NextAttempt(w).msg = work[w].msg
  <1>1. PICK n \in Nat : n = work[w].n + 1
    BY SlotFacts
  <1>2. NextAttempt(w) = [work[w] EXCEPT !.pc = "attempt", !.n = n, !.cas = 0, !.snap = Absent,
                                         !.etag = Absent]
    BY <1>1 DEF NextAttempt
  <1>3. NextAttempt(w) = [pc |-> "attempt", task |-> work[w].task, mode |-> work[w].mode, n |-> n,
                          cas |-> 0, snap |-> Absent, etag |-> Absent, lease |-> work[w].lease,
                          msg |-> work[w].msg]
    BY <1>2 DEF Slot
  <1>4. NextAttempt(w) \in Slot
    BY <1>3, SlotFacts DEF Slot, OnRow
  <1> QED
    BY <1>3, <1>4

\* A step of one slot.
LEMMA SlotStep ==
    ASSUME Base, NEW w \in Slots, NEW s \in Slot, Goto(w, s), Ready(s),
           s.pc \in OnRow => row' # Absent, row # Absent => row' # Absent,
           s.task \in {"none", "ingress", work[w].task} \/ row' # Absent
    PROVE  /\ work' \in [Slots -> Slot] /\ work'[w] = s
           /\ \A v \in Slots : v # w => work'[v] = work[v]
           /\ \A v \in Slots : Ready(work'[v]) /\ (work'[v].pc \in OnRow => row' # Absent)
           /\ \A v \in Slots : work'[v].task \in {"stream", "note"} => row' # Absent
        /\ \A v \in Slots : work'[v].task \in {"stream", "note"} => row' # Absent
  <1>1. work' = [work EXCEPT ![w] = s] /\ work \in [Slots -> Slot]
    BY DEF Goto, Base, Typed
  <1>2. /\ work' \in [Slots -> Slot] /\ work'[w] = s
        /\ \A v \in Slots : v # w => work'[v] = work[v]
    BY <1>1
  <1>3. \A v \in Slots : Ready(work[v]) /\ (work[v].pc \in OnRow => row # Absent)
    BY DEF Base, Equipped
  <1>4. ASSUME NEW v \in Slots
        PROVE  Ready(work'[v]) /\ (work'[v].pc \in OnRow => row' # Absent)
    <2>1. CASE v = w
      BY <1>2, <2>1
    <2>2. CASE v # w
      <3>1. work'[v] = work[v]
        BY <1>2, <2>2
      <3>2. Ready(work[v]) /\ (work[v].pc \in OnRow => row # Absent)
        BY <1>3
      <3> QED
        BY <3>1, <3>2
    <2> QED
      BY <2>1, <2>2
  <1>5. \A v \in Slots : work'[v].task \in {"stream", "note"} => row' # Absent
    <2>1. \A v \in Slots : work[v].task \in {"stream", "note"} => row # Absent
      BY DEF Base, Equipped
    <2> QED
      BY <1>2, <2>1
  <1> QED
    BY <1>2, <1>4, <1>5

\* A step of an invocation that leaves the row and the object alone.
LEMMA PlainStep ==
    ASSUME Base, NEW w \in Slots, NEW s \in Slot, Goto(w, s), Ready(s),
           s.pc \in OnRow => row # Absent, s.task \in {"none", "ingress", work[w].task} \/ row # Absent,
           s.pc \notin {"load", "put", "replace", "commit"},
           row' = row, object' = object, faults' \in Nat, crashes' \in Nat,
           UNCHANGED <<prod, late, log, idx>>,
           queue' \subseteq Messages, sent' \in BOOLEAN,
           retained' \subseteq {"terminal", "quarantine"},
           stream' \in [st : {"none", "ready", "busy", "done", "failed"}, left : Nat],
           note' \in [st : {"none", "ready", "busy", "done", "dead"}, left : Nat],
           stream'.st # "none" => row # Absent, note'.st # "none" => row # Absent,
           (s.task = work[w].task /\ UNCHANGED <<stream, note>>) \/ Turn(w),
           \/ s.pc \notin Telling
           \/ s.pc = "announce" /\ work[w].pc = "terminal"
           \/ s.pc \in {"terminal", "announce"} /\ retained' # {}
           \/ s.pc = "dead_letter" /\ sent' = TRUE,
           sent = TRUE => sent' = TRUE, retained \subseteq retained'
    PROVE  StepFacts
  <1>1. /\ work' \in [Slots -> Slot] /\ work'[w] = s
        /\ \A v \in Slots : v # w => work'[v] = work[v]
        /\ \A v \in Slots : Ready(work'[v]) /\ (work'[v].pc \in OnRow => row' # Absent)
        /\ \A v \in Slots : work'[v].task \in {"stream", "note"} => row' # Absent
    BY SlotStep
  <1>2. Typed'
    BY <1>1 DEF Base, Typed
  <1>3. Equipped'
    BY <1>1 DEF Base, Equipped
  <1>4. \A v \in Slots : SlotEffect(v) /\ Tells(v)
    BY <1>1 DEF SlotEffect, Quits, Tells
  <1>5. RowEffect /\ ObjectEffect /\ IdxEffect
    BY DEF RowEffect, ObjectEffect, IdxEffect
  <1>6. TaskEffect
    <2>1. CASE s.task = work[w].task /\ UNCHANGED <<stream, note>>
      BY <1>1, <2>1 DEF TaskEffect, StreamEffect
    <2>2. CASE Turn(w)
      BY <2>2 DEF TaskEffect
    <2> QED
      BY <2>1, <2>2
  <1> QED
    BY <1>2, <1>3, <1>4, <1>5, <1>6 DEF StepFacts, Effects

\* A conditional write of the row.
LEMMA WriteStep ==
    ASSUME Base, NEW w \in Slots, NEW s \in Slot, Goto(w, s), Ready(s), row \in Rows,
           \/ row' = row
           \/ row' \in Rows /\ RowMoves(row'),
           \/ s.pc \notin {"load", "put", "replace", "commit"}
           \/ Loads(w),
           faults' \in Nat, s.task = work[w].task, s.pc \notin Telling,
           UNCHANGED <<prod, late, queue, log, idx, stream, note, object, sent, retained, crashes>>
    PROVE  StepFacts
  <1>0. row # Absent /\ row' \in Rows /\ row' # Absent
    BY RowFacts
  <1>1. /\ work' \in [Slots -> Slot] /\ work'[w] = s
        /\ \A v \in Slots : v # w => work'[v] = work[v]
        /\ \A v \in Slots : Ready(work'[v]) /\ (work'[v].pc \in OnRow => row' # Absent)
        /\ \A v \in Slots : work'[v].task \in {"stream", "note"} => row' # Absent
    BY <1>0, SlotStep
  <1>2. Typed'
    BY <1>0, <1>1 DEF Base, Typed
  <1>3. Equipped'
    BY <1>0, <1>1 DEF Base, Equipped
  <1>4. \A v \in Slots : SlotEffect(v) /\ Tells(v)
    BY <1>1 DEF SlotEffect, Quits, Tells
  <1>5. RowEffect /\ ObjectEffect /\ IdxEffect
    BY DEF RowEffect, ObjectEffect, IdxEffect
  <1>6. TaskEffect
    BY <1>1 DEF TaskEffect, StreamEffect
  <1> QED
    BY <1>2, <1>3, <1>4, <1>5, <1>6 DEF StepFacts, Effects

\* A row that gets an entry, and one that gets none, grows.
LEMMA GrowsByEntry ==
    ASSUME NEW r \in Rows, NEW s \in Rows, NEW e \in Statuses \X Nat,
           s.history = Append(r.history, e), r.attempts <= s.attempts
    PROVE  Grows(r, s)
  <1>1. r.history \in Histories
    BY RowFacts
  <1>2. Pre(r.history, s.history) /\ s.history # r.history
    BY <1>1, Appended
  <1> QED
    BY <1>2 DEF Grows, Le

LEMMA GrowsBySame ==
    ASSUME NEW r \in Rows, NEW s \in Rows,
           s.history = r.history, s.status = r.status, r.attempts <= s.attempts
    PROVE  Grows(r, s)
  <1>1. r.history \in Histories
    BY RowFacts
  <1> QED
    BY <1>1, PreReflexive DEF Grows, Le

-----------------------------------------------------------------------------
\* What every action does.

LEMMA MessageFacts ==
    ASSUME NEW m \in Messages
    PROVE  /\ m.id \in Nat /\ m.d \in Deliveries /\ m.attempts \in Nat /\ m.receives \in Nat
           /\ m # Absent
  BY AbsentFacts DEF Messages

\* What a receive reconstructs is a history.
LEMMA RoundFacts ==
    ASSUME NEW stamp \in Nat, NEW n \in Int, NEW skip \in {0, 1}
    PROVE  /\ [k \in 1..n |-> At(<<"retrying", "pending", "failed">>[((k - 1 + skip) % 3) + 1],
                                 stamp)] \in Histories
           /\ Len([k \in 1..n |-> At(<<"retrying", "pending", "failed">>
                                        [((k - 1 + skip) % 3) + 1], stamp)])
                 = IF n >= 0 THEN n ELSE 0
  <1> DEFINE round == <<"retrying", "pending", "failed">>
             f == [k \in 1..n |-> At(round[((k - 1 + skip) % 3) + 1], stamp)]
  <1>1. \A i \in 1..3 : round[i] \in Statuses
    BY DEF Statuses, Open
  <1> HIDE DEF round
  <1>2. ASSUME NEW k \in 1..n
        PROVE  At(round[((k - 1 + skip) % 3) + 1], stamp) \in Statuses \X Nat
    <2>1. PICK i \in Int : i = k - 1 + skip
      OBVIOUS
    <2>2. i % 3 \in 0..2
      BY <2>1
    <2>3. PICK j \in 1..3 : j = (i % 3) + 1
      BY <2>2
    <2>4. round[j] \in Statuses
      BY <1>1
    <2> QED
      BY <2>1, <2>3, <2>4 DEF At
  <1>3. PICK l \in Nat : l = (IF n >= 0 THEN n ELSE 0)
    OBVIOUS
  <1>4. 1..n = 1..l
    BY <1>3
  <1>5. PICK S : S = Statuses \X Nat
    OBVIOUS
  <1>6. f \in [1..l -> S]
    BY <1>2, <1>4, <1>5
  <1>7. f \in Seq(S) /\ Len(f) = l
    <2>1. f \in Seq(S)
      BY <1>6, SeqDef
    <2>2. DOMAIN f = 1..l
      BY <1>6
    <2> HIDE DEF f
    <2>3. Len(f) \in Nat /\ 1..Len(f) = 1..l
      BY <2>1, <2>2, LenProperties
    <2> QED
      BY <2>1, <2>3
  <1> QED
    BY <1>3, <1>5, <1>7 DEF Histories, round

\* What a receive reconstructs, before it is cut.
Rebuilt(m) ==
    m.d.history \o
        [k \in 1..(3 * m.receives - 1 - (IF m.attempts = 0 THEN 1 ELSE 0)) |->
            At(<<"retrying", "pending", "failed">>
                 [((k - 1 + (IF m.attempts = 0 THEN 1 ELSE 0)) % 3) + 1],
               10 * m.id + m.receives)]

LEMMA ReceivedIs ==
    ASSUME NEW m \in Messages
    PROVE  /\ Received(m).attempts = m.d.attempts + m.receives
           /\ Received(m).history = IF Len(Rebuilt(m)) <= HistoryLimit THEN Rebuilt(m)
                                    ELSE SubSeq(Rebuilt(m), 1, HistoryLimit)
           /\ Received(m) = [attempts |-> Received(m).attempts, history |-> Received(m).history]
  BY DEF Received, Rebuilt

\* The reconstructed delivery is one.
LEMMA ReceivedFacts ==
    ASSUME BoundsAssumption, NEW m \in Messages
    PROVE  Received(m) \in Deliveries
  <1> DEFINE skip == IF m.attempts = 0 THEN 1 ELSE 0
             n == 3 * m.receives - 1 - skip
             stamp == 10 * m.id + m.receives
             more == [k \in 1..n |-> At(<<"retrying", "pending", "failed">>
                                          [((k - 1 + skip) % 3) + 1], stamp)]
  <1>1. /\ m.id \in Nat /\ m.d \in Deliveries /\ m.attempts \in Nat /\ m.receives \in Nat
        /\ m.d.attempts \in Nat /\ m.d.history \in Histories
    BY MessageFacts, DeliveryFacts
  <1>2. skip \in {0, 1} /\ n \in Int /\ stamp \in Nat
    BY <1>1
  <1>3. more \in Histories
    <2> HIDE DEF skip, n, stamp
    <2> QED
      BY <1>2, RoundFacts
  <1>4. Rebuilt(m) = m.d.history \o more
    BY DEF Rebuilt
  <1> HIDE DEF more
  <1>5. Rebuilt(m) \in Histories /\ Len(Rebuilt(m)) \in Nat
    BY <1>1, <1>3, <1>4, Concatenated, HistoryFacts
  <1>6. HistoryLimit \in Nat
    BY DEF BoundsAssumption
  <1>7. Received(m).history \in Histories
    <2>1. CASE Len(Rebuilt(m)) <= HistoryLimit
      BY <1>5, <2>1, ReceivedIs
    <2>2. CASE ~(Len(Rebuilt(m)) <= HistoryLimit)
      <3>1. SubSeq(Rebuilt(m), 1, HistoryLimit) \in Histories
        <4>1. HistoryLimit <= Len(Rebuilt(m)) /\ 1 \in Nat \ {0}
          BY <1>5, <1>6, <2>2
        <4> QED
          BY <1>5, <1>6, <4>1, Segment
      <3> QED
        BY <2>2, <3>1, ReceivedIs
    <2> QED
      BY <2>1, <2>2
  <1>8. Received(m).attempts \in Nat
    BY <1>1, ReceivedIs
  <1> QED
    BY <1>7, <1>8, ReceivedIs DEF Deliveries

\* A counter does not go back.
LEMMA BumpFacts ==
    ASSUME BoundsAssumption, NEW n \in Nat
    PROVE  Bump(n) \in Nat /\ n <= Bump(n)
  BY DEF Bump, BoundsAssumption

\* A write of a delivery to the row, whatever came of it.
LEMMA StoreMoves ==
    ASSUME Base, NEW d \in Deliveries, row' \in {row, Stored(row, d)}, stream' = StreamAfter(row')
    PROVE  /\ row' = row \/ (row' \in Rows /\ RowMoves(row'))
           /\ row # Absent => row' # Absent
           /\ row' \in Rows \cup {Absent}
           /\ stream' \in [st : {"none", "ready", "busy", "done", "failed"}, left : Nat]
           /\ StreamEffect
           /\ stream'.st # "none" => row' # Absent
           /\ note.st # "none" => row' # Absent
           /\ idx # "pending" => row' # Absent
  <1>1. row \in Rows \cup {Absent} /\ Stored(row, d) \in Rows
    BY StoredFacts DEF Base, Typed
  <1>2. row' = row \/ (row' \in Rows /\ RowMoves(row'))
    <2>1. CASE row' = row
      BY <2>1
    <2>2. CASE row' = Stored(row, d) /\ row' # row
      <3>1. CASE row = Absent
        <4>1. row'.status = "pending"
          BY <1>1, <2>2, <3>1, StoredFacts, NewRowFacts
        <4> QED
          BY <1>1, <2>2, <3>1, <4>1 DEF RowMoves
      <3>2. CASE row # Absent
        <4>1. Grows(row, row') /\ row'.status = Refreshed(row.status)
          BY <1>1, <2>2, <3>2, StoredFacts
        <4> QED
          BY <1>1, <2>2, <3>2, <4>1 DEF RowMoves
      <3> QED
        BY <3>1, <3>2
    <2> QED
      BY <2>1, <2>2
  <1>3. row # Absent => row' # Absent
    BY <1>1, AbsentFacts
  <1>4. row' \in Rows \cup {Absent}
    BY <1>1
  <1>5. /\ stream \in [st : {"none", "ready", "busy", "done", "failed"}, left : Nat]
        /\ stream.st # "none" => row # Absent
    BY DEF Base, Typed, Equipped
  <1>6. CASE row = Absent /\ row' # Absent
    <2>1. stream' = [stream EXCEPT !.st = "ready"]
      BY <1>6 DEF StreamAfter
    <2> QED
      BY <1>2, <1>4, <1>5, <1>6, <2>1 DEF StreamEffect
  <1>7. CASE ~(row = Absent /\ row' # Absent)
    <2>1. stream' = stream
      BY <1>7 DEF StreamAfter
    <2> QED
      BY <1>2, <1>3, <1>4, <1>5, <2>1 DEF Base, Equipped, StreamEffect
  <1>8. note.st # "none" => row # Absent
    BY DEF Base, Equipped
  <1>9. idx # "pending" => row # Absent
    BY DEF Base, Equipped
  <1> QED
    BY <1>2, <1>3, <1>4, <1>6, <1>7, <1>8, <1>9

\* A step of no invocation.
LEMMA StillStep ==
    ASSUME Base, work' = work, object' = object,
           row' = row \/ (row' \in Rows /\ RowMoves(row')),
           row # Absent => row' # Absent,
           row' \in Rows \cup {Absent},
           prod' \in [phase : {"hot", "enqueue", "done", "dead"}, n : Nat, d : Deliveries,
                      twice : BOOLEAN],
           late' \subseteq Deliveries, queue' \subseteq Messages,
           log' \in Deliveries \cup {Absent}, idx' \in Statuses,
           stream' \in [st : {"none", "ready", "busy", "done", "failed"}, left : Nat],
           note' = note, UNCHANGED <<sent, retained>>, faults' \in Nat, crashes' \in Nat,
           stream'.st # "none" => row' # Absent,
           idx' # "pending" => row' # Absent,
           StreamEffect, IdxEffect
    PROVE  StepFacts
  <1>1. Typed'
    BY DEF Base, Typed
  <1>2. Equipped'
    BY DEF Base, Equipped
  <1>3. \A v \in Slots : SlotEffect(v) /\ Tells(v)
    BY DEF SlotEffect, Tells
  <1>4. RowEffect /\ ObjectEffect /\ TaskEffect
    BY DEF RowEffect, ObjectEffect, TaskEffect
  <1> QED
    BY <1>1, <1>2, <1>3, <1>4 DEF StepFacts, Effects

-----------------------------------------------------------------------------
\* The producer and the environment.

\* The producer's record.
LEMMA ProdFacts ==
    ASSUME Base
    PROVE  /\ prod.phase \in {"hot", "enqueue", "done", "dead"} /\ prod.n \in Nat
           /\ prod.d \in Deliveries /\ prod.twice \in BOOLEAN
           /\ prod = [phase |-> prod.phase, n |-> prod.n, d |-> prod.d, twice |-> prod.twice]
  BY DEF Base, Typed

\* The steps of the producer, of the operator and of time.
LEMMA WriteRowStep == ASSUME Base, WriteRow PROVE StepFacts
  <1> DEFINE d == StartAttempt(prod.d, prod.n > 1)
  <1>1. d \in Deliveries
    <2>1. (prod.n > 1) \in BOOLEAN
      OBVIOUS
    <2> QED
      BY <2>1, ProdFacts, StartFacts
  <1> HIDE DEF d
  <1>2. /\ row' \in {row, Stored(row, d)} /\ stream' = StreamAfter(row')
        /\ UNCHANGED <<queue, log, idx, note, object, work, sent, retained, crashes>>
        /\ late' \subseteq late \cup {d}
        /\ \/ prod' = [prod EXCEPT !.phase = "done", !.d = d] /\ UNCHANGED faults
           \/ ProducerFails(d) /\ Fault
    <2>1. CASE /\ ~Divergent(row, d)
               /\ row' = Stored(row, d)
               /\ stream' = StreamAfter(row')
               /\ prod' = [prod EXCEPT !.phase = "done", !.d = d]
               /\ UNCHANGED <<late, faults>>
      BY <2>1 DEF WriteRow, d
    <2>2. CASE /\ Fault
               /\ row' \in {row, Stored(row, d)}
               /\ stream' = StreamAfter(row')
               /\ ProducerFails(d)
               /\ UNCHANGED late
      BY <2>2 DEF WriteRow, d
    <2>3. CASE /\ Fault
               /\ late' = late \cup {d}
               /\ ProducerFails(d)
               /\ UNCHANGED <<row, stream>>
      <3>1. stream' = StreamAfter(row')
        BY <2>3 DEF StreamAfter
      <3> QED
        BY <2>3, <3>1 DEF WriteRow, d
    <2> QED
      BY <2>1, <2>2, <2>3 DEF WriteRow, d
  <1>3. /\ prod' \in [phase : {"hot", "enqueue", "done", "dead"}, n : Nat, d : Deliveries,
                      twice : BOOLEAN]
        /\ faults' \in Nat
    <2>1. CASE prod' = [prod EXCEPT !.phase = "done", !.d = d] /\ UNCHANGED faults
      BY <1>1, <2>1, ProdFacts DEF Base, Typed
    <2>2. CASE ProducerFails(d) /\ Fault
      <3>1. PICK f \in Deliveries : f = Failed(d)
        BY <1>1, FailedFacts
      <3>2. faults' \in Nat
        BY <2>2 DEF Fault, Base, Typed
      <3>3. CASE prod.n < HotAttempts
        <4>1. PICK n \in Nat : n = prod.n + 1
          BY ProdFacts
        <4>2. prod' = [prod EXCEPT !.n = n, !.d = f]
          BY <2>2, <3>1, <3>3, <4>1 DEF ProducerFails
        <4> QED
          BY <3>2, <4>2, ProdFacts
      <3>4. CASE ~(prod.n < HotAttempts)
        <4>1. prod' = [prod EXCEPT !.phase = "enqueue", !.n = 1, !.d = f]
          BY <2>2, <3>1, <3>4 DEF ProducerFails
        <4> QED
          BY <3>2, <4>1, ProdFacts
      <3> QED
        BY <3>3, <3>4
    <2> QED
      BY <1>2, <2>1, <2>2
  <1>4. /\ late' \subseteq Deliveries /\ queue' \subseteq Messages
        /\ log' \in Deliveries \cup {Absent} /\ idx' \in Statuses /\ crashes' \in Nat
    BY <1>1, <1>2 DEF Base, Typed
  <1>5. /\ row' = row \/ (row' \in Rows /\ RowMoves(row'))
        /\ row # Absent => row' # Absent
        /\ row' \in Rows \cup {Absent}
        /\ stream' \in [st : {"none", "ready", "busy", "done", "failed"}, left : Nat]
        /\ StreamEffect
        /\ stream'.st # "none" => row' # Absent
        /\ idx # "pending" => row' # Absent
    BY <1>1, <1>2, StoreMoves
  <1> QED
    BY <1>2, <1>3, <1>4, <1>5, StillStep DEF IdxEffect

LEMMA LateWriteStep == ASSUME Base, LateWrite PROVE StepFacts
  <1>1. PICK d \in late :
          /\ late' = late \ {d}
          /\ row' = IF row = Absent THEN NewRow(d) ELSE row
          /\ stream' = StreamAfter(row')
          /\ UNCHANGED <<prod, queue, log, idx, note, object, work, sent, retained,
                         faults, crashes>>
    BY DEF LateWrite
  <1>2. d \in Deliveries
    BY DEF Base, Typed
  <1>3. row' \in {row, Stored(row, d)}
    BY <1>1 DEF Stored
  <1>4. /\ row' = row \/ (row' \in Rows /\ RowMoves(row'))
        /\ row # Absent => row' # Absent
        /\ row' \in Rows \cup {Absent}
        /\ stream' \in [st : {"none", "ready", "busy", "done", "failed"}, left : Nat]
        /\ StreamEffect
        /\ stream'.st # "none" => row' # Absent
        /\ idx # "pending" => row' # Absent
    BY <1>1, <1>2, <1>3, StoreMoves
  <1>5. /\ prod' \in [phase : {"hot", "enqueue", "done", "dead"}, n : Nat, d : Deliveries,
                      twice : BOOLEAN]
        /\ late' \subseteq Deliveries /\ queue' \subseteq Messages
        /\ log' \in Deliveries \cup {Absent} /\ idx' \in Statuses
        /\ faults' \in Nat /\ crashes' \in Nat
    BY <1>1 DEF Base, Typed
  <1> QED
    BY <1>1, <1>4, <1>5, StillStep DEF IdxEffect

LEMMA CopyFacts ==
    ASSUME NEW id \in Nat, NEW d \in Deliveries
    PROVE  Copy(id, d) \in Messages
  BY DEF Copy, Messages

LEMMA EnqueueStep == ASSUME Base, Enqueue PROVE StepFacts
  <1> DEFINE d == StartAttempt(prod.d, prod.n > 1)
             c == Copy(prod.n, d)
  <1>1. d \in Deliveries
    <2>1. (prod.n > 1) \in BOOLEAN
      OBVIOUS
    <2> QED
      BY <2>1, ProdFacts, StartFacts
  <1> HIDE DEF d
  <1>2. c \in Messages
    BY <1>1, CopyFacts, ProdFacts
  <1>3. PICK f \in Deliveries : f = Failed(d)
    BY <1>1, FailedFacts
  <1>4. PICK n \in Nat : n = prod.n + 1
    BY ProdFacts
  <1> HIDE DEF c
  <1>5. UNCHANGED <<late, row, idx, stream, note, object, work, sent, retained, crashes>>
    BY DEF Enqueue
  <1>6. /\ prod' \in [phase : {"hot", "enqueue", "done", "dead"}, n : Nat, d : Deliveries,
                      twice : BOOLEAN]
        /\ queue' \subseteq queue \cup {c} /\ log' \in Deliveries \cup {Absent} /\ faults' \in Nat
    <2>1. CASE /\ queue' = queue \cup {c}
               /\ prod' = [prod EXCEPT !.phase = "done", !.d = d]
               /\ UNCHANGED <<log, faults>>
      <3>1. log' \in Deliveries \cup {Absent} /\ faults' \in Nat
        BY <2>1 DEF Base, Typed
      <3> QED
        BY <1>1, <2>1, <3>1, ProdFacts
    <2>2. CASE /\ Fault
               /\ \E arrived \in {FALSE, AmbiguousEnqueue} :
                    /\ queue' = IF arrived THEN queue \cup {c} ELSE queue
                    /\ \/ /\ prod.n < EnqueueAttempts
                          /\ prod' = [prod EXCEPT !.n = @ + 1, !.d = Failed(d),
                                                  !.twice = @ \/ arrived]
                          /\ UNCHANGED log
                       \/ /\ prod.n = EnqueueAttempts
                          /\ prod' = [prod EXCEPT !.phase = "done", !.d = Failed(d),
                                                  !.twice = @ \/ arrived]
                          /\ log' = Failed(d)
      <3>1. faults' \in Nat
        BY <2>2 DEF Fault, Base, Typed
      <3>2. PICK arrived \in {FALSE, AmbiguousEnqueue} :
               /\ queue' = IF arrived THEN queue \cup {c} ELSE queue
               /\ \/ /\ prod.n < EnqueueAttempts
                     /\ prod' = [prod EXCEPT !.n = @ + 1, !.d = Failed(d),
                                             !.twice = @ \/ arrived]
                     /\ UNCHANGED log
                  \/ /\ prod.n = EnqueueAttempts
                     /\ prod' = [prod EXCEPT !.phase = "done", !.d = Failed(d),
                                             !.twice = @ \/ arrived]
                     /\ log' = Failed(d)
        BY <2>2
      <3>3. PICK t \in BOOLEAN : t = (prod.twice \/ arrived)
        OBVIOUS
      <3>4. queue' \subseteq queue \cup {c}
        BY <3>2
      <3>5. CASE prod' = [prod EXCEPT !.n = @ + 1, !.d = Failed(d), !.twice = @ \/ arrived]
                 /\ UNCHANGED log
        <4>1. prod' = [prod EXCEPT !.n = n, !.d = f, !.twice = t]
          BY <1>3, <1>4, <3>3, <3>5
        <4>2. log' \in Deliveries \cup {Absent}
          BY <3>5 DEF Base, Typed
        <4> QED
          BY <3>1, <3>4, <4>1, <4>2, ProdFacts
      <3>6. CASE prod' = [prod EXCEPT !.phase = "done", !.d = Failed(d), !.twice = @ \/ arrived]
                 /\ log' = Failed(d)
        <4>1. prod' = [prod EXCEPT !.phase = "done", !.d = f, !.twice = t] /\ log' = f
          BY <1>3, <3>3, <3>6
        <4> QED
          BY <3>1, <3>4, <4>1, ProdFacts
      <3> QED
        BY <3>2, <3>5, <3>6
    <2> QED
      BY <2>1, <2>2 DEF Enqueue, c, d
  <1>7. /\ late' \subseteq Deliveries /\ queue' \subseteq Messages /\ row' \in Rows \cup {Absent}
        /\ idx' \in Statuses /\ crashes' \in Nat
        /\ stream' \in [st : {"none", "ready", "busy", "done", "failed"}, left : Nat]
    BY <1>2, <1>5, <1>6 DEF Base, Typed
  <1>8. (stream'.st # "none" => row' # Absent) /\ (idx' # "pending" => row' # Absent)
    BY <1>5 DEF Base, Equipped
  <1> QED
    BY <1>5, <1>6, <1>7, <1>8, StillStep DEF IdxEffect, StreamEffect

LEMMA ProducerDiesStep == ASSUME Base, ProducerDies PROVE StepFacts
  <1>1. /\ prod' = [prod EXCEPT !.phase = "dead"] /\ crashes > 0 /\ crashes' = crashes - 1
        /\ UNCHANGED <<late, queue, log, row, idx, stream, note, object, work, sent,
                       retained, faults>>
    BY DEF ProducerDies
  <1>2. prod' \in [phase : {"hot", "enqueue", "done", "dead"}, n : Nat, d : Deliveries,
                   twice : BOOLEAN]
    BY <1>1, ProdFacts
  <1>3. /\ late' \subseteq Deliveries /\ queue' \subseteq Messages /\ row' \in Rows \cup {Absent}
        /\ log' \in Deliveries \cup {Absent} /\ idx' \in Statuses /\ crashes' \in Nat
        /\ faults' \in Nat
        /\ stream' \in [st : {"none", "ready", "busy", "done", "failed"}, left : Nat]
    BY <1>1 DEF Base, Typed
  <1>4. (stream'.st # "none" => row' # Absent) /\ (idx' # "pending" => row' # Absent)
    BY <1>1 DEF Base, Equipped
  <1> QED
    BY <1>1, <1>2, <1>3, <1>4, StillStep DEF IdxEffect, StreamEffect

LEMMA ReplayStep == ASSUME Base, Replay PROVE StepFacts
  <1>1. /\ log # Absent /\ queue' = queue \cup {Copy(9, log)} /\ log' = Absent
        /\ UNCHANGED <<prod, late, row, idx, stream, note, object, work, sent, retained,
                       faults, crashes>>
    BY DEF Replay
  <1>2. Copy(9, log) \in Messages
    <2>1. log \in Deliveries
      BY <1>1 DEF Base, Typed
    <2> QED
      BY <2>1, CopyFacts
  <1>3. /\ late' \subseteq Deliveries /\ queue' \subseteq Messages /\ row' \in Rows \cup {Absent}
        /\ log' \in Deliveries \cup {Absent} /\ idx' \in Statuses /\ crashes' \in Nat
        /\ faults' \in Nat
        /\ stream' \in [st : {"none", "ready", "busy", "done", "failed"}, left : Nat]
        /\ prod' \in [phase : {"hot", "enqueue", "done", "dead"}, n : Nat, d : Deliveries,
                      twice : BOOLEAN]
    BY <1>1, <1>2 DEF Base, Typed
  <1>4. (stream'.st # "none" => row' # Absent) /\ (idx' # "pending" => row' # Absent)
    BY <1>1 DEF Base, Equipped
  <1> QED
    BY <1>1, <1>3, <1>4, StillStep DEF IdxEffect, StreamEffect

LEMMA LeaseRunsOutStep == ASSUME Base, LeaseRunsOut PROVE StepFacts
  <1>1. /\ row # Absent
        /\ row' = [row EXCEPT !.redriving = FALSE] \/ row' = [row EXCEPT !.refreshLease = 0]
        /\ UNCHANGED <<prod, late, queue, log, idx, stream, note, object, work, sent,
                       retained, faults, crashes>>
    BY DEF LeaseRunsOut
  <1>2. row \in Rows
    BY <1>1 DEF Base, Typed
  <1>3. /\ row' \in Rows /\ row'.status = row.status /\ row'.attempts = row.attempts
        /\ row'.history = row.history
    <2>1. CASE row' = [row EXCEPT !.redriving = FALSE]
      BY <1>2, <2>1 DEF Rows
    <2>2. CASE row' = [row EXCEPT !.refreshLease = 0]
      BY <1>2, <2>2 DEF Rows
    <2> QED
      BY <1>1, <2>1, <2>2
  <1>4. RowMoves(row')
    <2>1. Grows(row, row')
      <3>1. row.attempts \in Nat
        BY <1>2, RowFacts
      <3> QED
        BY <1>2, <1>3, <3>1, GrowsBySame
    <2> QED
      BY <1>1, <1>3, <2>1 DEF RowMoves
  <1>5. row' # Absent
    BY <1>3, AbsentFacts
  <1>6. /\ late' \subseteq Deliveries /\ queue' \subseteq Messages
        /\ log' \in Deliveries \cup {Absent} /\ idx' \in Statuses /\ crashes' \in Nat
        /\ faults' \in Nat
        /\ stream' \in [st : {"none", "ready", "busy", "done", "failed"}, left : Nat]
        /\ prod' \in [phase : {"hot", "enqueue", "done", "dead"}, n : Nat, d : Deliveries,
                      twice : BOOLEAN]
    BY <1>1 DEF Base, Typed
  <1> QED
    BY <1>1, <1>3, <1>4, <1>5, <1>6, StillStep DEF IdxEffect, StreamEffect

LEMMA IndexStep == ASSUME Base, IndexCatchesUp PROVE StepFacts
  <1>1. /\ row # Absent /\ idx' = row.status
        /\ UNCHANGED <<prod, late, queue, log, row, stream, note, object, work, sent,
                       retained, faults, crashes>>
    BY DEF IndexCatchesUp
  <1>2. row.status \in Statuses
    <2>1. row \in Rows
      BY <1>1 DEF Base, Typed
    <2> QED
      BY <2>1, RowFacts
  <1>3. /\ late' \subseteq Deliveries /\ queue' \subseteq Messages /\ row' \in Rows \cup {Absent}
        /\ log' \in Deliveries \cup {Absent} /\ crashes' \in Nat /\ faults' \in Nat
        /\ stream' \in [st : {"none", "ready", "busy", "done", "failed"}, left : Nat]
        /\ prod' \in [phase : {"hot", "enqueue", "done", "dead"}, n : Nat, d : Deliveries,
                      twice : BOOLEAN]
    BY <1>1 DEF Base, Typed
  <1>4. stream'.st # "none" => row' # Absent
    BY <1>1 DEF Base, Equipped
  <1> QED
    BY <1>1, <1>2, <1>3, <1>4, StillStep DEF IdxEffect, StreamEffect

-----------------------------------------------------------------------------
\* How an invocation begins, and the steps that leave the row and the object alone.

LEMMA FaultFacts == ASSUME Base, Fault PROVE faults' \in Nat
  BY DEF Base, Typed, Fault

\* What the invariant gives for the queues and for a slot.
LEMMA KeptFacts ==
    ASSUME Base
    PROVE  /\ queue \subseteq Messages /\ sent \in BOOLEAN /\ faults \in Nat /\ crashes \in Nat
           /\ retained \subseteq {"terminal", "quarantine"}
           /\ stream \in [st : {"none", "ready", "busy", "done", "failed"}, left : Nat]
           /\ note \in [st : {"none", "ready", "busy", "done", "dead"}, left : Nat]
           /\ stream.st # "none" => row # Absent
           /\ note.st # "none" => row # Absent
           /\ idx # "pending" => row # Absent
           /\ \A w \in Slots : /\ work[w] \in Slot /\ Ready(work[w])
                               /\ work[w].pc \in OnRow => row # Absent
                               /\ work[w].task \in {"stream", "note"} => row # Absent
           /\ row \in Rows \cup {Absent} /\ object \in Objects \cup {Absent}
           /\ late \subseteq Deliveries
  BY DEF Base, Typed, Equipped

\* The slot of an invocation that begins.
Began(pc, task, msg) ==
    [pc |-> pc, task |-> task, mode |-> "none", n |-> 0, cas |-> 0,
     snap |-> Absent, etag |-> Absent, lease |-> 0, msg |-> msg]

\* What an invocation holds when it begins.
LEMMA BeganFacts ==
    ASSUME NEW pc \in PCs, NEW task \in Tasks, NEW msg \in Messages \cup {Absent}
    PROVE  /\ Began(pc, task, msg) \in Slot
           /\ Began(pc, task, msg).pc = pc /\ Began(pc, task, msg).task = task
           /\ Began(pc, task, msg).mode = "none" /\ Began(pc, task, msg).msg = msg
  <1>1. "none" \in Modes
    BY DEF Modes
  <1>2. Began(pc, task, msg) \in Slot
    BY <1>1 DEF Began, Slot, PCs
  <1> QED
    BY <1>2 DEF Began

LEMMA BeganIs ==
    ASSUME NEW pc, NEW task, NEW s, s = [IdleSlot EXCEPT !.pc = pc, !.task = task]
    PROVE  s = Began(pc, task, Absent)
  BY DEF IdleSlot, Began

LEMMA BeganWith ==
    ASSUME NEW pc, NEW task, NEW msg, NEW s,
           s = [IdleSlot EXCEPT !.pc = pc, !.task = task, !.msg = msg]
    PROVE  s = Began(pc, task, msg)
  BY DEF IdleSlot, Began

LEMMA BeganReady ==
    ASSUME NEW pc \in {"check", "give_up", "redrive", "claim"},
           NEW task \in {"stream", "note", "sweep"},
           NEW s, s = Began(pc, task, Absent)
    PROVE  s \in Slot /\ Ready(s) /\ s.pc = pc /\ s.task = task /\ s.mode = "none" /\ s.msg = Absent
  <1>2. pc \in PCs /\ task \in Tasks /\ Absent \in Messages \cup {Absent}
    BY DEF PCs, OnRow, Tasks
  <1>3. s \in Slot /\ s.pc = pc /\ s.task = task /\ s.mode = "none" /\ s.msg = Absent
    BY <1>2, BeganFacts
  <1>4. Ready(s)
    BY <1>3 DEF Ready
  <1> QED
    BY <1>3, <1>4

LEMMA BeginStreamStep == ASSUME Base, NEW w \in Slots, BeginStream(w) PROVE StepFacts
  <1>1. PICK s : s = [IdleSlot EXCEPT !.pc = "check", !.task = "stream"]
    OBVIOUS
  <1>2. /\ stream.st = "ready" /\ stream' = [stream EXCEPT !.st = "busy"] /\ Goto(w, s)
        /\ UNCHANGED <<prod, late, queue, log, row, idx, note, object, sent, retained,
                       faults, crashes>>
    BY <1>1 DEF BeginStream, Serve
  <1>3. s \in Slot /\ Ready(s) /\ s.pc = "check"
    <2>1. s = Began("check", "stream", Absent)
      BY <1>1, BeganIs, Zenon
    <2> QED
      BY <2>1, BeganReady
  <1>4. /\ row # Absent
        /\ stream' \in [st : {"none", "ready", "busy", "done", "failed"}, left : Nat]
    BY <1>2, KeptFacts
  <1>5. /\ queue' \subseteq Messages /\ sent' \in BOOLEAN /\ faults' \in Nat /\ crashes' \in Nat
        /\ retained' \subseteq {"terminal", "quarantine"}
        /\ note' \in [st : {"none", "ready", "busy", "done", "dead"}, left : Nat]
    BY <1>2, KeptFacts
  <1> QED
    BY <1>2, <1>3, <1>4, <1>5, PlainStep DEF Turn, Begin, Telling

LEMMA BeginNoteStep == ASSUME Base, NEW w \in Slots, BeginNote(w) PROVE StepFacts
  <1>1. PICK s : s = [IdleSlot EXCEPT !.pc = "give_up", !.task = "note"]
    OBVIOUS
  <1>2. /\ note.st = "ready" /\ note' = [note EXCEPT !.st = "busy"] /\ Goto(w, s)
        /\ UNCHANGED <<prod, late, queue, log, row, idx, stream, object, sent, retained,
                       faults, crashes>>
    BY <1>1 DEF BeginNote, Serve
  <1>3. s \in Slot /\ Ready(s) /\ s.pc = "give_up"
    <2>1. s = Began("give_up", "note", Absent)
      BY <1>1, BeganIs, Zenon
    <2> QED
      BY <2>1, BeganReady
  <1>4. /\ row # Absent
        /\ note' \in [st : {"none", "ready", "busy", "done", "dead"}, left : Nat]
    BY <1>2, KeptFacts
  <1>5. /\ queue' \subseteq Messages /\ sent' \in BOOLEAN /\ faults' \in Nat /\ crashes' \in Nat
        /\ retained' \subseteq {"terminal", "quarantine"}
        /\ stream' \in [st : {"none", "ready", "busy", "done", "failed"}, left : Nat]
    BY <1>2, KeptFacts
  <1> QED
    BY <1>2, <1>3, <1>4, <1>5, PlainStep DEF Turn, Begin, Telling

LEMMA BeginSweepStep == ASSUME Base, NEW w \in Slots, BeginSweep(w) PROVE StepFacts
  <1>1. PICK pc \in {"check", "redrive", "claim"} :
          /\ Serve(w, "sweep", pc)
          /\ idx \in {"dead_letter_pending", "dead_lettered", "archive_refresh_pending"}
    BY DEF BeginSweep
  <1>2. PICK s : s = [IdleSlot EXCEPT !.pc = pc, !.task = "sweep"]
    OBVIOUS
  <1>3. /\ Goto(w, s)
        /\ UNCHANGED <<prod, late, queue, log, row, idx, stream, note, object, sent, retained,
                       faults, crashes>>
    BY <1>1, <1>2 DEF BeginSweep, Serve
  <1>4. s \in Slot /\ Ready(s) /\ s.pc = pc
    <2>1. s = Began(pc, "sweep", Absent)
      BY <1>2, BeganIs, Zenon
    <2> QED
      BY <2>1, BeganReady
  <1>5. row # Absent
    BY <1>1, KeptFacts
  <1>6. /\ queue' \subseteq Messages /\ sent' \in BOOLEAN /\ faults' \in Nat /\ crashes' \in Nat
        /\ retained' \subseteq {"terminal", "quarantine"}
        /\ stream' \in [st : {"none", "ready", "busy", "done", "failed"}, left : Nat]
        /\ note' \in [st : {"none", "ready", "busy", "done", "dead"}, left : Nat]
    BY <1>3, KeptFacts
  <1> QED
    BY <1>3, <1>4, <1>5, <1>6, PlainStep DEF Turn, Begin, Telling

\* A copy that is handed out once more.
LEMMA NextReceive ==
    ASSUME NEW m \in Messages, NEW r, r = [m EXCEPT !.receives = @ + 1]
    PROVE  /\ r \in Messages /\ r.id = m.id /\ r.d = m.d /\ r.attempts = m.attempts
           /\ r.receives = m.receives + 1 /\ r # Absent
  <1>1. PICK n \in Nat : n = m.receives + 1
    BY MessageFacts
  <1>2. r = [m EXCEPT !.receives = n]
    BY <1>1
  <1>3. r \in Messages /\ r.id = m.id /\ r.d = m.d /\ r.attempts = m.attempts /\ r.receives = n
    BY <1>2 DEF Messages
  <1>4. r # Absent
    BY <1>3, MessageFacts
  <1> QED
    BY <1>1, <1>3, <1>4

\* The invocation that serves it.
LEMMA HandedOut ==
    ASSUME NEW r \in Messages, NEW s, s = Began("store", "ingress", r)
    PROVE  /\ s \in Slot /\ Ready(s) /\ s.pc = "store" /\ s.msg = r /\ s.task = "ingress"
           /\ s.mode = "none"
  <1>4. r # Absent
    BY MessageFacts
  <1>6. "store" \in PCs /\ "ingress" \in Tasks /\ r \in Messages \cup {Absent}
    BY DEF PCs, Free, Tasks
  <1>7. s \in Slot /\ s.pc = "store" /\ s.msg = r /\ s.task = "ingress" /\ s.mode = "none"
    BY <1>6, BeganFacts
  <1>8. Ready(s)
    BY <1>4, <1>7 DEF Ready
  <1> QED
    BY <1>7, <1>8

LEMMA BeginIngressStep == ASSUME Base, NEW w \in Slots, BeginIngress(w) PROVE StepFacts
  <1>0. /\ \E m \in queue :
              /\ queue' = (queue \ {m}) \cup {[m EXCEPT !.receives = @ + 1]}
              /\ Goto(w, [IdleSlot EXCEPT !.pc = "store", !.task = "ingress",
                                          !.msg = [m EXCEPT !.receives = @ + 1]])
        /\ UNCHANGED <<prod, late, log, row, idx, stream, note, object, sent, retained,
                       faults, crashes>>
    BY ZenonT(60) DEF BeginIngress
  <1>1. PICK m \in queue :
          /\ queue' = (queue \ {m}) \cup {[m EXCEPT !.receives = @ + 1]}
          /\ Goto(w, [IdleSlot EXCEPT !.pc = "store", !.task = "ingress",
                                      !.msg = [m EXCEPT !.receives = @ + 1]])
    BY <1>0, Zenon
  <1>2. PICK r : r = [m EXCEPT !.receives = @ + 1]
    OBVIOUS
  <1>3. PICK s : s = [IdleSlot EXCEPT !.pc = "store", !.task = "ingress", !.msg = r]
    OBVIOUS
  <1>4. m \in Messages
    BY KeptFacts
  <1>5. r \in Messages /\ s \in Slot /\ Ready(s) /\ s.pc = "store" /\ s.task = "ingress"
    <2>1. r \in Messages
      BY <1>2, <1>4, NextReceive
    <2>2. s = Began("store", "ingress", r)
      BY <1>3, BeganWith, Zenon
    <2> QED
      BY <2>1, <2>2, HandedOut, Zenon
  <1>6. Goto(w, s) /\ queue' = (queue \ {m}) \cup {r}
        /\ UNCHANGED <<prod, late, log, row, idx, stream, note, object, sent, retained,
                       faults, crashes>>
    BY <1>0, <1>1, <1>2, <1>3
  <1>7. /\ queue' \subseteq Messages /\ sent' \in BOOLEAN /\ faults' \in Nat /\ crashes' \in Nat
        /\ retained' \subseteq {"terminal", "quarantine"}
        /\ stream' \in [st : {"none", "ready", "busy", "done", "failed"}, left : Nat]
        /\ note' \in [st : {"none", "ready", "busy", "done", "dead"}, left : Nat]
        /\ stream'.st # "none" => row # Absent
        /\ note'.st # "none" => row # Absent
    BY <1>5, <1>6, KeptFacts
  <1>8. s.pc \in OnRow => row # Absent
    BY <1>5 DEF OnRow
  <1> QED
    BY <1>5, <1>6, <1>7, <1>8, PlainStep DEF Turn, Begin, Telling

\* A step of an invocation that changes nothing else than its slot, what was sent or retained.
LEMMA QuietStep ==
    ASSUME Base, NEW w \in Slots, NEW s \in Slot, Goto(w, s), Ready(s),
           s.pc \in OnRow => row # Absent, s.task = work[w].task,
           s.pc \notin {"load", "put", "replace", "commit"},
           \/ s.pc \notin Telling
           \/ s.pc = "announce" /\ work[w].pc = "terminal"
           \/ s.pc \in {"terminal", "announce"} /\ retained' # {}
           \/ s.pc = "dead_letter" /\ sent' = TRUE,
           sent = TRUE => sent' = TRUE, retained \subseteq retained',
           UNCHANGED <<prod, late, queue, log, row, idx, stream, note, object, crashes>>,
           sent' \in BOOLEAN, retained' \subseteq {"terminal", "quarantine"}, faults' \in Nat
    PROVE  StepFacts
  <1>1. /\ queue' \subseteq Messages /\ crashes' \in Nat
        /\ stream' \in [st : {"none", "ready", "busy", "done", "failed"}, left : Nat]
        /\ note' \in [st : {"none", "ready", "busy", "done", "dead"}, left : Nat]
        /\ stream'.st # "none" => row # Absent
        /\ note'.st # "none" => row # Absent
    BY KeptFacts
  <1> QED
    BY <1>1, PlainStep

\* Slots that an invocation can go to whatever it did.
LEMMA Ending ==
    ASSUME NEW w \in Slots, work[w] \in Slot, work[w].pc # "idle", Ready(work[w]),
           NEW pc \in {"done", "fail"}
    PROVE  /\ Go(w, pc) \in Slot /\ Ready(Go(w, pc)) /\ Go(w, pc).pc = pc
           /\ Go(w, pc).task = work[w].task /\ Go(w, pc).msg = work[w].msg
           /\ Go(w, pc).mode = "none" /\ pc \notin OnRow
  <1>1. pc \in Drops
    BY DEF Drops
  <1>2. /\ Go(w, pc) \in Slot /\ Go(w, pc).pc = pc /\ Go(w, pc).mode = "none"
        /\ Go(w, pc).task = work[w].task /\ Go(w, pc).msg = work[w].msg
    BY <1>1, GoDrops
  <1>3. work[w].task # "none"
    BY DEF Ready
  <1> QED
    BY <1>2, <1>3 DEF Ready, OnRow

\* ... and those that need the row.
LEMMA Delivering ==
    ASSUME NEW w \in Slots, work[w] \in Slot, Ready(work[w]),
           NEW pc \in {"claim", "give_up", "finish", "dead_letter"},
           work[w].task # "none",
           pc # "claim" => work[w].task \in {"stream", "note", "sweep"}
    PROVE  /\ Go(w, pc) \in Slot /\ Ready(Go(w, pc)) /\ Go(w, pc).pc = pc
           /\ Go(w, pc).task = work[w].task /\ Go(w, pc).msg = work[w].msg
           /\ Go(w, pc).mode = "none"
  <1>1. pc \in Drops
    BY DEF Drops
  <1>2. /\ Go(w, pc) \in Slot /\ Go(w, pc).pc = pc /\ Go(w, pc).mode = "none"
        /\ Go(w, pc).task = work[w].task /\ Go(w, pc).msg = work[w].msg
    BY <1>1, GoDrops
  <1> QED
    BY <1>2 DEF Ready

\* A step of an invocation that ends no archiving.
LEMMA AnyStep ==
    ASSUME Base, NEW w \in Slots, NEW s \in Slot, Goto(w, s), Ready(s),
           s.pc \in OnRow => row' # Absent, s.task = work[w].task,
           s.pc \notin Telling \/ (s.pc = "announce" /\ work[w].pc = "terminal"),
           s.pc \notin {"load", "put", "replace", "commit"},
           RowEffect, ObjectEffect, row # Absent => row' # Absent,
           row' \in Rows \cup {Absent}, object' \in Objects \cup {Absent},
           UNCHANGED <<prod, late, queue, log, idx, note, sent, retained, crashes>>,
           faults' \in Nat, StreamEffect,
           stream' \in [st : {"none", "ready", "busy", "done", "failed"}, left : Nat],
           stream'.st # "none" => row' # Absent
    PROVE  StepFacts
  <1>1. /\ work' \in [Slots -> Slot] /\ work'[w] = s
        /\ \A v \in Slots : v # w => work'[v] = work[v]
        /\ \A v \in Slots : Ready(work'[v]) /\ (work'[v].pc \in OnRow => row' # Absent)
    BY SlotStep
  <1>2. Typed'
    BY <1>1, KeptFacts DEF Base, Typed
  <1>3. Equipped'
    BY <1>1 DEF Base, Equipped
  <1>4. \A v \in Slots : SlotEffect(v) /\ Tells(v)
    BY <1>1 DEF SlotEffect, Quits, Tells
  <1>5. TaskEffect /\ IdxEffect
    BY <1>1 DEF TaskEffect, IdxEffect
  <1> QED
    BY <1>2, <1>3, <1>4, <1>5 DEF StepFacts, Effects

\* The steps that leave the row and the object alone.
LEMMA CheckOutboxStep == ASSUME Base, NEW w \in Slots, CheckOutbox(w) PROVE StepFacts
  <1>1. /\ work[w].pc = "check"
        /\ UNCHANGED <<prod, late, queue, log, row, idx, stream, note, object, sent,
                       retained, crashes>>
        /\ \/ /\ Goto(w, IF row.status = "dead_letter_pending" THEN Go(w, "finish")
                         ELSE [Go(w, "attempt") EXCEPT !.mode = "deliver", !.n = 1])
              /\ UNCHANGED faults
           \/ Fault /\ Goto(w, Go(w, "fail"))
    BY DEF CheckOutbox
  <1>2. /\ work[w] \in Slot /\ Ready(work[w]) /\ row # Absent
        /\ work[w].task \in {"stream", "note", "sweep"}
    BY <1>1, KeptFacts DEF OnRow, Ready
  <1>3. sent' \in BOOLEAN /\ retained' \subseteq {"terminal", "quarantine"} /\ faults' \in Nat
    BY <1>1, KeptFacts, FaultFacts
  <1>4. CASE Goto(w, Go(w, "fail"))
    <2>1. /\ Go(w, "fail") \in Slot /\ Ready(Go(w, "fail")) /\ Go(w, "fail").pc = "fail"
          /\ Go(w, "fail").task = work[w].task
      BY <1>1, <1>2, Ending
    <2> QED
      BY <1>1, <1>2, <1>3, <1>4, <2>1, QuietStep DEF Telling
  <1>5. CASE Goto(w, Go(w, "finish"))
    <2>1. /\ Go(w, "finish") \in Slot /\ Ready(Go(w, "finish"))
          /\ Go(w, "finish").pc = "finish" /\ Go(w, "finish").task = work[w].task
      BY <1>1, <1>2, Delivering
    <2> QED
      BY <1>1, <1>2, <1>3, <1>5, <2>1, QuietStep DEF Telling
  <1>6. CASE Goto(w, [Go(w, "attempt") EXCEPT !.mode = "deliver", !.n = 1])
    <2>1. PICK g \in Slot : g = Go(w, "attempt") /\ g.pc = "attempt" /\ g.task = work[w].task
      <3>1. "attempt" \in PCs \ (Drops \cup Clears)
        BY DEF PCs, OnRow, Drops, Clears
      <3> QED
        BY <1>2, <3>1, GoOn
    <2>2. PICK s : s = [g EXCEPT !.mode = "deliver", !.n = 1]
      OBVIOUS
    <2>3. s \in Slot /\ s.pc = "attempt" /\ s.task = work[w].task /\ s.mode = "deliver"
      BY <2>1, <2>2 DEF Slot, Modes
    <2>4. Ready(s)
      BY <1>2, <2>3 DEF Ready
    <2>5. Goto(w, s)
      BY <1>6, <2>1, <2>2
    <2> QED
      BY <1>1, <1>2, <1>3, <2>3, <2>4, <2>5, QuietStep DEF Telling
  <1> QED
    BY <1>1, <1>4, <1>5, <1>6

LEMMA SendDeadLetterStep == ASSUME Base, NEW w \in Slots, SendDeadLetter(w) PROVE StepFacts
  <1>1. /\ work[w].pc = "finish"
        /\ UNCHANGED <<prod, late, queue, log, row, idx, stream, note, object, retained, crashes>>
        /\ \/ sent' = TRUE /\ Goto(w, Go(w, "dead_letter")) /\ UNCHANGED faults
           \/ Fault /\ sent' \in {sent, TRUE} /\ Goto(w, Go(w, "fail"))
    BY DEF SendDeadLetter
  <1>2. /\ work[w] \in Slot /\ Ready(work[w]) /\ row # Absent
        /\ work[w].task \in {"stream", "note", "sweep"}
    BY <1>1, KeptFacts DEF OnRow, Ready
  <1>3. /\ sent' \in BOOLEAN /\ retained' \subseteq {"terminal", "quarantine"} /\ faults' \in Nat
        /\ sent = TRUE => sent' = TRUE
    BY <1>1, KeptFacts, FaultFacts
  <1>4. CASE Goto(w, Go(w, "fail"))
    <2>1. /\ Go(w, "fail") \in Slot /\ Ready(Go(w, "fail")) /\ Go(w, "fail").pc = "fail"
          /\ Go(w, "fail").task = work[w].task
      BY <1>1, <1>2, Ending
    <2> QED
      BY <1>1, <1>2, <1>3, <1>4, <2>1, QuietStep DEF Telling
  <1>5. CASE sent' = TRUE /\ Goto(w, Go(w, "dead_letter"))
    <2>1. /\ Go(w, "dead_letter") \in Slot /\ Ready(Go(w, "dead_letter"))
          /\ Go(w, "dead_letter").pc = "dead_letter"
          /\ Go(w, "dead_letter").task = work[w].task
      BY <1>1, <1>2, Delivering
    <2> QED
      BY <1>1, <1>2, <1>3, <1>5, <2>1, QuietStep DEF Telling
  <1> QED
    BY <1>1, <1>4, <1>5

LEMMA PersistStep == ASSUME Base, NEW w \in Slots, PersistIngressFailure(w) PROVE StepFacts
  <1>1. /\ work[w].pc = "retain"
        /\ UNCHANGED <<prod, late, queue, log, row, idx, stream, note, object, sent, crashes>>
        /\ \/ /\ retained' = retained \cup {work[w].mode}
              /\ Goto(w, Go(w, IF work[w].mode = "terminal" THEN "terminal" ELSE "announce"))
              /\ UNCHANGED faults
           \/ /\ Fault
              /\ retained' \in {retained, retained \cup {work[w].mode}}
              /\ Goto(w, Go(w, "fail"))
    BY DEF PersistIngressFailure
  <1>2. /\ work[w] \in Slot /\ Ready(work[w])
        /\ work[w].mode \in {"terminal", "quarantine"} /\ work[w].msg # Absent
        /\ work[w].task # "none"
    BY <1>1, KeptFacts DEF Ready
  <1>3. /\ sent' \in BOOLEAN /\ retained' \subseteq {"terminal", "quarantine"} /\ faults' \in Nat
        /\ retained \subseteq retained'
    BY <1>1, <1>2, KeptFacts, FaultFacts
  <1>4. CASE Goto(w, Go(w, "fail"))
    <2>1. /\ Go(w, "fail") \in Slot /\ Ready(Go(w, "fail")) /\ Go(w, "fail").pc = "fail"
          /\ Go(w, "fail").task = work[w].task
      BY <1>1, <1>2, Ending
    <2> QED
      BY <1>1, <1>2, <1>3, <1>4, <2>1, QuietStep DEF OnRow, Telling
  <1>5. CASE /\ retained' = retained \cup {work[w].mode}
             /\ Goto(w, Go(w, IF work[w].mode = "terminal" THEN "terminal" ELSE "announce"))
    <2>1. PICK pc \in {"terminal", "announce"} :
             pc = IF work[w].mode = "terminal" THEN "terminal" ELSE "announce"
      OBVIOUS
    <2>2. pc \in PCs \ (Drops \cup Clears)
      BY DEF PCs, Free, Drops, Clears
    <2>3. /\ Go(w, pc) \in Slot /\ Go(w, pc).pc = pc /\ Go(w, pc).task = work[w].task
          /\ Go(w, pc).msg = work[w].msg /\ Go(w, pc).mode = work[w].mode
      BY <1>2, <2>2, GoOn
    <2>4. Ready(Go(w, pc))
      BY <1>2, <2>3 DEF Ready
    <2>5. Goto(w, Go(w, pc))
      BY <1>5, <2>1
    <2>6. retained' # {}
      BY <1>5
    <2> QED
      BY <1>1, <1>3, <2>3, <2>4, <2>5, <2>6, QuietStep DEF OnRow, Telling
  <1> QED
    BY <1>1, <1>4, <1>5

LEMMA AnnounceStep == ASSUME Base, NEW w \in Slots, AnnounceIngressFailure(w) PROVE StepFacts
  <1>1. /\ work[w].pc = "announce"
        /\ UNCHANGED <<prod, late, queue, log, row, idx, stream, note, object, sent, retained,
                       crashes>>
        /\ \E pc \in {"done", "fail"} : Goto(w, Go(w, pc))
        /\ UNCHANGED faults \/ Fault
    BY DEF AnnounceIngressFailure
  <1>2. work[w] \in Slot /\ Ready(work[w])
    BY KeptFacts
  <1>3. sent' \in BOOLEAN /\ retained' \subseteq {"terminal", "quarantine"} /\ faults' \in Nat
    BY <1>1, KeptFacts, FaultFacts
  <1>4. PICK pc \in {"done", "fail"} : Goto(w, Go(w, pc))
    BY <1>1
  <1>5. Go(w, pc) \in Slot /\ Ready(Go(w, pc)) /\ Go(w, pc).pc = pc /\ Go(w, pc).task = work[w].task
    BY <1>1, <1>2, Ending
  <1> QED
    BY <1>1, <1>3, <1>4, <1>5, QuietStep DEF OnRow, Telling

\* The object of a copy that could not be stored.
LEMMA TerminalObject ==
    ASSUME BoundsAssumption, NEW m \in Messages, NEW stamp \in Nat
    PROVE  /\ [status |-> "dead_lettered", attempts |-> Received(m).attempts,
               history |-> Received(m).history \o
                             <<At("failed", stamp), At("dead_lettered", stamp)>>] \in Objects
  <1> DEFINE two == <<At("failed", stamp), At("dead_lettered", stamp)>>
             h == Received(m).history \o two
  <1>1. Received(m).attempts \in Nat /\ Received(m).history \in Histories
    BY ReceivedFacts, DeliveryFacts
  <1>2. two \in Histories
    <2>1. At("failed", stamp) \in Statuses \X Nat /\ At("dead_lettered", stamp) \in Statuses \X Nat
      BY DEF At, Statuses, Open
    <2> QED
      BY <2>1 DEF Histories
  <1> HIDE DEF two
  <1>3. h \in Histories
    BY <1>1, <1>2, Concatenated
  <1> HIDE DEF h
  <1>4. [status |-> "dead_lettered", attempts |-> Received(m).attempts, history |-> h] \in Objects
    BY <1>1, <1>3 DEF Objects
  <1> QED
    BY <1>4 DEF h, two

LEMMA ArchiveTerminalStep == ASSUME Base, NEW w \in Slots, ArchiveTerminalIngress(w) PROVE StepFacts
  <1> DEFINE m == work[w].msg
             stamp == 10 * m.id + m.receives
             o == [status |-> "dead_lettered", attempts |-> Received(m).attempts,
                   history |-> Received(m).history \o
                                 <<At("failed", stamp), At("dead_lettered", stamp)>>]
             after == IF object = Absent THEN o ELSE object
  <1>1. work[w].pc = "terminal"
    BY DEF ArchiveTerminalIngress
  <1>2. /\ work[w] \in Slot /\ Ready(work[w]) /\ m \in Messages /\ work[w].task # "none"
    BY <1>1, KeptFacts, SlotFacts DEF Ready
  <1>3. o \in Objects /\ o.status = "dead_lettered"
    <2>1. stamp \in Nat
      BY <1>2, MessageFacts
    <2>2. o.status = "dead_lettered"
      OBVIOUS
    <2>3. BoundsAssumption
      BY DEF Base
    <2>4. o \in Objects
      <3> HIDE DEF m, stamp
      <3> QED
        BY <1>2, <2>1, <2>3, TerminalObject
    <2> QED
      BY <2>2, <2>4
  <1>4. /\ UNCHANGED <<prod, late, queue, log, row, idx, stream, note, sent, retained, crashes>>
        /\ \/ object' = after /\ Goto(w, Go(w, "announce")) /\ UNCHANGED faults
           \/ Fault /\ object' \in {object, after} /\ Goto(w, Go(w, "fail"))
    BY DEF ArchiveTerminalIngress
  <1> HIDE DEF o, m
  <1>5. ObjectEffect /\ object' \in Objects \cup {Absent}
    <2>1. object' = object \/ (object = Absent /\ object' = o)
      BY <1>4
    <2>2. object \in Objects \cup {Absent}
      BY KeptFacts
    <2> QED
      BY <1>3, <1>4, <2>1, <2>2 DEF ObjectEffect
  <1>6. /\ RowEffect /\ row' \in Rows \cup {Absent} /\ faults' \in Nat
        /\ stream' \in [st : {"none", "ready", "busy", "done", "failed"}, left : Nat]
        /\ stream'.st # "none" => row' # Absent
        /\ UNCHANGED <<prod, late, queue, log, idx, note, sent, retained, crashes>>
        /\ row' = row /\ StreamEffect
    BY <1>4, KeptFacts, FaultFacts DEF RowEffect, StreamEffect
  <1>7. CASE Goto(w, Go(w, "fail"))
    <2>1. /\ Go(w, "fail") \in Slot /\ Ready(Go(w, "fail")) /\ Go(w, "fail").pc = "fail"
          /\ Go(w, "fail").task = work[w].task
      BY <1>1, <1>2, Ending
    <2> QED
      BY <1>5, <1>6, <1>7, <2>1, AnyStep DEF OnRow, Telling
  <1>8. CASE Goto(w, Go(w, "announce"))
    <2>1. "announce" \in PCs \ (Drops \cup Clears)
      BY DEF PCs, Free, Drops, Clears
    <2>2. /\ Go(w, "announce") \in Slot /\ Go(w, "announce").pc = "announce"
          /\ Go(w, "announce").task = work[w].task /\ Go(w, "announce").mode = work[w].mode
      BY <1>2, <2>1, GoOn
    <2>3. Ready(Go(w, "announce"))
      BY <1>1, <1>2, <2>2 DEF Ready
    <2> QED
      BY <1>1, <1>5, <1>6, <1>8, <2>2, <2>3, AnyStep DEF OnRow, Telling
  <1> QED
    BY <1>4, <1>7, <1>8

LEMMA StoreStep == ASSUME Base, NEW w \in Slots, Store(w) PROVE StepFacts
  <1> DEFINE d == Received(work[w].msg)
  <1>1. work[w].pc = "store" /\ stream' = StreamAfter(row')
        /\ UNCHANGED <<prod, late, queue, log, idx, note, object, sent, retained, crashes>>
    BY DEF Store
  <1>2. /\ work[w] \in Slot /\ Ready(work[w]) /\ work[w].msg \in Messages /\ work[w].task # "none"
    BY <1>1, KeptFacts, SlotFacts DEF Ready
  <1>3. d \in Deliveries
    BY <1>2, ReceivedFacts DEF Base
  <1>4. /\ row' \in {row, Stored(row, d)}
        /\ UNCHANGED faults \/ Fault
        /\ \/ \E pc \in {"done", "fail"} : Goto(w, Go(w, pc))
           \/ row # Absent /\ Goto(w, Go(w, "claim"))
           \/ \E mode \in {"terminal", "quarantine"} : Goto(w, [Go(w, "retain") EXCEPT !.mode = mode])
    <2>1. CASE /\ row' = Stored(row, d)
               /\ Goto(w, Go(w, IF row = Absent THEN "done" ELSE "claim"))
               /\ UNCHANGED faults
      BY <2>1
    <2>2. CASE /\ Goto(w, [Go(w, "retain") EXCEPT !.mode = "quarantine"])
               /\ UNCHANGED <<row, faults>>
      BY <2>2, Zenon
    <2>3. CASE /\ Fault
               /\ row' \in {row, Stored(row, d)}
               /\ Goto(w, IF work[w].msg.attempts + work[w].msg.receives < IngressAttempts
                          THEN Go(w, "fail")
                          ELSE [Go(w, "retain") EXCEPT !.mode = "terminal"])
      <3>1. CASE Goto(w, Go(w, "fail"))
        BY <2>3, <3>1
      <3>2. CASE Goto(w, [Go(w, "retain") EXCEPT !.mode = "terminal"])
        BY <2>3, <3>2, Zenon
      <3> QED
        BY <2>3, <3>1, <3>2
    <2> QED
      BY <2>1, <2>2, <2>3 DEF Store
  <1> HIDE DEF d
  <1>5. /\ row' = row \/ (row' \in Rows /\ RowMoves(row'))
        /\ row # Absent => row' # Absent
        /\ row' \in Rows \cup {Absent}
        /\ stream' \in [st : {"none", "ready", "busy", "done", "failed"}, left : Nat]
        /\ StreamEffect
        /\ stream'.st # "none" => row' # Absent
    BY <1>1, <1>3, <1>4, StoreMoves
  <1>6. /\ RowEffect /\ ObjectEffect
        /\ object' \in Objects \cup {Absent} /\ faults' \in Nat
    BY <1>1, <1>4, <1>5, KeptFacts, FaultFacts DEF RowEffect, ObjectEffect
  <1>7. CASE \E pc \in {"done", "fail"} : Goto(w, Go(w, pc))
    <2>1. PICK pc \in {"done", "fail"} : Goto(w, Go(w, pc))
      BY <1>7
    <2>2. /\ Go(w, pc) \in Slot /\ Ready(Go(w, pc)) /\ Go(w, pc).pc = pc
          /\ Go(w, pc).task = work[w].task
      BY <1>1, <1>2, Ending
    <2> QED
      BY <1>1, <1>5, <1>6, <2>1, <2>2, AnyStep DEF OnRow, Telling
  <1>8. CASE row # Absent /\ Goto(w, Go(w, "claim"))
    <2>2. /\ Go(w, "claim") \in Slot /\ Ready(Go(w, "claim")) /\ Go(w, "claim").pc = "claim"
          /\ Go(w, "claim").task = work[w].task
      BY <1>2, Delivering
    <2> QED
      BY <1>1, <1>5, <1>6, <1>8, <2>2, AnyStep DEF Telling
  <1>9. CASE \E mode \in {"terminal", "quarantine"} : Goto(w, [Go(w, "retain") EXCEPT !.mode = mode])
    <2>1. PICK mode \in {"terminal", "quarantine"} : Goto(w, [Go(w, "retain") EXCEPT !.mode = mode])
      BY <1>9
    <2>2. "retain" \in PCs \ (Drops \cup Clears)
      BY DEF PCs, Free, Drops, Clears
    <2>3. PICK g \in Slot : /\ g = Go(w, "retain") /\ g.pc = "retain" /\ g.task = work[w].task
                            /\ g.msg = work[w].msg
      BY <1>2, <2>2, GoOn
    <2>4. PICK s : s = [g EXCEPT !.mode = mode]
      OBVIOUS
    <2>5. /\ s \in Slot /\ s.pc = "retain" /\ s.task = work[w].task /\ s.mode = mode
          /\ s.msg = work[w].msg
      BY <2>3, <2>4 DEF Slot, Modes
    <2>6. Ready(s)
      <3>1. s.msg # Absent
        BY <1>2, <2>5, MessageFacts
      <3> QED
        BY <1>2, <2>5, <3>1 DEF Ready
    <2>7. Goto(w, s)
      BY <2>1, <2>3, <2>4
    <2> QED
      BY <1>1, <1>5, <1>6, <2>5, <2>6, <2>7, AnyStep DEF OnRow, Telling
  <1> QED
    BY <1>4, <1>7, <1>8, <1>9

\* What an end leaves in the stream, the notification and the queue.
LEMMA EndFacts ==
    ASSUME Base, NEW w \in Slots, NEW ok \in BOOLEAN, End(w, ok)
    PROVE  /\ Goto(w, IdleSlot)
           /\ queue' \subseteq Messages
           /\ stream' \in [st : {"none", "ready", "busy", "done", "failed"}, left : Nat]
           /\ note' \in [st : {"none", "ready", "busy", "done", "dead"}, left : Nat]
           /\ stream'.st # "none" => row # Absent
           /\ note'.st # "none" => row # Absent
  <1>1. /\ queue \subseteq Messages
        /\ stream \in [st : {"none", "ready", "busy", "done", "failed"}, left : Nat]
        /\ note \in [st : {"none", "ready", "busy", "done", "dead"}, left : Nat]
        /\ stream.st # "none" => row # Absent
        /\ note.st # "none" => row # Absent
        /\ work[w].task \in {"stream", "note"} => row # Absent
    BY KeptFacts
  <1>2. Goto(w, IdleSlot)
    BY DEF End
  <1>3. CASE work[w].task = "stream" /\ AckStream(ok) /\ UNCHANGED queue
    <2>0. row # Absent /\ stream.left \in Nat
      BY <1>1, <1>3
    <2>1. CASE ok
      <3>1. stream' = [stream EXCEPT !.st = "done"] /\ UNCHANGED note
        BY <1>3, <2>1 DEF AckStream
      <3> QED
        BY <1>1, <1>2, <1>3, <2>0, <3>1
    <2>2. CASE ~ok /\ stream.left > 1
      <3>1. stream' = [st |-> "ready", left |-> stream.left - 1] /\ UNCHANGED note
        BY <1>3, <2>2 DEF AckStream
      <3>2. PICK n \in Nat : n = stream.left - 1
        BY <2>0, <2>2
      <3>3. stream' = [st |-> "ready", left |-> n]
        BY <3>1, <3>2
      <3> QED
        BY <1>1, <1>2, <1>3, <2>0, <3>1, <3>3
    <2>3. CASE ~ok /\ ~(stream.left > 1)
      <3>1. stream' = [st |-> "failed", left |-> 0] /\ note' = [note EXCEPT !.st = "ready"]
        BY <1>3, <2>3 DEF AckStream
      <3> QED
        BY <1>1, <1>2, <1>3, <2>0, <3>1
    <2> QED
      BY <2>1, <2>2, <2>3
  <1>4. CASE work[w].task = "note" /\ AckNote(ok) /\ UNCHANGED <<stream, queue>>
    <2>0. row # Absent /\ note.left \in Nat
      BY <1>1, <1>4
    <2>1. CASE ok
      <3>1. note' = [note EXCEPT !.st = "done"]
        BY <1>4, <2>1 DEF AckNote
      <3> QED
        BY <1>1, <1>2, <1>4, <2>0, <3>1
    <2>2. CASE ~ok /\ note.left > 1
      <3>1. note' = [st |-> "ready", left |-> note.left - 1]
        BY <1>4, <2>2 DEF AckNote
      <3>2. PICK n \in Nat : n = note.left - 1
        BY <2>0, <2>2
      <3>3. note' = [st |-> "ready", left |-> n]
        BY <3>1, <3>2
      <3> QED
        BY <1>1, <1>2, <1>4, <2>0, <3>3
    <2>3. CASE ~ok /\ ~(note.left > 1)
      <3>1. note' = [st |-> "dead", left |-> 0]
        BY <1>4, <2>3 DEF AckNote
      <3> QED
        BY <1>1, <1>2, <1>4, <2>0, <3>1
    <2> QED
      BY <2>1, <2>2, <2>3
  <1>5. CASE queue' \subseteq queue /\ UNCHANGED <<stream, note>>
    BY <1>1, <1>2, <1>5
  <1> QED
    <2>1. CASE work[w].task = "ingress"
      BY <1>5, <2>1 DEF End
    <2>2. CASE work[w].task = "sweep"
      BY <1>5, <2>2 DEF End
    <2> QED
      BY <1>3, <1>4, <2>1, <2>2 DEF End

\* The end of an invocation touches its slot and its source only.
LEMMA EndStep ==
    ASSUME Base, NEW w \in Slots, NEW ok \in BOOLEAN, End(w, ok),
           UNCHANGED <<prod, late, log, row, idx, object, sent, retained>>,
           faults' \in Nat, crashes' \in Nat
    PROVE  StepFacts
  <1>1. IdleSlot \in Slot /\ Ready(IdleSlot) /\ IdleSlot.pc = "idle" /\ IdleSlot.task = "none"
    BY IdleFacts DEF IdleSlot
  <1>2. sent' \in BOOLEAN /\ retained' \subseteq {"terminal", "quarantine"}
    BY KeptFacts
  <1> QED
    BY <1>1, <1>2, EndFacts, PlainStep DEF OnRow, Telling, Turn

LEMMA ReturnStep == ASSUME Base, NEW w \in Slots, Return(w) PROVE StepFacts
  <1>1. /\ End(w, work[w].pc = "done")
        /\ UNCHANGED <<prod, late, log, row, idx, object, sent, retained, faults, crashes>>
    BY DEF Return
  <1>2. faults' \in Nat /\ crashes' \in Nat
    BY <1>1, KeptFacts
  <1>3. (work[w].pc = "done") \in BOOLEAN
    OBVIOUS
  <1> QED
    BY <1>1, <1>2, <1>3, EndStep

LEMMA CrashStep == ASSUME Base, NEW w \in Slots, Crash(w) PROVE StepFacts
  <1>1. /\ End(w, FALSE) /\ crashes > 0 /\ crashes' = crashes - 1
        /\ UNCHANGED <<prod, late, log, row, idx, object, sent, retained, faults>>
    BY DEF Crash
  <1>2. faults' \in Nat /\ crashes' \in Nat
    BY <1>1, KeptFacts
  <1> QED
    BY <1>1, <1>2, EndStep

-----------------------------------------------------------------------------
\* The conditional writes of the row.

\* A conditional write of the row by an invocation, answered or not.
LEMMA UpdateStep ==
    ASSUME Base, NEW w \in Slots, row \in Rows, NEW cond \in BOOLEAN, NEW new,
           NEW yes \in Slot, NEW no \in Slot, NEW error \in Slot,
           Update(w, cond, new, yes, no, error), Ready(yes), Ready(no), Ready(error),
           no.pc \notin {"load", "put", "replace", "commit"} \cup Telling,
           error.pc \notin {"load", "put", "replace", "commit"} \cup Telling,
           yes.pc \notin Telling, yes.task = work[w].task, no.task = work[w].task,
           error.task = work[w].task,
           cond => new \in Rows /\ RowMoves(new),
           \/ yes.pc \notin {"load", "put", "replace", "commit"}
           \/ cond /\ row' = new /\ work'[w] = yes => Loads(w),
           UNCHANGED <<prod, late, queue, log, idx, stream, note, object, sent, retained, crashes>>
    PROVE  StepFacts
  <1>1. CASE /\ cond
             /\ row' = new
             /\ Goto(w, yes)
             /\ UNCHANGED faults
    <2>1. faults' \in Nat
      BY <1>1, KeptFacts
    <2>2. row' \in Rows /\ RowMoves(row')
      BY <1>1
    <2>3. work'[w] = yes
      BY <1>1, KeptFacts DEF Goto, Base, Typed
    <2> QED
      BY <1>1, <2>1, <2>2, <2>3, WriteStep
  <1>2. CASE /\ ~cond
             /\ Goto(w, no)
             /\ UNCHANGED <<row, faults>>
    <2>1. faults' \in Nat
      BY <1>2, KeptFacts
    <2> QED
      BY <1>2, <2>1, WriteStep
  <1>3. CASE /\ Fault
             /\ row' \in {row} \cup (IF cond THEN {new} ELSE {})
             /\ Goto(w, error)
    <2>1. faults' \in Nat
      BY <1>3, FaultFacts
    <2>2. row' = row \/ (row' \in Rows /\ RowMoves(row'))
      BY <1>3
    <2> QED
      BY <1>3, <2>1, <2>2, WriteStep
  <1> QED
    BY <1>1, <1>2, <1>3 DEF Update

LEMMA GrowsByEntryOnly ==
    ASSUME NEW r \in Rows, NEW s \in Rows, NEW e \in Statuses \X Nat,
           s.history = Append(r.history, e), s.attempts = r.attempts
    PROVE  Grows(r, s)
  <1>1. r.attempts <= s.attempts
    BY RowFacts
  <1> QED
    BY <1>1, GrowsByEntry

\* A row that gets a status and an entry.
Marked(r, status, e) == [r EXCEPT !.status = status, !.history = Append(@, e)]

\* A row that takes a status and its entry.
LEMMA EntryOfRow ==
    ASSUME NEW r \in Rows, NEW status \in Statuses, NEW e \in Statuses \X Nat,
           NEW s, s = Marked(r, status, e)
    PROVE  /\ s \in Rows /\ s.status = status /\ s.history = Append(r.history, e)
           /\ s.attempts = r.attempts /\ s.source = r.source /\ Grows(r, s)
  <1>1. r.history \in Histories /\ r.attempts \in Nat
    BY RowFacts
  <1>2. PICK h \in Histories : h = Append(r.history, e)
    BY <1>1, Appended
  <1>3. s = [r EXCEPT !.status = status, !.history = h]
    BY <1>2 DEF Marked
  <1>4. /\ s \in Rows /\ s.status = status /\ s.history = h
        /\ s.attempts = r.attempts /\ s.source = r.source
    BY <1>3 DEF Rows
  <1>5. s.history = Append(r.history, e)
    BY <1>2, <1>4, Zenon
  <1>6. Grows(r, s)
    BY <1>4, <1>5, GrowsByEntryOnly, Zenon
  <1> QED
    BY <1>4, <1>5, <1>6, Zenon

\* The row of a step that needs one.
LEMMA RowThere ==
    ASSUME Base, NEW w \in Slots, work[w].pc \in OnRow
    PROVE  row \in Rows /\ row # Absent /\ work[w] \in Slot /\ Ready(work[w])
           /\ row.status \in Statuses /\ row.attempts \in Nat /\ row.history \in Histories
  BY KeptFacts, RowFacts

LEMMA OnceFacts == \A status \in Statuses : Once(status) \in Statuses \X Nat
  BY DEF Once, At

LEMMA AttemptStep == ASSUME Base, NEW w \in Slots, MarkAttempt(w) PROVE StepFacts
  <1>0. PICK new : new = [row EXCEPT !.status = "retrying", !.attempts = Bump(@),
                                     !.history = Append(@, Once("retrying"))]
    OBVIOUS
  <1>1. /\ work[w].pc = "attempt"
        /\ Update(w, row.status \in Open, new, Go(w, "load"), Go(w, "claim"), Go(w, "fail"))
        /\ UNCHANGED <<prod, late, queue, log, idx, stream, note, object, sent, retained, crashes>>
    BY <1>0, Zenon DEF MarkAttempt
  <1>2. row \in Rows /\ row # Absent /\ work[w] \in Slot /\ Ready(work[w])
        /\ row.status \in Statuses /\ row.attempts \in Nat /\ row.history \in Histories
    BY <1>1, RowThere DEF OnRow
  <1>3. work[w].mode = "deliver" /\ work[w].task \in {"stream", "note", "sweep"}
    BY <1>1, <1>2 DEF Ready
  <1>4. /\ Go(w, "load") \in Slot /\ Go(w, "load").pc = "load"
        /\ Go(w, "load").mode = "deliver" /\ Go(w, "load").task = work[w].task
    <2>1. "load" \in PCs \ (Drops \cup Clears)
      BY DEF PCs, OnRow, Drops, Clears
    <2> QED
      BY <1>2, <1>3, <2>1, GoOn
  <1>5. Ready(Go(w, "load"))
    BY <1>3, <1>4 DEF Ready
  <1>6. /\ Go(w, "claim") \in Slot /\ Ready(Go(w, "claim")) /\ Go(w, "claim").pc = "claim"
        /\ Go(w, "claim").task = work[w].task
    BY <1>2, <1>3, Delivering
  <1>7. /\ Go(w, "fail") \in Slot /\ Ready(Go(w, "fail")) /\ Go(w, "fail").pc = "fail"
        /\ Go(w, "fail").task = work[w].task
    BY <1>1, <1>2, Ending
  <1>8. /\ new \in Rows /\ new.status = "retrying" /\ Grows(row, new)
    <2>1. PICK a \in Nat : a = Bump(row.attempts) /\ row.attempts <= a
      BY <1>2, BumpFacts DEF Base
    <2>2. Once("retrying") \in Statuses \X Nat
      BY OnceFacts DEF Statuses, Open
    <2>3. PICK h \in Histories : h = Append(row.history, Once("retrying"))
      BY <1>2, <2>2, Appended
    <2>4. new = [row EXCEPT !.status = "retrying", !.attempts = a, !.history = h]
      BY <1>0, <2>1, <2>3
    <2>5. new \in Rows /\ new.status = "retrying" /\ new.attempts = a /\ new.history = h
      BY <1>2, <2>4 DEF Rows, Statuses, Open
    <2> QED
      BY <1>2, <2>1, <2>2, <2>3, <2>5, GrowsByEntry
  <1>9. row.status \in Open => RowMoves(new)
    BY <1>2, <1>8 DEF RowMoves, Open
  <1>10. row' = new /\ work'[w] = Go(w, "load") => Loads(w)
    BY <1>3, <1>4, <1>8, AbsentFacts DEF Loads, Open
  <1>11. (row.status \in Open) \in BOOLEAN
    OBVIOUS
  <1> QED
    BY <1>1, <1>2, <1>4, <1>5, <1>6, <1>7, <1>8, <1>9, <1>10, <1>11, UpdateStep DEF Telling

LEMMA FailedStep == ASSUME Base, NEW w \in Slots, MarkFailed(w) PROVE StepFacts
  <1>0. PICK new : new = [row EXCEPT !.status = "failed", !.history = Append(@, Once("failed"))]
    OBVIOUS
  <1>1. PICK next : next = IF work[w].pc = "commit_failed" THEN Go(w, "fail")
                           ELSE IF work[w].n < ArchiveAttempts THEN NextAttempt(w)
                           ELSE Go(w, "give_up")
    OBVIOUS
  <1>2. /\ work[w].pc \in {"put_failed", "commit_failed"}
        /\ Update(w, row.status \in Open, new, next, next, Go(w, "fail"))
        /\ UNCHANGED <<prod, late, queue, log, idx, stream, note, object, sent, retained, crashes>>
    BY <1>0, <1>1, Zenon DEF MarkFailed
  <1>3. row \in Rows /\ row # Absent /\ work[w] \in Slot /\ Ready(work[w])
        /\ row.status \in Statuses /\ row.attempts \in Nat /\ row.history \in Histories
    BY <1>2, RowThere DEF OnRow
  <1>4. work[w].mode = "deliver" /\ work[w].task \in {"stream", "note", "sweep"}
    BY <1>2, <1>3 DEF Ready
  <1>5. /\ Go(w, "fail") \in Slot /\ Ready(Go(w, "fail")) /\ Go(w, "fail").pc = "fail"
        /\ Go(w, "fail").task = work[w].task
    BY <1>2, <1>3, Ending
  <1>6. /\ next \in Slot /\ Ready(next) /\ next.pc \in {"fail", "attempt", "give_up"}
        /\ next.task = work[w].task
    <2>1. CASE next = Go(w, "fail")
      BY <1>5, <2>1
    <2>2. CASE next = NextAttempt(w)
      <3>1. /\ next \in Slot /\ next.pc = "attempt" /\ next.mode = "deliver"
            /\ next.task = work[w].task
        BY <1>3, <1>4, <2>2, NextAttemptFacts
      <3>2. Ready(next)
        BY <1>4, <3>1 DEF Ready
      <3> QED
        BY <3>1, <3>2
    <2>3. CASE next = Go(w, "give_up")
      BY <1>3, <1>4, <2>3, Delivering
    <2> QED
      BY <1>1, <2>1, <2>2, <2>3
  <1>7. new \in Rows /\ new.status = "failed" /\ Grows(row, new)
    <2>1. "failed" \in Statuses /\ Once("failed") \in Statuses \X Nat
      BY OnceFacts DEF Statuses, Open
    <2>2. new = Marked(row, "failed", Once("failed"))
      BY <1>0, Zenon DEF Marked
    <2> QED
      BY <1>3, <2>1, <2>2, EntryOfRow
  <1>8. row.status \in Open => RowMoves(new)
    BY <1>3, <1>7 DEF RowMoves, Open
  <1>9. (row.status \in Open) \in BOOLEAN
    OBVIOUS
  <1> QED
    BY <1>2, <1>3, <1>5, <1>6, <1>7, <1>8, <1>9, UpdateStep DEF Telling

LEMMA DeadLetterPendingStep ==
    ASSUME Base, NEW w \in Slots, MarkDeadLetterPending(w) PROVE StepFacts
  <1>0. PICK new : new = [row EXCEPT !.status = "dead_letter_pending",
                                     !.history = Append(@, Once("dead_letter_pending"))]
    OBVIOUS
  <1>1. /\ work[w].pc = "give_up"
        /\ Update(w, row.status \notin {"archived", "dead_lettered"}, new,
                  Go(w, "finish"), Go(w, "done"), Go(w, "fail"))
        /\ UNCHANGED <<prod, late, queue, log, idx, stream, note, object, sent, retained, crashes>>
    BY <1>0, Zenon DEF MarkDeadLetterPending
  <1>2. row \in Rows /\ row # Absent /\ work[w] \in Slot /\ Ready(work[w])
        /\ row.status \in Statuses /\ row.attempts \in Nat /\ row.history \in Histories
    BY <1>1, RowThere DEF OnRow
  <1>3. work[w].task \in {"stream", "note", "sweep"}
    BY <1>1, <1>2 DEF Ready
  <1>4. /\ Go(w, "fail") \in Slot /\ Ready(Go(w, "fail")) /\ Go(w, "fail").pc = "fail"
        /\ Go(w, "fail").task = work[w].task
        /\ Go(w, "done") \in Slot /\ Ready(Go(w, "done")) /\ Go(w, "done").pc = "done"
        /\ Go(w, "done").task = work[w].task
    BY <1>1, <1>2, Ending
  <1>5. /\ Go(w, "finish") \in Slot /\ Ready(Go(w, "finish")) /\ Go(w, "finish").pc = "finish"
        /\ Go(w, "finish").task = work[w].task
    BY <1>2, <1>3, Delivering
  <1>6. new \in Rows /\ new.status = "dead_letter_pending" /\ Grows(row, new)
    <2>1. "dead_letter_pending" \in Statuses /\ Once("dead_letter_pending") \in Statuses \X Nat
      BY OnceFacts DEF Statuses, Open
    <2>2. new = Marked(row, "dead_letter_pending", Once("dead_letter_pending"))
      BY <1>0, Zenon DEF Marked
    <2> QED
      BY <1>2, <2>1, <2>2, EntryOfRow
  <1>7. row.status \notin {"archived", "dead_lettered"} => RowMoves(new)
    BY <1>1, <1>2, <1>6 DEF RowMoves
  <1>8. (row.status \notin {"archived", "dead_lettered"}) \in BOOLEAN
    OBVIOUS
  <1> QED
    BY <1>1, <1>2, <1>4, <1>5, <1>6, <1>7, <1>8, UpdateStep DEF Telling

LEMMA DeadLetteredStep == ASSUME Base, NEW w \in Slots, MarkDeadLettered(w) PROVE StepFacts
  <1>0. PICK new : new = [row EXCEPT !.status = "dead_lettered",
                                     !.history = Append(@, Once("dead_lettered"))]
    OBVIOUS
  <1>1. /\ work[w].pc = "dead_letter"
        /\ Update(w, row.status = "dead_letter_pending", new,
                  Go(w, "done"), Go(w, "done"), Go(w, "fail"))
        /\ UNCHANGED <<prod, late, queue, log, idx, stream, note, object, sent, retained, crashes>>
    BY <1>0, Zenon DEF MarkDeadLettered
  <1>2. row \in Rows /\ row # Absent /\ work[w] \in Slot /\ Ready(work[w])
        /\ row.status \in Statuses /\ row.attempts \in Nat /\ row.history \in Histories
    BY <1>1, RowThere DEF OnRow
  <1>3. /\ Go(w, "fail") \in Slot /\ Ready(Go(w, "fail")) /\ Go(w, "fail").pc = "fail"
        /\ Go(w, "fail").task = work[w].task
        /\ Go(w, "done") \in Slot /\ Ready(Go(w, "done")) /\ Go(w, "done").pc = "done"
        /\ Go(w, "done").task = work[w].task
    BY <1>1, <1>2, Ending
  <1>4. new \in Rows /\ new.status = "dead_lettered" /\ Grows(row, new)
    <2>1. "dead_lettered" \in Statuses /\ Once("dead_lettered") \in Statuses \X Nat
      BY OnceFacts DEF Statuses, Open
    <2>2. new = Marked(row, "dead_lettered", Once("dead_lettered"))
      BY <1>0, Zenon DEF Marked
    <2> QED
      BY <1>2, <2>1, <2>2, EntryOfRow
  <1>5. row.status = "dead_letter_pending" => RowMoves(new)
    BY <1>1, <1>2, <1>4 DEF RowMoves
  <1>6. (row.status = "dead_letter_pending") \in BOOLEAN
    OBVIOUS
  <1> QED
    BY <1>1, <1>2, <1>3, <1>4, <1>5, <1>6, UpdateStep DEF Telling

\* The slot of an invocation that loads the row.
LEMMA LoadSlot ==
    ASSUME NEW w \in Slots, work[w] \in Slot, work[w].task # "none",
           NEW mode \in {"redrive", "refresh"}, NEW s \in Slot,
           s.pc = "load", s.mode = mode, s.task = work[w].task
    PROVE  Ready(s)
  BY DEF Ready

LEMMA GoLoad ==
    ASSUME NEW w \in Slots, work[w] \in Slot
    PROVE  /\ Go(w, "load") \in Slot /\ Go(w, "load").pc = "load"
           /\ Go(w, "load").task = work[w].task
  <1>1. "load" \in PCs \ (Drops \cup Clears)
    BY DEF PCs, OnRow, Drops, Clears
  <1> QED
    BY <1>1, GoOn

LEMMA RedriveStep == ASSUME Base, NEW w \in Slots, MarkRedriveAttempt(w) PROVE StepFacts
  <1>0. PICK new : new = [row EXCEPT !.redriving = TRUE, !.attempts = Bump(@)]
    OBVIOUS
  <1>1. PICK yes : yes = [Go(w, "load") EXCEPT !.mode = "redrive"]
    OBVIOUS
  <1>2. /\ work[w].pc = "redrive"
        /\ Update(w, row.status = "dead_lettered" /\ ~row.redriving, new, yes,
                  Go(w, "done"), Go(w, "fail"))
        /\ UNCHANGED <<prod, late, queue, log, idx, stream, note, object, sent, retained, crashes>>
    BY <1>0, <1>1, Zenon DEF MarkRedriveAttempt
  <1>3. row \in Rows /\ row # Absent /\ work[w] \in Slot /\ Ready(work[w])
        /\ row.status \in Statuses /\ row.attempts \in Nat /\ row.history \in Histories
    BY <1>2, RowThere DEF OnRow
  <1>4. work[w].task # "none"
    BY <1>2, <1>3 DEF Ready
  <1>5. yes \in Slot /\ yes.pc = "load" /\ yes.mode = "redrive" /\ yes.task = work[w].task
    <2>1. PICK g \in Slot : g = Go(w, "load") /\ g.pc = "load" /\ g.task = work[w].task
      BY <1>3, GoLoad
    <2>2. yes = [g EXCEPT !.mode = "redrive"]
      BY <1>1, <2>1
    <2> QED
      BY <2>1, <2>2 DEF Slot, Modes
  <1>6. Ready(yes)
    BY <1>3, <1>4, <1>5, LoadSlot
  <1>7. /\ Go(w, "fail") \in Slot /\ Ready(Go(w, "fail")) /\ Go(w, "fail").pc = "fail"
        /\ Go(w, "fail").task = work[w].task
        /\ Go(w, "done") \in Slot /\ Ready(Go(w, "done")) /\ Go(w, "done").pc = "done"
        /\ Go(w, "done").task = work[w].task
    BY <1>2, <1>3, Ending
  <1>8. new \in Rows /\ new.status = row.status /\ Grows(row, new)
    <2>1. PICK a \in Nat : a = Bump(row.attempts) /\ row.attempts <= a
      BY <1>3, BumpFacts DEF Base
    <2>2. new = [row EXCEPT !.redriving = TRUE, !.attempts = a]
      BY <1>0, <2>1
    <2>3. /\ new \in Rows /\ new.status = row.status /\ new.attempts = a
          /\ new.history = row.history
      BY <1>3, <2>2 DEF Rows
    <2> QED
      BY <1>3, <2>1, <2>3, GrowsBySame
  <1>9. row.status = "dead_lettered" /\ ~row.redriving => RowMoves(new)
    BY <1>3, <1>8 DEF RowMoves
  <1>10. row.status = "dead_lettered" /\ ~row.redriving /\ row' = new /\ work'[w] = yes => Loads(w)
    BY <1>5, <1>8, AbsentFacts DEF Loads
  <1>11. (row.status = "dead_lettered" /\ ~row.redriving) \in BOOLEAN
    OBVIOUS
  <1>12. PICK cond \in BOOLEAN : cond = (row.status = "dead_lettered" /\ ~row.redriving)
    BY <1>11
  <1>13. /\ Update(w, cond, new, yes, Go(w, "done"), Go(w, "fail"))
         /\ cond => new \in Rows /\ RowMoves(new)
         /\ cond /\ row' = new /\ work'[w] = yes => Loads(w)
    BY <1>2, <1>8, <1>9, <1>10, <1>12
  <1> QED
    BY <1>2, <1>3, <1>5, <1>6, <1>7, <1>13, UpdateStep DEF Telling

LEMMA RedriveFailedStep == ASSUME Base, NEW w \in Slots, MarkRedriveFailed(w) PROVE StepFacts
  <1>0. PICK new : new = [row EXCEPT !.redriving = FALSE]
    OBVIOUS
  <1>1. /\ work[w].pc = "restore"
        /\ Update(w, row.status = "dead_lettered", new, Go(w, "done"), Go(w, "fail"), Go(w, "fail"))
        /\ UNCHANGED <<prod, late, queue, log, idx, stream, note, object, sent, retained, crashes>>
    BY <1>0, Zenon DEF MarkRedriveFailed
  <1>2. row \in Rows /\ row # Absent /\ work[w] \in Slot /\ Ready(work[w])
        /\ row.status \in Statuses /\ row.attempts \in Nat /\ row.history \in Histories
    BY <1>1, RowThere DEF OnRow
  <1>3. /\ Go(w, "fail") \in Slot /\ Ready(Go(w, "fail")) /\ Go(w, "fail").pc = "fail"
        /\ Go(w, "fail").task = work[w].task
        /\ Go(w, "done") \in Slot /\ Ready(Go(w, "done")) /\ Go(w, "done").pc = "done"
        /\ Go(w, "done").task = work[w].task
    BY <1>1, <1>2, Ending
  <1>4. /\ new \in Rows /\ new.status = row.status /\ new.attempts = row.attempts
        /\ new.history = row.history
    BY <1>0, <1>2 DEF Rows
  <1>5. RowMoves(new)
    BY <1>2, <1>4, GrowsBySame DEF RowMoves
  <1>6. (row.status = "dead_lettered") \in BOOLEAN
    OBVIOUS
  <1> QED
    BY <1>1, <1>2, <1>3, <1>4, <1>5, <1>6, UpdateStep DEF Telling

LEMMA ClaimStep == ASSUME Base, NEW w \in Slots, ClaimRefresh(w) PROVE StepFacts
  <1>0. PICK lease \in 1..2 :
          /\ work[w].pc = "claim"
          /\ Update(w, row.status = "archive_refresh_pending" /\ row.refreshLease = 0,
                    [row EXCEPT !.refreshLease = lease],
                    [Go(w, "load") EXCEPT !.mode = "refresh", !.lease = lease],
                    Go(w, "done"), Go(w, "fail"))
          /\ UNCHANGED <<prod, late, queue, log, idx, stream, note, object, sent, retained, crashes>>
    BY Zenon DEF ClaimRefresh
  <1>1. PICK new : new = [row EXCEPT !.refreshLease = lease]
    OBVIOUS
  <1>2. PICK yes : yes = [Go(w, "load") EXCEPT !.mode = "refresh", !.lease = lease]
    OBVIOUS
  <1>3. PICK cond \in BOOLEAN :
          cond = (row.status = "archive_refresh_pending" /\ row.refreshLease = 0)
    OBVIOUS
  <1>4. /\ work[w].pc = "claim"
        /\ Update(w, cond, new, yes, Go(w, "done"), Go(w, "fail"))
        /\ UNCHANGED <<prod, late, queue, log, idx, stream, note, object, sent, retained, crashes>>
    BY <1>0, <1>1, <1>2, <1>3
  <1>5. row \in Rows /\ row # Absent /\ work[w] \in Slot /\ Ready(work[w])
        /\ row.status \in Statuses /\ row.attempts \in Nat /\ row.history \in Histories
    BY <1>4, RowThere DEF OnRow
  <1>6. work[w].task # "none"
    BY <1>4, <1>5 DEF Ready
  <1>7. yes \in Slot /\ yes.pc = "load" /\ yes.mode = "refresh" /\ yes.task = work[w].task
    <2>1. PICK g \in Slot : g = Go(w, "load") /\ g.pc = "load" /\ g.task = work[w].task
      BY <1>5, GoLoad
    <2>2. yes = [g EXCEPT !.mode = "refresh", !.lease = lease]
      BY <1>2, <2>1
    <2>3. lease \in Nat /\ "refresh" \in Modes
      BY DEF Modes
    <2>4. yes \in Slot
      BY <2>1, <2>2, <2>3 DEF Slot
    <2> QED
      BY <2>1, <2>2, <2>4 DEF Slot
  <1>8. Ready(yes)
    BY <1>5, <1>6, <1>7, LoadSlot
  <1>9. /\ Go(w, "fail") \in Slot /\ Ready(Go(w, "fail")) /\ Go(w, "fail").pc = "fail"
        /\ Go(w, "fail").task = work[w].task
        /\ Go(w, "done") \in Slot /\ Ready(Go(w, "done")) /\ Go(w, "done").pc = "done"
        /\ Go(w, "done").task = work[w].task
    BY <1>4, <1>5, Ending
  <1>10. /\ new \in Rows /\ new.status = row.status /\ new.attempts = row.attempts
         /\ new.history = row.history
    BY <1>1, <1>5 DEF Rows
  <1>11. RowMoves(new)
    BY <1>5, <1>10, GrowsBySame DEF RowMoves
  <1>12. work'[w] = yes => Loads(w)
    BY <1>7 DEF Loads
  <1> QED
    BY <1>4, <1>5, <1>7, <1>8, <1>9, <1>10, <1>11, <1>12, UpdateStep DEF Telling

\* Where a failed write of the object, or a commit that was refused, leads.
LEMMA PutFailedFacts ==
    ASSUME NEW w \in Slots, work[w] \in Slot, Ready(work[w]),
           work[w].pc \in {"put", "replace", "commit"}
    PROVE  /\ PutFailed(w) \in Slot /\ Ready(PutFailed(w))
           /\ PutFailed(w).pc \in {"put_failed", "restore", "fail"}
           /\ PutFailed(w).task = work[w].task
           /\ work[w].mode = "redrive" =>
                /\ Go(w, "restore") \in Slot /\ Ready(Go(w, "restore"))
                /\ Go(w, "restore").pc = "restore" /\ Go(w, "restore").task = work[w].task
           /\ work[w].mode = "deliver" =>
                /\ Go(w, "commit_failed") \in Slot /\ Ready(Go(w, "commit_failed"))
                /\ Go(w, "commit_failed").pc = "commit_failed"
                /\ Go(w, "commit_failed").task = work[w].task
                /\ NextAttempt(w).task = work[w].task
                /\ NextAttempt(w) \in Slot /\ Ready(NextAttempt(w)) /\ NextAttempt(w).pc = "attempt"
  <1>1. /\ work[w].mode \in {"deliver", "redrive", "refresh"} /\ work[w].task # "none"
        /\ work[w].mode = "deliver" => work[w].task \in {"stream", "note", "sweep"}
    BY DEF Ready
  <1>2. ASSUME NEW pc \in Clears, pc = "restore" <=> work[w].mode = "redrive",
               work[w].mode # "refresh"
        PROVE  /\ Go(w, pc) \in Slot /\ Ready(Go(w, pc)) /\ Go(w, pc).pc = pc
               /\ Go(w, pc).task = work[w].task
    <2>1. /\ Go(w, pc) \in Slot /\ Go(w, pc).pc = pc /\ Go(w, pc).task = work[w].task
          /\ Go(w, pc).msg = work[w].msg /\ Go(w, pc).mode = work[w].mode
      BY GoClears
    <2>2. Ready(Go(w, pc))
      BY <1>1, <1>2, <2>1 DEF Ready, Clears
    <2> QED
      BY <2>1, <2>2
  <1>3. /\ Go(w, "fail") \in Slot /\ Ready(Go(w, "fail")) /\ Go(w, "fail").pc = "fail"
        /\ Go(w, "fail").task = work[w].task
    BY Ending
  <1>4. CASE work[w].mode = "deliver"
    <2>1. PutFailed(w) = Go(w, "put_failed")
      BY <1>4 DEF PutFailed
    <2>2. /\ Go(w, "put_failed") \in Slot /\ Ready(Go(w, "put_failed"))
          /\ Go(w, "put_failed").pc = "put_failed" /\ Go(w, "put_failed").task = work[w].task
          /\ Go(w, "commit_failed") \in Slot /\ Ready(Go(w, "commit_failed"))
          /\ Go(w, "commit_failed").pc = "commit_failed"
          /\ Go(w, "commit_failed").task = work[w].task
      BY <1>2, <1>4 DEF Clears
    <2>3. /\ NextAttempt(w) \in Slot /\ NextAttempt(w).pc = "attempt"
          /\ NextAttempt(w).mode = "deliver" /\ NextAttempt(w).task = work[w].task
      BY <1>4, NextAttemptFacts
    <2>4. Ready(NextAttempt(w))
      BY <1>1, <1>4, <2>3 DEF Ready
    <2> QED
      BY <1>4, <2>1, <2>2, <2>3, <2>4
  <1>5. CASE work[w].mode = "redrive"
    <2>1. PutFailed(w) = Go(w, "restore")
      BY <1>5 DEF PutFailed
    <2>2. /\ Go(w, "restore") \in Slot /\ Ready(Go(w, "restore"))
          /\ Go(w, "restore").pc = "restore" /\ Go(w, "restore").task = work[w].task
      BY <1>2, <1>5 DEF Clears
    <2> QED
      BY <1>5, <2>1, <2>2
  <1>6. CASE work[w].mode = "refresh"
    <2>1. PutFailed(w) = Go(w, "fail")
      BY <1>6 DEF PutFailed
    <2> QED
      BY <1>3, <1>6, <2>1
  <1> QED
    BY <1>1, <1>4, <1>5, <1>6

LEMMA MarkArchivedStep == ASSUME Base, NEW w \in Slots, MarkArchived(w) PROVE StepFacts
  <1> DEFINE s == work[w]
  <1>0. PICK new : new = [row EXCEPT !.status = "archived",
                                     !.history = Append(@, Last(s.etag.history)),
                                     !.redriving = FALSE, !.refreshLease = 0]
    OBVIOUS
  <1>1. PICK cond \in BOOLEAN :
          cond = (/\ row.status = s.snap.status
                  /\ row.attempts = s.snap.attempts
                  /\ row.history = s.snap.history
                  /\ s.mode = "refresh" => row.refreshLease = s.lease)
    OBVIOUS
  <1>2. PICK no : no = CASE s.mode = "deliver" -> IF s.n < ArchiveAttempts THEN NextAttempt(w)
                                                  ELSE Go(w, "fail")
                         [] s.mode = "redrive" -> Go(w, "restore")
                         [] s.mode = "refresh" -> Go(w, "done")
    OBVIOUS
  <1>3. PICK error : error = CASE s.mode = "deliver" -> Go(w, "commit_failed")
                               [] s.mode = "redrive" -> Go(w, "restore")
                               [] s.mode = "refresh" -> Go(w, "fail")
    OBVIOUS
  <1>4. /\ work[w].pc = "commit"
        /\ Update(w, cond, new, Go(w, "done"), no, error)
        /\ UNCHANGED <<prod, late, queue, log, idx, stream, note, object, sent, retained, crashes>>
    BY <1>0, <1>1, <1>2, <1>3 DEF MarkArchived
  <1>5. row \in Rows /\ row # Absent /\ work[w] \in Slot /\ Ready(work[w])
        /\ row.status \in Statuses /\ row.attempts \in Nat /\ row.history \in Histories
    BY <1>4, RowThere DEF OnRow
  <1>6. work[w].mode \in {"deliver", "redrive", "refresh"}
    BY <1>4, <1>5 DEF Ready
  <1>7. /\ Go(w, "fail") \in Slot /\ Ready(Go(w, "fail")) /\ Go(w, "fail").pc = "fail"
        /\ Go(w, "fail").task = work[w].task
        /\ Go(w, "done") \in Slot /\ Ready(Go(w, "done")) /\ Go(w, "done").pc = "done"
        /\ Go(w, "done").task = work[w].task
    BY <1>4, <1>5, Ending
  <1>8. /\ work[w].mode = "redrive" =>
              /\ Go(w, "restore") \in Slot /\ Ready(Go(w, "restore"))
              /\ Go(w, "restore").pc = "restore" /\ Go(w, "restore").task = work[w].task
        /\ work[w].mode = "deliver" =>
              /\ Go(w, "commit_failed") \in Slot /\ Ready(Go(w, "commit_failed"))
              /\ Go(w, "commit_failed").pc = "commit_failed"
              /\ Go(w, "commit_failed").task = work[w].task
              /\ NextAttempt(w).task = work[w].task
              /\ NextAttempt(w) \in Slot /\ Ready(NextAttempt(w)) /\ NextAttempt(w).pc = "attempt"
    BY <1>4, <1>5, PutFailedFacts
  <1>9. /\ no \in Slot /\ Ready(no) /\ no.pc \in {"fail", "attempt", "restore", "done"}
        /\ error \in Slot /\ Ready(error) /\ error.pc \in {"commit_failed", "restore", "fail"}
        /\ no.task = work[w].task /\ error.task = work[w].task
    <2>1. CASE work[w].mode = "deliver"
      <3>1. no \in {NextAttempt(w), Go(w, "fail")} /\ error = Go(w, "commit_failed")
        BY <1>2, <1>3, <2>1
      <3> QED
        BY <1>7, <1>8, <2>1, <3>1
    <2>2. CASE work[w].mode = "redrive"
      <3>1. no = Go(w, "restore") /\ error = Go(w, "restore")
        BY <1>2, <1>3, <2>2
      <3> QED
        BY <1>8, <2>2, <3>1
    <2>3. CASE work[w].mode = "refresh"
      <3>1. no = Go(w, "done") /\ error = Go(w, "fail")
        BY <1>2, <1>3, <2>3
      <3> QED
        BY <1>7, <3>1
    <2> QED
      BY <1>6, <2>1, <2>2, <2>3
  <1>10. PICK e \in Statuses \X Nat : e = Last(s.etag.history)
    <2>1. s.etag \in Objects /\ s.etag.status = "archived"
      BY <1>4, <1>5, SlotFacts DEF Ready
    <2> QED
      BY <2>1, ObjectFacts
  <1>11. /\ new \in Rows /\ new.status = "archived" /\ new.attempts = row.attempts
         /\ new.history = Append(row.history, e) /\ Grows(row, new)
    <2>1. PICK h \in Histories : h = Append(row.history, e)
      BY <1>5, Appended
    <2>2. new = [row EXCEPT !.status = "archived", !.history = h, !.redriving = FALSE,
                            !.refreshLease = 0]
      BY <1>0, <1>10, <2>1
    <2>3. new \in Rows /\ new.status = "archived" /\ new.attempts = row.attempts /\ new.history = h
      BY <1>5, <2>2 DEF Rows, Statuses
    <2> QED
      BY <1>5, <2>1, <2>3, GrowsByEntryOnly
  <1>12. cond => RowMoves(new)
    <2>1. cond => /\ row.status = work[w].snap.status /\ row.attempts = work[w].snap.attempts
                  /\ row.history = work[w].snap.history
      BY <1>1
    <2> QED
      BY <1>4, <1>5, <1>10, <1>11, <2>1 DEF RowMoves
  <1> QED
    BY <1>4, <1>5, <1>7, <1>9, <1>11, <1>12, UpdateStep DEF Telling

-----------------------------------------------------------------------------
\* The steps between the load and the commit.

\* A step of an invocation on the object.
LEMMA ArchiveMove ==
    ASSUME Base, NEW w \in Slots, row # Absent, NEW s \in Slot, Goto(w, s), Ready(s),
           s.task = work[w].task, s.pc \notin Telling, UNCHANGED row, ObjectEffect, object' \in Objects \cup {Absent},
           work'[w] = s => SlotEffect(w), faults' \in Nat,
           UNCHANGED <<prod, late, queue, log, idx, stream, note, sent, retained, crashes>>
    PROVE  StepFacts
  <1>1. /\ work' \in [Slots -> Slot] /\ work'[w] = s
        /\ \A v \in Slots : v # w => work'[v] = work[v]
        /\ \A v \in Slots : Ready(work'[v]) /\ (work'[v].pc \in OnRow => row' # Absent)
        /\ \A v \in Slots : work'[v].task \in {"stream", "note"} => row' # Absent
    BY SlotStep
  <1>2. Typed'
    BY <1>1 DEF Base, Typed
  <1>3. Equipped'
    BY <1>1 DEF Base, Equipped
  <1>4. \A v \in Slots : SlotEffect(v) /\ Tells(v)
    BY <1>1 DEF SlotEffect, Tells
  <1>5. TaskEffect /\ IdxEffect
    BY <1>1 DEF TaskEffect, StreamEffect, IdxEffect
  <1> QED
    BY <1>2, <1>3, <1>4, <1>5 DEF StepFacts, Effects, RowEffect

LEMMA LoadStep == ASSUME Base, NEW w \in Slots, LoadDelivery(w) PROVE StepFacts
  <1>1. PICK snap : snap = [status |-> row.status, attempts |-> row.attempts,
                            history |-> row.history]
    OBVIOUS
  <1>2. PICK read : read = [work[w] EXCEPT !.pc = "put", !.cas = 1, !.snap = snap]
    OBVIOUS
  <1>3. /\ work[w].pc = "load"
        /\ UNCHANGED <<prod, late, queue, log, row, idx, stream, note, object, sent, retained,
                       crashes>>
        /\ \/ /\ work[w].mode = "refresh" => row.status = "archive_refresh_pending"
              /\ Goto(w, read)
              /\ UNCHANGED faults
           \/ Goto(w, Go(w, "done")) /\ UNCHANGED faults
           \/ Fault /\ Goto(w, Go(w, IF work[w].mode = "redrive" THEN "restore" ELSE "fail"))
    BY <1>1, <1>2 DEF LoadDelivery
  <1>4. row \in Rows /\ row # Absent /\ work[w] \in Slot /\ Ready(work[w])
        /\ row.status \in Statuses /\ row.attempts \in Nat /\ row.history \in Histories
    BY <1>3, RowThere DEF OnRow
  <1>5. work[w].mode \in {"deliver", "redrive", "refresh"} /\ work[w].task # "none"
    BY <1>3, <1>4 DEF Ready
  <1>6. /\ Go(w, "fail") \in Slot /\ Ready(Go(w, "fail")) /\ Go(w, "fail").pc = "fail"
        /\ Go(w, "done") \in Slot /\ Ready(Go(w, "done")) /\ Go(w, "done").pc = "done"
        /\ Go(w, "fail").task = work[w].task /\ Go(w, "done").task = work[w].task
    BY <1>3, <1>4, Ending
  <1>7. faults' \in Nat /\ sent' \in BOOLEAN /\ retained' \subseteq {"terminal", "quarantine"}
    BY <1>3, KeptFacts, FaultFacts
  <1>8. CASE Goto(w, read) /\ (work[w].mode = "refresh" => row.status = "archive_refresh_pending")
    <2>1. snap \in Snaps /\ snap # Absent
      BY <1>1, <1>4, AbsentFacts DEF Snaps
    <2>2. /\ read \in Slot /\ read.pc = "put" /\ read.task = work[w].task
          /\ read.mode = work[w].mode /\ read.msg = work[w].msg /\ read.snap = snap
      BY <1>2, <1>4, <2>1 DEF Slot, OnRow
    <2>3. Ready(read)
      BY <1>3, <1>4, <1>5, <2>1, <2>2 DEF Ready
    <2>4. /\ snap.status = row.status /\ snap.attempts = row.attempts
          /\ snap.history = row.history
      BY <1>1
    <2>5. work'[w] = read => SlotEffect(w)
      BY <1>3, <1>8, <2>2, <2>4 DEF SlotEffect, Reads
    <2>6. ObjectEffect /\ object' \in Objects \cup {Absent}
      BY <1>3, KeptFacts DEF ObjectEffect
    <2> QED
      BY <1>3, <1>4, <1>7, <1>8, <2>2, <2>3, <2>5, <2>6, ArchiveMove DEF Telling
  <1>9. CASE Goto(w, Go(w, "done")) \/ Goto(w, Go(w, "fail"))
    <2>1. PICK pc \in {"done", "fail"} : Goto(w, Go(w, pc))
      BY <1>9
    <2> QED
      BY <1>3, <1>4, <1>6, <1>7, <2>1, QuietStep DEF Telling
  <1>10. CASE work[w].mode = "redrive" /\ Goto(w, Go(w, "restore"))
    <2>1. /\ Go(w, "restore") \in Slot /\ Go(w, "restore").pc = "restore"
          /\ Go(w, "restore").task = work[w].task /\ Go(w, "restore").mode = "redrive"
      BY <1>4, <1>10, GoClears DEF Clears
    <2>2. Ready(Go(w, "restore"))
      BY <1>5, <2>1 DEF Ready
    <2> QED
      BY <1>3, <1>4, <1>7, <1>10, <2>1, <2>2, QuietStep DEF Telling
  <1> QED
    BY <1>3, <1>8, <1>9, <1>10

\* A slot that commits to an object, replaces one or starts over.
Comparing(w, pc, cas, etag) == [work[w] EXCEPT !.pc = pc, !.cas = cas, !.etag = etag]

\* An invocation that takes the object it found along.
LEMMA WithEtag ==
    ASSUME NEW w \in Slots, work[w] \in Slot, Ready(work[w]), work[w].pc \in {"put", "replace"},
           NEW pc \in {"commit", "replace", "put"}, NEW etag \in Objects \cup {Absent},
           NEW cas \in Nat, NEW s, s = Comparing(w, pc, cas, etag),
           pc # "put" => etag # Absent, pc = "commit" => etag.status = "archived"
    PROVE  /\ s \in Slot /\ Ready(s) /\ s.pc = pc /\ s.task = work[w].task
           /\ s.mode = work[w].mode /\ s.snap = work[w].snap /\ s.etag = etag
  <1>1. /\ s \in Slot /\ s.pc = pc /\ s.task = work[w].task /\ s.msg = work[w].msg
        /\ s.mode = work[w].mode /\ s.snap = work[w].snap /\ s.etag = etag
    BY DEF Comparing, Slot, OnRow
  <1>2. Ready(s)
    BY <1>1 DEF Ready
  <1> QED
    BY <1>1, <1>2

LEMMA GoWithEtag ==
    ASSUME NEW w \in Slots, work[w] \in Slot,
           NEW pc \in {"commit", "replace"}, NEW etag \in Objects \cup {Absent}
    PROVE  [Go(w, pc) EXCEPT !.etag = etag]
             = Comparing(w, pc, work[w].cas, etag)
  <1>1. pc \in PCs \ (Drops \cup Clears)
    BY DEF PCs, OnRow, Drops, Clears
  <1>2. Go(w, pc) = [work[w] EXCEPT !.pc = pc]
    BY <1>1, GoOn
  <1> QED
    BY <1>2 DEF Slot, Comparing

LEMMA PutStep == ASSUME Base, NEW w \in Slots, PutObject(w) PROVE StepFacts
  <1>1. PICK p : p = Proposed(w)
    OBVIOUS
  <1>2. PICK c : c = compare_archive_objects(object, p)
    OBVIOUS
  <1>3. /\ work[w].pc = "put"
        /\ UNCHANGED <<prod, late, queue, log, row, idx, stream, note, sent, retained, crashes>>
        /\ \/ /\ object = Absent /\ object' = p
              /\ Goto(w, [Go(w, "commit") EXCEPT !.etag = p])
              /\ UNCHANGED faults
           \/ /\ object # Absent /\ c = "keep"
              /\ Goto(w, [Go(w, "commit") EXCEPT !.etag = object])
              /\ UNCHANGED <<object, faults>>
           \/ /\ object # Absent /\ c = "replace"
              /\ Goto(w, [Go(w, "replace") EXCEPT !.etag = object])
              /\ UNCHANGED <<object, faults>>
           \/ Goto(w, PutFailed(w)) /\ UNCHANGED <<object, faults>>
           \/ Fault /\ (object' = object \/ (object = Absent /\ object' = p)) /\ Goto(w, PutFailed(w))
    BY <1>1, <1>2 DEF PutObject
  <1>4. row \in Rows /\ row # Absent /\ work[w] \in Slot /\ Ready(work[w])
    BY <1>3, RowThere DEF OnRow
  <1>5. work[w].snap \in Snaps
    BY <1>3, <1>4, SlotFacts DEF Ready
  <1>6. p \in Objects /\ p.status = "archived" /\ p # Absent
    BY <1>1, <1>5, ProposedFacts, AbsentFacts DEF Base
  <1>7. object \in Objects \cup {Absent} /\ faults' \in Nat
    BY <1>3, KeptFacts, FaultFacts
  <1>8. CASE object = Absent /\ object' = p /\ Goto(w, [Go(w, "commit") EXCEPT !.etag = p])
    <2>1. PICK s : s = Comparing(w, "commit", work[w].cas, p)
      OBVIOUS
    <2>2. Goto(w, s)
      BY <1>4, <1>6, <1>8, <2>1, GoWithEtag
    <2>3. /\ s \in Slot /\ Ready(s) /\ s.pc = "commit" /\ s.task = work[w].task
          /\ s.mode = work[w].mode /\ s.snap = work[w].snap /\ s.etag = p
      <3>1. work[w].cas \in Nat
        BY <1>4, SlotFacts
      <3> QED
        BY <1>3, <1>4, <1>6, <2>1, <3>1, WithEtag
    <2>4. work'[w] = s => SlotEffect(w)
      BY <1>1, <1>3, <1>8, <2>3 DEF SlotEffect, Writes, Keeps
    <2>5. ObjectEffect /\ object' \in Objects \cup {Absent}
      BY <1>1, <1>3, <1>6, <1>8 DEF ObjectEffect
    <2> QED
      BY <1>3, <1>4, <1>7, <2>2, <2>3, <2>4, <2>5, ArchiveMove DEF Telling
  <1>9. CASE /\ object # Absent /\ c = "keep" /\ UNCHANGED object
             /\ Goto(w, [Go(w, "commit") EXCEPT !.etag = object])
    <2>1. PICK s : s = Comparing(w, "commit", work[w].cas, object)
      OBVIOUS
    <2>2. Goto(w, s)
      BY <1>4, <1>7, <1>9, <2>1, GoWithEtag
    <2>3. object \in Objects /\ object.status = "archived"
      BY <1>2, <1>6, <1>7, <1>9, CompareFacts
    <2>4. /\ s \in Slot /\ Ready(s) /\ s.pc = "commit" /\ s.task = work[w].task
          /\ s.mode = work[w].mode /\ s.snap = work[w].snap /\ s.etag = object
      <3>1. work[w].cas \in Nat
        BY <1>4, SlotFacts
      <3> QED
        BY <1>3, <1>4, <1>9, <2>1, <2>3, <3>1, WithEtag
    <2>5. work'[w] = s => SlotEffect(w)
      BY <1>1, <1>2, <1>3, <1>9, <2>4 DEF SlotEffect, Compares, Keeps
    <2>6. ObjectEffect /\ object' \in Objects \cup {Absent}
      BY <1>7, <1>9 DEF ObjectEffect
    <2> QED
      BY <1>3, <1>4, <1>7, <2>2, <2>4, <2>5, <2>6, ArchiveMove DEF Telling
  <1>10. CASE /\ object # Absent /\ c = "replace" /\ UNCHANGED object
              /\ Goto(w, [Go(w, "replace") EXCEPT !.etag = object])
    <2>1. PICK s : s = Comparing(w, "replace", work[w].cas, object)
      OBVIOUS
    <2>2. Goto(w, s)
      BY <1>4, <1>7, <1>10, <2>1, GoWithEtag
    <2>3. object \in Objects
      BY <1>7, <1>10
    <2>4. /\ s \in Slot /\ Ready(s) /\ s.pc = "replace" /\ s.task = work[w].task
          /\ s.mode = work[w].mode /\ s.snap = work[w].snap /\ s.etag = object
      <3>1. work[w].cas \in Nat
        BY <1>4, SlotFacts
      <3> QED
        BY <1>3, <1>4, <1>10, <2>1, <2>3, <3>1, WithEtag
    <2>5. work'[w] = s => SlotEffect(w)
      BY <1>1, <1>2, <1>3, <1>10, <2>4 DEF SlotEffect, Compares, Keeps
    <2>6. ObjectEffect /\ object' \in Objects \cup {Absent}
      BY <1>7, <1>10 DEF ObjectEffect
    <2> QED
      BY <1>3, <1>4, <1>7, <2>2, <2>4, <2>5, <2>6, ArchiveMove DEF Telling
  <1>11. CASE /\ Goto(w, PutFailed(w))
              /\ object' = object \/ (object = Absent /\ object' = p)
    <2>1. /\ PutFailed(w) \in Slot /\ Ready(PutFailed(w))
          /\ PutFailed(w).pc \in {"put_failed", "restore", "fail"}
          /\ PutFailed(w).task = work[w].task
      BY <1>3, <1>4, PutFailedFacts
    <2>2. ObjectEffect /\ object' \in Objects \cup {Absent}
      BY <1>1, <1>3, <1>6, <1>7, <1>11 DEF ObjectEffect
    <2>3. /\ row' = row /\ RowEffect /\ StreamEffect
          /\ stream' \in [st : {"none", "ready", "busy", "done", "failed"}, left : Nat]
      BY <1>3, KeptFacts DEF RowEffect, StreamEffect
    <2> QED
      BY <1>3, <1>4, <1>7, <1>11, <2>1, <2>2, <2>3, AnyStep DEF Telling
  <1> QED
    BY <1>3, <1>8, <1>9, <1>10, <1>11

LEMMA ReplaceStep == ASSUME Base, NEW w \in Slots, ReplaceObject(w) PROVE StepFacts
  <1>1. PICK p : p = Proposed(w)
    OBVIOUS
  <1>2. /\ work[w].pc = "replace"
        /\ UNCHANGED <<prod, late, queue, log, row, idx, stream, note, sent, retained, crashes>>
        /\ \/ /\ object = work[w].etag /\ object' = p
              /\ Goto(w, [Go(w, "commit") EXCEPT !.etag = p])
              /\ UNCHANGED faults
           \/ /\ Goto(w, [Go(w, "put") EXCEPT !.cas = @ + 1, !.etag = Absent])
              /\ UNCHANGED <<object, faults>>
           \/ Goto(w, PutFailed(w)) /\ UNCHANGED <<object, faults>>
           \/ /\ Fault /\ Goto(w, PutFailed(w))
              /\ object' = object \/ (object = work[w].etag /\ object' = p)
    BY <1>1 DEF ReplaceObject
  <1>3. row \in Rows /\ row # Absent /\ work[w] \in Slot /\ Ready(work[w])
    BY <1>2, RowThere DEF OnRow
  <1>4. work[w].snap \in Snaps
    BY <1>2, <1>3, SlotFacts DEF Ready
  <1>5. p \in Objects /\ p.status = "archived" /\ p # Absent
    BY <1>1, <1>4, ProposedFacts, AbsentFacts DEF Base
  <1>6. object \in Objects \cup {Absent} /\ faults' \in Nat
    BY <1>2, KeptFacts, FaultFacts
  <1>7. work[w].cas \in Nat
    BY <1>3, SlotFacts
  <1>8. CASE object = work[w].etag /\ object' = p /\ Goto(w, [Go(w, "commit") EXCEPT !.etag = p])
    <2>1. PICK s : s = Comparing(w, "commit", work[w].cas, p)
      OBVIOUS
    <2>2. Goto(w, s)
      BY <1>3, <1>5, <1>8, <2>1, GoWithEtag
    <2>3. /\ s \in Slot /\ Ready(s) /\ s.pc = "commit" /\ s.task = work[w].task
          /\ s.mode = work[w].mode /\ s.snap = work[w].snap /\ s.etag = p
      BY <1>2, <1>3, <1>5, <1>7, <2>1, WithEtag
    <2>4. work'[w] = s => SlotEffect(w)
      BY <1>1, <1>2, <1>8, <2>3 DEF SlotEffect, Writes, Keeps
    <2>5. ObjectEffect /\ object' \in Objects \cup {Absent}
      BY <1>1, <1>2, <1>5, <1>8 DEF ObjectEffect
    <2> QED
      BY <1>2, <1>3, <1>6, <2>2, <2>3, <2>4, <2>5, ArchiveMove DEF Telling
  <1>9. CASE /\ Goto(w, [Go(w, "put") EXCEPT !.cas = @ + 1, !.etag = Absent])
             /\ UNCHANGED object
    <2>0. PICK cas \in Nat : cas = work[w].cas + 1
      BY <1>7
    <2>1. PICK s : s = Comparing(w, "put", cas, Absent)
      OBVIOUS
    <2>2. Goto(w, s)
      <3>1. "put" \in PCs \ (Drops \cup Clears)
        BY DEF PCs, OnRow, Drops, Clears
      <3>2. PICK g \in Slot : g = Go(w, "put") /\ g = [work[w] EXCEPT !.pc = "put"]
        BY <1>3, <3>1, GoOn
      <3>3. g.cas = work[w].cas
        BY <1>3, <3>2 DEF Slot
      <3>4. Goto(w, [g EXCEPT !.cas = cas, !.etag = Absent])
        BY <1>9, <2>0, <3>2, <3>3
      <3>5. [g EXCEPT !.cas = cas, !.etag = Absent] = s
        BY <1>3, <2>1, <3>2 DEF Slot, Comparing
      <3> QED
        BY <3>4, <3>5
    <2>3. /\ s \in Slot /\ Ready(s) /\ s.pc = "put" /\ s.task = work[w].task
          /\ s.mode = work[w].mode /\ s.snap = work[w].snap /\ s.etag = Absent
      BY <1>2, <1>3, <2>0, <2>1, WithEtag
    <2>4. work'[w] = s => SlotEffect(w)
      BY <1>2, <2>3 DEF SlotEffect, Retries, Keeps
    <2>5. ObjectEffect /\ object' \in Objects \cup {Absent}
      BY <1>6, <1>9 DEF ObjectEffect
    <2> QED
      BY <1>2, <1>3, <1>6, <2>2, <2>3, <2>4, <2>5, ArchiveMove DEF Telling
  <1>10. CASE /\ Goto(w, PutFailed(w))
              /\ object' = object \/ (object = work[w].etag /\ object' = p)
    <2>1. /\ PutFailed(w) \in Slot /\ Ready(PutFailed(w))
          /\ PutFailed(w).pc \in {"put_failed", "restore", "fail"}
          /\ PutFailed(w).task = work[w].task
      BY <1>2, <1>3, PutFailedFacts
    <2>2. ObjectEffect /\ object' \in Objects \cup {Absent}
      BY <1>1, <1>2, <1>5, <1>6, <1>10 DEF ObjectEffect
    <2>3. /\ row' = row /\ RowEffect /\ StreamEffect
          /\ stream' \in [st : {"none", "ready", "busy", "done", "failed"}, left : Nat]
      BY <1>2, KeptFacts DEF RowEffect, StreamEffect
    <2> QED
      BY <1>2, <1>3, <1>6, <1>10, <2>1, <2>2, <2>3, AnyStep DEF Telling
  <1> QED
    BY <1>2, <1>8, <1>9, <1>10

-----------------------------------------------------------------------------
\* Every step, and the start.

LEMMA StutterStep == ASSUME Base, UNCHANGED eventVars PROVE StepFacts
  <1>1. UNCHANGED <<prod, late, queue, log, row, idx, stream, note, object, work, sent,
                    retained, faults, crashes>>
    BY DEF eventVars
  <1>2. Typed'
    BY <1>1 DEF Base, Typed
  <1>3. Equipped'
    BY <1>1 DEF Base, Equipped
  <1>4. Effects
    BY <1>1 DEF Effects, RowEffect, ObjectEffect, TaskEffect, StreamEffect, IdxEffect,
                SlotEffect, Tells
  <1> QED
    BY <1>2, <1>3, <1>4 DEF StepFacts

\* Every step keeps the types and has one of the listed effects.
LEMMA NextStep == ASSUME Base, [NextEvent]_eventVars PROVE StepFacts
  <1>1. CASE UNCHANGED eventVars
    BY <1>1, StutterStep
  <1>2. CASE WriteRow
    BY <1>2, WriteRowStep
  <1>3. CASE Enqueue
    BY <1>3, EnqueueStep
  <1>4. CASE ProducerDies
    BY <1>4, ProducerDiesStep
  <1>5. CASE LateWrite
    BY <1>5, LateWriteStep
  <1>6. CASE Replay
    BY <1>6, ReplayStep
  <1>7. CASE LeaseRunsOut
    BY <1>7, LeaseRunsOutStep
  <1>8. CASE IndexCatchesUp
    BY <1>8, IndexStep
  <1>9. ASSUME NEW w \in Slots, Begin(w) \/ ArchiveStep(w) \/ Crash(w)
        PROVE  StepFacts
    <2>1. CASE Begin(w)
      BY <2>1, BeginStreamStep, BeginNoteStep, BeginSweepStep, BeginIngressStep DEF Begin
    <2>2. CASE ArchiveStep(w)
      <3>1. CASE CheckOutbox(w) \/ MarkAttempt(w) \/ LoadDelivery(w) \/ PutObject(w)
        BY <3>1, CheckOutboxStep, AttemptStep, LoadStep, PutStep
      <3>2. CASE ReplaceObject(w) \/ MarkArchived(w) \/ MarkFailed(w) \/ MarkDeadLetterPending(w)
        BY <3>2, ReplaceStep, MarkArchivedStep, FailedStep, DeadLetterPendingStep
      <3>3. CASE SendDeadLetter(w) \/ MarkDeadLettered(w) \/ MarkRedriveAttempt(w)
        BY <3>3, SendDeadLetterStep, DeadLetteredStep, RedriveStep
      <3>4. CASE MarkRedriveFailed(w) \/ ClaimRefresh(w) \/ Store(w) \/ PersistIngressFailure(w)
        BY <3>4, RedriveFailedStep, ClaimStep, StoreStep, PersistStep
      <3>5. CASE ArchiveTerminalIngress(w) \/ AnnounceIngressFailure(w) \/ Return(w)
        BY <3>5, ArchiveTerminalStep, AnnounceStep, ReturnStep
      <3> QED
        BY <2>2, <3>1, <3>2, <3>3, <3>4, <3>5 DEF ArchiveStep
    <2>3. CASE Crash(w)
      BY <2>3, CrashStep
    <2> QED
      BY <1>9, <2>1, <2>2, <2>3
  <1> QED
    BY <1>1, <1>2, <1>3, <1>4, <1>5, <1>6, <1>7, <1>8, <1>9 DEF NextEvent, Producer

\* The first states are typed.
LEMMA StartsBase == ASSUME BoundsAssumption, InitEvent PROVE Base
  <1> DEFINE first == StartAttempt(Pending, FALSE)
             copy  == StartAttempt(Failed(first), FALSE)
  <1>1. Pending \in Deliveries /\ first \in Deliveries
    BY PendingFacts, StartFacts
  <1>2. copy \in Deliveries
    <2> HIDE DEF first
    <2> QED
      BY <1>1, FailedFacts, StartFacts
  <1>3. [id |-> 1, d |-> copy, attempts |-> 0, receives |-> 0] \in Messages
    <2> HIDE DEF copy
    <2> QED
      BY <1>2 DEF Messages
  <1>4. NewRow(first) \in Rows
    BY <1>1, NewRowFacts
  <1> HIDE DEF first, copy
  <1>5. work = [w \in Slots |-> IdleSlot] /\ IdleSlot \in Slot /\ Ready(IdleSlot)
        /\ IdleSlot.pc = "idle" /\ IdleSlot.task = "none"
    BY IdleFacts DEF InitEvent, IdleSlot
  <1>6. /\ late = {} /\ idx = "pending" /\ object = Absent /\ sent = FALSE /\ retained = {}
        /\ faults = MaxFaults /\ crashes = MaxCrashes
        /\ note = [st |-> "none", left |-> NoteReceives]
        /\ log \in {Pending, Absent}
        /\ queue \subseteq {[id |-> 1, d |-> copy, attempts |-> 0, receives |-> 0]}
        /\ \/ row = NewRow(first) /\ stream = [st |-> "ready", left |-> StreamTries]
           \/ row = Absent /\ stream = [st |-> "none", left |-> StreamTries]
    BY DEF InitEvent, first, copy
  <1>7. prod \in [phase : {"hot", "enqueue", "done", "dead"}, n : Nat, d : Deliveries,
                  twice : BOOLEAN]
    <2>1. PICK phase \in {"hot", "enqueue", "done", "dead"} :
             phase = IF Start = "batch" THEN "enqueue" ELSE IF Start = "hot" THEN "hot" ELSE "done"
      OBVIOUS
    <2>2. prod = [phase |-> phase, n |-> 1, d |-> Pending, twice |-> (Start = "batch")]
      BY <2>1 DEF InitEvent
    <2> QED
      BY <1>1, <2>2
  <1>8. /\ MaxFaults \in Nat /\ MaxCrashes \in Nat /\ NoteReceives \in Nat /\ StreamTries \in Nat
    BY DEF BoundsAssumption
  <1>9. Typed
    <2>1. work \in [Slots -> Slot]
      BY <1>5
    <2>2. /\ late \subseteq Deliveries /\ queue \subseteq Messages /\ log \in Deliveries \cup {Absent}
          /\ row \in Rows \cup {Absent} /\ idx \in Statuses /\ object \in Objects \cup {Absent}
          /\ sent \in BOOLEAN /\ retained \subseteq {"terminal", "quarantine"}
          /\ faults \in Nat /\ crashes \in Nat
      BY <1>1, <1>3, <1>4, <1>6, <1>8 DEF Statuses, Open
    <2>3. /\ stream \in [st : {"none", "ready", "busy", "done", "failed"}, left : Nat]
          /\ note \in [st : {"none", "ready", "busy", "done", "dead"}, left : Nat]
      BY <1>6, <1>8
    <2> QED
      BY <1>7, <2>1, <2>2, <2>3 DEF Typed
  <1>10. Equipped
    <2>1. stream.st # "none" => row # Absent
      BY <1>4, <1>6, RowFacts
    <2>2. note.st = "none" /\ idx = "pending"
      BY <1>6
    <2> QED
      BY <1>5, <2>1, <2>2 DEF Equipped, OnRow
  <1> QED
    BY <1>9, <1>10 DEF Base

\* So the base is inductive.
LEMMA BaseKept == ASSUME Base, [NextEvent]_eventVars PROVE Base'
  BY NextStep DEF StepFacts, Base, BoundsAssumption

-----------------------------------------------------------------------------
\* What the effects say of the row, for the invariants.

\* A row is never lost, and only grows.
LEMMA RowGrows ==
    ASSUME Base, Effects, row # Absent, row' \in Rows \cup {Absent}
    PROVE  row' # Absent /\ row' \in Rows /\ row \in Rows /\ Grows(row, row')
  <1>1. row \in Rows
    BY KeptFacts
  <1>2. CASE row' = row
    BY <1>1, <1>2, GrowsReflexive
  <1>3. CASE row' \in Rows /\ RowMoves(row')
    BY <1>1, <1>3, RowFacts DEF RowMoves
  <1> QED
    BY <1>1, <1>2, <1>3 DEF Effects, RowEffect

-----------------------------------------------------------------------------
\* Who is told, and what may replace an object.

\* A row is dead_lettered by who has sent the message.
LEMMA AnnouncedKept == ASSUME Base, Base', Effects, Announced PROVE Announced'
  <1>0. sent \in BOOLEAN /\ sent' \in BOOLEAN /\ (sent = TRUE => sent' = TRUE)
    BY DEF Base, Typed, Effects
  <1>1. ASSUME NEW w \in Slots, work'[w].pc = "dead_letter" PROVE sent' = TRUE
    <2>1. Tells(w)
      BY DEF Effects
    <2>2. work[w].pc = "dead_letter" => sent = TRUE
      BY <1>0 DEF Announced
    <2> QED
      BY <1>0, <1>1, <2>1, <2>2 DEF Tells, Telling
  <1>2. ASSUME row' # Absent, row'.status = "dead_lettered" PROVE sent' = TRUE
    <2>1. row # Absent /\ row.status = "dead_lettered" => sent = TRUE
      BY <1>0 DEF Announced, DeadLetterIsAnnounced
    <2>2. CASE row' = row
      BY <1>0, <1>2, <2>1, <2>2
    <2>3. CASE RowMoves(row')
      <3>1. (\E v \in Slots : work[v].pc = "dead_letter") => sent = TRUE
        BY <1>0 DEF Announced
      <3> QED
        BY <1>0, <1>2, <2>1, <2>3, <3>1 DEF RowMoves, Refreshed, Open
    <2> QED
      BY <2>2, <2>3 DEF Effects, RowEffect
  <1> QED
    BY <1>0, <1>1, <1>2 DEF Announced, DeadLetterIsAnnounced

LEMMA SnapThere ==
    ASSUME NEW s \in Slot, Ready(s), s.pc \in {"put", "replace", "commit"}
    PROVE  s.snap \in Snaps /\ s.snap # Absent
  BY SlotFacts DEF Ready

\* Who is about to write the object or to commit has read the row.
LEMMA SlotHolds ==
    ASSUME Base, NEW w \in Slots, work[w].pc \in {"put", "replace", "commit"}
    PROVE  /\ work[w].snap \in Snaps /\ w \in Holding /\ row # Absent
           /\ Proposed(w) \in Objects /\ Proposed(w).status = "archived"
           /\ Src(Proposed(w)).attempts = work[w].snap.attempts
           /\ Src(Proposed(w)).history = work[w].snap.history
  <1>1. work[w] \in Slot /\ Ready(work[w]) /\ row # Absent
    BY DEF Base, Typed, Equipped, OnRow
  <1>2. work[w].snap \in Snaps
    BY <1>1, SnapThere
  <1> QED
    BY <1>1, <1>2, ProposedFacts DEF Base, Holding

\* The object an invocation replaces is the one it compared.
LEMMA ReplacingKept == ASSUME Base, Base', Effects, Replacing PROVE Replacing'
  <1> SUFFICES ASSUME NEW w \in Slots, work'[w].pc = "replace"
               PROVE  /\ Dominates(Proposed(w)', work'[w].etag)
                      /\ work'[w].etag.status = "archived" => ~Dominates(work'[w].etag, Proposed(w)')
    BY DEF Replacing
  <1>1. SlotEffect(w)
    BY DEF Effects
  <1>2. CASE work'[w] = work[w]
    <2>1. Proposed(w)' = Proposed(w)
      BY <1>2 DEF Proposed
    <2>2. /\ Dominates(Proposed(w), work[w].etag)
          /\ work[w].etag.status = "archived" => ~Dominates(work[w].etag, Proposed(w))
      BY <1>2 DEF Replacing
    <2> QED
      BY <1>2, <2>1, <2>2
  <1>3. CASE Compares(w)
    <2>1. Proposed(w)' = Proposed(w)
      BY <1>3 DEF Proposed, Compares, Keeps
    <2>2. compare_archive_objects(object, Proposed(w)) = "replace" /\ work'[w].etag = object
      BY <1>3 DEF Compares
    <2>3. object.status \in {"archived", "dead_lettered"}
      BY <1>3 DEF Base, Typed, Objects, Compares
    <2>4. Dominates(Proposed(w), object) /\ (object.status = "archived" => ~Dominates(object, Proposed(w)))
      BY <2>2, <2>3 DEF compare_archive_objects
    <2> QED
      BY <2>1, <2>2, <2>4
  <1> QED
    BY <1>1, <1>2, <1>3 DEF SlotEffect, Quits, Loads, Reads, Retries, Writes

\* So a replacement knows more than what it replaces.
LEMMA ObjectStep ==
    ASSUME Base, Effects, Replacing, object # Absent
    PROVE  object' = object \/ Dominates(object', object)
  <1>1. CASE object' = object
    BY <1>1
  <1>2. ASSUME NEW v \in Slots, object' = Proposed(v), work[v].pc = "replace", object = work[v].etag
        PROVE  Dominates(object', object)
    BY <1>2 DEF Replacing
  <1> QED
    BY <1>1, <1>2 DEF Effects, ObjectEffect

-----------------------------------------------------------------------------
\* Readings.

\* Readings can be compared.
LEMMA ReadingsTimed ==
    ASSUME Base, NEW x \in Readings
    PROVE  Timed(x)
  <1>1. ASSUME NEW w \in Holding, x = work[w].snap PROVE Timed(x)
    <2>1. w \in Slots /\ work[w].pc \in {"put", "replace", "commit"}
      BY DEF Holding
    <2> QED
      BY <1>1, <2>1, SlotHolds, SnapFacts
  <1>2. CASE object # Absent /\ x = Src(object)
    BY <1>2, KeptFacts, ObjectFacts
  <1> QED
    BY <1>1, <1>2 DEF Readings

\* A reading is one of before, or what the row is.
Known(x) ==
    \/ \E y \in Readings : x.attempts = y.attempts /\ x.history = y.history
    \/ row # Absent /\ x.attempts = row.attempts /\ x.history = row.history

\* A new reading is the row, or was a reading before.
LEMMA SnapsKnown ==
    ASSUME Base, Base', Effects, NEW w \in Slots, work'[w].pc \in {"put", "replace", "commit"}
    PROVE  Known(work'[w].snap)
  <1>1. SlotEffect(w)
    BY DEF Effects
  <1>2. CASE work'[w].snap = work[w].snap /\ work[w].pc \in {"put", "replace", "commit"}
    <2>1. work[w].snap \in Readings
      BY <1>2 DEF Readings, Holding
    <2> QED
      BY <1>2, <2>1 DEF Known
  <1>3. CASE Reads(w)
    <2>1. row # Absent
      BY <1>3, KeptFacts DEF Reads, OnRow
    <2> QED
      BY <1>3, <2>1 DEF Known, Reads
  <1>4. ~Quits(w) /\ ~Loads(w)
    BY DEF Quits, Loads
  <1> QED
    BY <1>1, <1>2, <1>3, <1>4 DEF SlotEffect, Retries, Compares, Writes, Keeps

LEMMA ObjectKnown ==
    ASSUME Base, Base', Effects, object' # Absent, object'.status = "archived"
    PROVE  Known(Src(object'))
  <1>1. CASE object' = object
    <2>1. Src(object) \in Readings
      BY <1>1 DEF Readings
    <2> QED
      BY <1>1, <2>1 DEF Known
  <1>2. ASSUME NEW v \in Slots, object' = Proposed(v), work[v].pc \in {"put", "replace"}
        PROVE  Known(Src(object'))
    <2>1. /\ Src(Proposed(v)).attempts = work[v].snap.attempts
          /\ Src(Proposed(v)).history = work[v].snap.history
          /\ v \in Holding
      BY <1>2, SlotHolds
    <2>2. work[v].snap \in Readings
      BY <2>1 DEF Readings
    <2> QED
      BY <1>2, <2>1, <2>2 DEF Known
  <1> QED
    BY <1>1, <1>2 DEF Effects, ObjectEffect

LEMMA ReadingsKnown ==
    ASSUME Base, Base', Effects, NEW x \in Readings'
    PROVE  Known(x)
  <1>1. ASSUME NEW w \in Holding', x = work'[w].snap PROVE Known(x)
    <2>1. w \in Slots /\ work'[w].pc \in {"put", "replace", "commit"}
      BY DEF Holding
    <2> QED
      BY <1>1, <2>1, SnapsKnown
  <1>2. CASE object' # Absent /\ object'.status = "archived" /\ x = Src(object')
    BY <1>2, ObjectKnown
  <1>3. x \in {work'[w].snap : w \in Holding'}
        \/ (object' # Absent /\ object'.status = "archived" /\ x = Src(object'))
    BY DEF Readings, Src, SourceHistory
  <1> QED
    BY <1>1, <1>2, <1>3

\* All that is known is behind the row,
LEMMA KnownIsBehind ==
    ASSUME Base, Effects, Base', Chain, NEW x, Known(x)
    PROVE  row # Absent /\ row' # Absent /\ Timed(x) /\ Le(x, row) /\ Le(x, row')
  <1>1. /\ row # Absent /\ Timed(x) /\ Le(x, row)
    <2>1. ASSUME NEW y \in Readings, x.attempts = y.attempts, x.history = y.history
          PROVE  row # Absent /\ Timed(x) /\ Le(x, row)
      <3>1. Timed(y)
        BY ReadingsTimed
      <3>2. row # Absent /\ Le(y, row)
        BY DEF Chain
      <3> QED
        BY <2>1, <3>1, <3>2 DEF Timed, Le
    <2>2. CASE row # Absent /\ x.attempts = row.attempts /\ x.history = row.history
      <3>1. Timed(row)
        BY <2>2, KeptFacts, TimedFacts
      <3>2. Le(row, row)
        BY <3>1, LeReflexive
      <3> QED
        BY <2>2, <3>1, <3>2 DEF Timed, Le
    <2> QED
      BY <2>1, <2>2 DEF Known
  <1>2. row' \in Rows \cup {Absent}
    BY DEF Base, Typed
  <1>3. row' # Absent /\ row' \in Rows /\ row \in Rows /\ Grows(row, row')
    BY <1>1, <1>2, RowGrows
  <1>4. Timed(row) /\ Timed(row')
    BY <1>3, TimedFacts
  <1> QED
    BY <1>1, <1>3, <1>4, LeTransitive DEF Grows

\* and of two readings one is behind the other,
LEMMA KnownComparable ==
    ASSUME Base, Effects, Base', Chain, NEW x, NEW y, Known(x), Known(y)
    PROVE  Le(x, y) \/ Le(y, x)
  <1>1. row # Absent /\ Le(x, row) /\ Le(y, row)
    BY KnownIsBehind
  <1>2. CASE x.attempts = row.attempts /\ x.history = row.history
    BY <1>1, <1>2 DEF Le
  <1>3. CASE y.attempts = row.attempts /\ y.history = row.history
    BY <1>1, <1>3 DEF Le
  <1>4. ASSUME NEW a \in Readings, NEW b \in Readings,
               x.attempts = a.attempts, x.history = a.history,
               y.attempts = b.attempts, y.history = b.history
        PROVE  Le(x, y) \/ Le(y, x)
    <2>1. Le(a, b) \/ Le(b, a)
      BY DEF Chain
    <2> QED
      BY <1>4, <2>1 DEF Le
  <1> QED
    BY <1>2, <1>3, <1>4 DEF Known

\* so the readings stay a chain,
LEMMA ChainKept == ASSUME Base, Base', Effects, Chain PROVE Chain'
  <1>1. ASSUME NEW x \in Readings' PROVE row' # Absent /\ Le(x, row')
    BY <1>1, ReadingsKnown, KnownIsBehind
  <1>2. ASSUME NEW x \in Readings', NEW y \in Readings' PROVE Le(x, y) \/ Le(y, x)
    BY <1>2, ReadingsKnown, KnownComparable
  <1> QED
    BY <1>1, <1>2 DEF Chain, Le, Pre

\* and no comparison of two of them ends in an error.
LEMMA ChainCompares == ASSUME Base, Chain PROVE NeverDivergent
  <1> SUFFICES ASSUME object # Absent, object.status = "archived",
                      NEW w \in DOMAIN work, work[w].pc \in {"put", "replace"}
               PROVE  compare_archive_objects(object, Proposed(w)) # "error"
    BY DEF NeverDivergent
  <1>1. w \in Slots
    BY DEF Base, Typed
  <1>2. /\ work[w].snap \in Snaps /\ w \in Holding /\ Proposed(w) \in Objects
        /\ Src(Proposed(w)).attempts = work[w].snap.attempts
        /\ Src(Proposed(w)).history = work[w].snap.history
    BY <1>1, SlotHolds
  <1>3. object \in Objects
    BY KeptFacts
  <1>4. work[w].snap \in Readings /\ Src(object) \in Readings
    BY <1>2 DEF Readings
  <1>5. Le(work[w].snap, Src(object)) \/ Le(Src(object), work[w].snap)
    BY <1>4 DEF Chain
  <1>6. Le(Src(Proposed(w)), Src(object)) \/ Le(Src(object), Src(Proposed(w)))
    BY <1>2, <1>5 DEF Le
  <1> QED
    BY <1>2, <1>3, <1>6, CompareFacts

\* A row with the history of a reading has kept its status: each status leaves an entry.
LEMMA SameStatusKept ==
    ASSUME Base, Base', Effects, Chain, SameStatus
    PROVE  SameStatus'
  <1> SUFFICES ASSUME NEW w \in Holding', work'[w].snap.history = row'.history
               PROVE  work'[w].snap.status = row'.status
    BY DEF SameStatus
  <1>1. w \in Slots /\ work'[w].pc \in {"put", "replace", "commit"}
    BY DEF Holding
  <1>2. SlotEffect(w)
    BY <1>1 DEF Effects
  <1>3. CASE work'[w].snap = work[w].snap /\ work[w].pc \in {"put", "replace", "commit"}
    <2>1. w \in Holding /\ work[w].snap \in Snaps /\ work[w].snap \in Readings
      BY <1>1, <1>3, SlotHolds DEF Readings
    <2>2. row # Absent /\ Le(work[w].snap, row)
      BY <2>1 DEF Chain
    <2>3. row' \in Rows \cup {Absent}
      BY DEF Base, Typed
    <2>4. row' \in Rows /\ row \in Rows /\ Grows(row, row')
      BY <2>2, <2>3, RowGrows
    <2>5. work[w].snap.history \in Histories /\ row.history \in Histories
      BY <2>1, <2>4, SnapFacts, RowFacts
    <2>6. Pre(work[w].snap.history, row.history) /\ Pre(row.history, work[w].snap.history)
      BY <1>3, <2>2, <2>4 DEF Le, Grows
    <2>7. work[w].snap.history = row.history
      BY <2>5, <2>6, PreAntisymmetric
    <2>8. row'.status = row.status
      BY <1>3, <2>4, <2>7 DEF Grows
    <2> QED
      BY <1>3, <2>1, <2>7, <2>8 DEF SameStatus
  <1>4. CASE Reads(w) /\ row' = row
    BY <1>4 DEF Reads
  <1>5. ~Quits(w) /\ ~Loads(w)
    BY <1>1 DEF Quits, Loads
  <1> QED
    BY <1>1, <1>2, <1>3, <1>4, <1>5 DEF SlotEffect, Retries, Compares, Writes, Keeps

-----------------------------------------------------------------------------
\* What a commit rests on.

\* The object of a commit is replaced only by one that knows more.
LEMMA CommittingKept ==
    ASSUME Base, Base', Effects, Chain, Replacing, Committing
    PROVE  Committing'
  <1> SUFFICES ASSUME NEW w \in Slots, work'[w].pc = "commit"
               PROVE  /\ object' # Absent /\ object'.status = "archived"
                      /\ work'[w].etag.status = "archived"
                      /\ Le(work'[w].snap, Src(work'[w].etag))
                      /\ Le(Src(work'[w].etag), Src(object'))
                      /\ Le(Src(object'), Src(work'[w].etag)) => object' = work'[w].etag
    BY DEF Committing, Le, Pre, Src, SourceHistory
  <1>1. SlotEffect(w)
    BY DEF Effects
  <1>2. object \in Objects \cup {Absent}
    BY KeptFacts
  <1>3. CASE work'[w] = work[w]
    <2> DEFINE e == work[w].etag
    <2>1. /\ object # Absent /\ object.status = "archived" /\ e.status = "archived"
          /\ Le(work[w].snap, Src(e)) /\ Le(Src(e), Src(object))
          /\ Le(Src(object), Src(e)) => object = e
      BY <1>3 DEF Committing
    <2>2. CASE object' = object
      BY <1>3, <2>1, <2>2
    <2>3. ASSUME NEW v \in Slots, object' = Proposed(v), work[v].pc = "replace", object = work[v].etag
          PROVE  /\ object' # Absent /\ object'.status = "archived"
                 /\ Le(Src(e), Src(object')) /\ ~Le(Src(object'), Src(e))
      <3>1. /\ Proposed(v) \in Objects /\ Proposed(v).status = "archived"
        BY <2>3, SlotHolds
      <3>2. /\ Dominates(Proposed(v), object) /\ ~Dominates(object, Proposed(v))
        BY <2>1, <2>3 DEF Replacing
      <3>3. Le(Src(object), Src(Proposed(v))) /\ ~Le(Src(Proposed(v)), Src(object))
        BY <1>2, <2>1, <3>1, <3>2, DominatesIsLe
      <3>4. e \in Objects
        <4>1. e \in Objects \cup {Absent} /\ Ready(work[w])
          BY KeptFacts, SlotFacts
        <4> QED
          BY <1>3, <4>1 DEF Ready
      <3>5. Timed(Src(object)) /\ Timed(Src(Proposed(v))) /\ Timed(Src(e))
        BY <1>2, <2>1, <3>1, <3>4, ObjectFacts
      <3>6. Le(Src(e), Src(Proposed(v)))
        BY <2>1, <3>3, <3>5, LeTransitive
      <3>7. ~Le(Src(Proposed(v)), Src(e))
        BY <2>1, <3>3, <3>5, LeTransitive
      <3> QED
        BY <2>3, <3>1, <3>6, <3>7, AbsentFacts
    <2> QED
      BY <1>3, <2>1, <2>2, <2>3 DEF Effects, ObjectEffect
  <1>4. CASE Compares(w)
    <2>1. /\ work[w].snap \in Snaps /\ Proposed(w) \in Objects
          /\ Src(Proposed(w)).attempts = work[w].snap.attempts
          /\ Src(Proposed(w)).history = work[w].snap.history
      BY <1>4, SlotHolds DEF Compares
    <2>2. compare_archive_objects(object, Proposed(w)) = "keep"
          /\ object # Absent /\ object' = object /\ work'[w].etag = object
          /\ work'[w].snap = work[w].snap
      BY <1>4 DEF Compares, Keeps
    <2>3. object.status = "archived" /\ Le(Src(Proposed(w)), Src(object))
      BY <1>2, <2>1, <2>2, CompareFacts
    <2>4. Le(work[w].snap, Src(object))
      BY <2>1, <2>3 DEF Le
    <2>5. Le(Src(object), Src(object))
      BY <1>2, <2>2, ObjectFacts, LeReflexive
    <2> QED
      BY <2>2, <2>3, <2>4, <2>5
  <1>5. CASE Writes(w)
    <2>1. /\ work[w].snap \in Snaps /\ Proposed(w) \in Objects /\ Proposed(w).status = "archived"
          /\ Src(Proposed(w)).attempts = work[w].snap.attempts
          /\ Src(Proposed(w)).history = work[w].snap.history
      BY <1>5, SlotHolds DEF Writes
    <2>2. object' = Proposed(w) /\ work'[w].etag = Proposed(w) /\ work'[w].snap = work[w].snap
      BY <1>5 DEF Writes, Keeps
    <2>3. Timed(Src(Proposed(w)))
      BY <2>1, ObjectFacts
    <2>4. Le(Src(Proposed(w)), Src(Proposed(w)))
      BY <2>3, LeReflexive
    <2>5. Le(work[w].snap, Src(Proposed(w)))
      BY <2>1, <2>4 DEF Le
    <2> QED
      BY <2>1, <2>2, <2>4, <2>5, AbsentFacts
  <1> QED
    BY <1>1, <1>3, <1>4, <1>5 DEF SlotEffect, Quits, Loads, Reads, Retries

-----------------------------------------------------------------------------
\* Which invocations there are.

\* The slot of an invocation that begins or ends, the stream and the notification.
Turned(w) ==
    \/ /\ stream.st = "ready" /\ stream'.st = "busy" /\ note' = note
       /\ work'[w].task = "stream"
    \/ /\ note.st = "ready" /\ note'.st = "busy" /\ stream' = stream
       /\ work'[w].task = "note"
    \/ /\ stream' = stream /\ note' = note
       /\ work'[w].task \in {"none", "ingress"} \/ (work'[w].task = "sweep" /\ idx \notin Open)
    \/ /\ work[w].task = "stream" /\ work'[w].task = "none"
       /\ \/ stream'.st \in {"done", "ready"} /\ note' = note
          \/ stream'.st = "failed" /\ note'.st = "ready"
    \/ /\ work[w].task = "note" /\ work'[w].task = "none"
       /\ stream' = stream /\ note'.st \in {"done", "ready", "dead"}

\* A step of an invocation leaves the others alone.
LEMMA SlotSet ==
    ASSUME Base, NEW w \in Slots, NEW s, Goto(w, s)
    PROVE  work'[w] = s /\ \A v \in Slots : v # w => work'[v] = work[v]
  <1>1. work \in [Slots -> Slot]
    BY DEF Base, Typed
  <1> QED
    BY <1>1 DEF Goto

LEMMA Serves ==
    ASSUME Base, NEW w \in Slots, NEW task, NEW pc, Serve(w, task, pc)
    PROVE  /\ work'[w].task = task /\ work'[w].pc = pc /\ work'[w].mode = "none"
           /\ \A v \in Slots : v # w => work'[v] = work[v]
  <1>1. PICK s : s = [IdleSlot EXCEPT !.pc = pc, !.task = task]
    OBVIOUS
  <1>2. Goto(w, s)
    BY <1>1 DEF Serve
  <1>3. s.task = task /\ s.pc = pc /\ s.mode = "none"
    <2>1. s = Began(pc, task, Absent)
      BY <1>1, BeganIs, Zenon
    <2> QED
      BY <2>1 DEF Began
  <1> QED
    BY <1>2, <1>3, SlotSet

LEMMA EndTurns ==
    ASSUME Base, NEW w \in Slots, NEW ok \in BOOLEAN, End(w, ok)
    PROVE  Turned(w) /\ \A v \in Slots : v # w => work'[v] = work[v]
  <1>1. Goto(w, IdleSlot)
    BY DEF End
  <1>2. work'[w] = IdleSlot /\ \A v \in Slots : v # w => work'[v] = work[v]
    BY <1>1, SlotSet
  <1>3. work'[w].task = "none"
    BY <1>2 DEF IdleSlot
  <1>4. /\ stream \in [st : {"none", "ready", "busy", "done", "failed"}, left : Nat]
        /\ note \in [st : {"none", "ready", "busy", "done", "dead"}, left : Nat]
    BY KeptFacts
  <1>5. CASE work[w].task = "stream" /\ AckStream(ok)
    <2>1. \/ stream'.st \in {"done", "ready"} /\ note' = note
          \/ stream'.st = "failed" /\ note'.st = "ready"
      <3>1. CASE ok
        BY <1>4, <1>5, <3>1 DEF AckStream
      <3>2. CASE ~ok /\ stream.left > 1
        <4>1. stream' = [st |-> "ready", left |-> stream.left - 1] /\ note' = note
          BY <1>5, <3>2 DEF AckStream
        <4> QED
          BY <4>1
      <3>3. CASE ~ok /\ ~(stream.left > 1)
        <4>1. stream' = [st |-> "failed", left |-> 0] /\ note' = [note EXCEPT !.st = "ready"]
          BY <1>5, <3>3 DEF AckStream
        <4> QED
          BY <1>4, <4>1
      <3> QED
        BY <3>1, <3>2, <3>3
    <2> QED
      BY <1>2, <1>3, <1>5, <2>1 DEF Turned
  <1>6. CASE work[w].task = "note" /\ AckNote(ok) /\ stream' = stream
    <2>1. note'.st \in {"done", "ready", "dead"}
      <3>1. CASE ok
        BY <1>4, <1>6, <3>1 DEF AckNote
      <3>2. CASE ~ok /\ note.left > 1
        <4>1. note' = [st |-> "ready", left |-> note.left - 1]
          BY <1>6, <3>2 DEF AckNote
        <4> QED
          BY <4>1
      <3>3. CASE ~ok /\ ~(note.left > 1)
        <4>1. note' = [st |-> "dead", left |-> 0]
          BY <1>6, <3>3 DEF AckNote
        <4> QED
          BY <4>1
      <3> QED
        BY <3>1, <3>2, <3>3
    <2> QED
      BY <1>2, <1>3, <1>6, <2>1 DEF Turned
  <1>7. CASE UNCHANGED <<stream, note>>
    BY <1>2, <1>3, <1>7 DEF Turned
  <1> QED
    BY <1>5, <1>6, <1>7 DEF End

LEMMA BeginTurns ==
    ASSUME Base, NEW w \in Slots, Begin(w)
    PROVE  Turned(w) /\ \A v \in Slots : v # w => work'[v] = work[v]
  <1>0. /\ stream \in [st : {"none", "ready", "busy", "done", "failed"}, left : Nat]
        /\ note \in [st : {"none", "ready", "busy", "done", "dead"}, left : Nat]
    BY KeptFacts
  <1>1. CASE BeginStream(w)
    <2>1. /\ stream.st = "ready" /\ stream' = [stream EXCEPT !.st = "busy"] /\ note' = note
          /\ Serve(w, "stream", "check")
      BY <1>1 DEF BeginStream
    <2> QED
      BY <1>0, <2>1, Serves DEF Turned
  <1>2. CASE BeginNote(w)
    <2>1. /\ note.st = "ready" /\ note' = [note EXCEPT !.st = "busy"] /\ stream' = stream
          /\ Serve(w, "note", "give_up")
      BY <1>2 DEF BeginNote
    <2> QED
      BY <1>0, <2>1, Serves DEF Turned
  <1>3. CASE BeginSweep(w)
    <2>1. PICK pc \in {"check", "redrive", "claim"} :
            /\ Serve(w, "sweep", pc)
            /\ idx \in {"dead_letter_pending", "dead_lettered", "archive_refresh_pending"}
      BY <1>3 DEF BeginSweep
    <2>2. UNCHANGED <<stream, note>> /\ idx \notin Open
      BY <1>3, <2>1 DEF BeginSweep, Open
    <2> QED
      BY <2>1, <2>2, Serves DEF Turned
  <1>4. CASE BeginIngress(w)
    <2>0. /\ \E m \in queue :
                /\ queue' = (queue \ {m}) \cup {[m EXCEPT !.receives = @ + 1]}
                /\ Goto(w, [IdleSlot EXCEPT !.pc = "store", !.task = "ingress",
                                            !.msg = [m EXCEPT !.receives = @ + 1]])
          /\ UNCHANGED <<prod, late, log, row, idx, stream, note, object, sent, retained,
                         faults, crashes>>
      BY <1>4, ZenonT(60) DEF BeginIngress
    <2>4. PICK m \in queue :
            Goto(w, [IdleSlot EXCEPT !.pc = "store", !.task = "ingress",
                                     !.msg = [m EXCEPT !.receives = @ + 1]])
      BY <2>0, Zenon
    <2>3. PICK r : r = [m EXCEPT !.receives = @ + 1]
      OBVIOUS
    <2>1. PICK s : /\ s = [IdleSlot EXCEPT !.pc = "store", !.task = "ingress", !.msg = r]
                   /\ Goto(w, s) /\ UNCHANGED <<stream, note>>
      BY <2>0, <2>3, <2>4
    <2>2. s.task = "ingress"
      <3>1. s = Began("store", "ingress", r)
        BY <2>1, BeganWith, Zenon
      <3> QED
        BY <3>1 DEF Began
    <2> QED
      BY <2>1, <2>2, SlotSet DEF Turned
  <1> QED
    BY <1>1, <1>2, <1>3, <1>4 DEF Begin

LEMMA TurnTurns ==
    ASSUME Base, NEW w \in Slots, Turn(w)
    PROVE  Turned(w) /\ \A v \in Slots : v # w => work'[v] = work[v]
  BY BeginTurns, EndTurns DEF Turn

\* One invocation serves the stream and its notification.
LEMMA OneTaskKept == ASSUME Base, Base', Effects, OneTask PROVE OneTask'
  <1>0. /\ stream \in [st : {"none", "ready", "busy", "done", "failed"}, left : Nat]
        /\ stream.st # "none" => row # Absent
        /\ note.st # "none" => row # Absent
        /\ \A w \in Slots : work[w].task \in {"stream", "note"} => row # Absent
    BY KeptFacts
  <1>1. CASE note' = note /\ StreamEffect /\ \A v \in Slots : work'[v].task = work[v].task
    <2>1. CASE stream' = stream
      BY <1>1, <2>1 DEF OneTask
    <2>2. CASE row = Absent /\ stream' = [stream EXCEPT !.st = "ready"]
      <3>1. note.st = "none" /\ stream'.st = "ready"
            /\ \A w \in Slots : work[w].task \notin {"stream", "note"}
        BY <1>0, <2>2
      <3> QED
        BY <1>1, <3>1 DEF OneTask
    <2> QED
      BY <1>1, <2>1, <2>2 DEF StreamEffect
  <1>2. ASSUME NEW w \in Slots, Turn(w) PROVE OneTask'
    <2>1. Turned(w) /\ \A v \in Slots : v # w => work'[v] = work[v]
      BY <1>2, TurnTurns
    <2>2. /\ \A v \in Slots : work[v].task = "stream" => stream.st = "busy"
          /\ \A v \in Slots : work[v].task = "note" => note.st = "busy"
          /\ stream.st \in {"none", "ready", "busy"} => note.st = "none"
          /\ \A v, u \in Slots :
               work[v].task = work[u].task /\ work[v].task \in {"stream", "note"} => v = u
      BY DEF OneTask
    <2>3. \A v \in Slots : work'[v].task = "stream" => stream'.st = "busy"
      BY <2>1, <2>2 DEF Turned
    <2>4. \A v \in Slots : work'[v].task = "note" => note'.st = "busy"
      BY <2>1, <2>2 DEF Turned
    <2>5. stream'.st \in {"none", "ready", "busy"} => note'.st = "none"
      BY <2>1, <2>2 DEF Turned
    <2>6. \A v, u \in Slots :
             work'[v].task = work'[u].task /\ work'[v].task \in {"stream", "note"} => v = u
      <3>1. \A v \in Slots : v # w /\ work'[v].task \in {"stream", "note"}
                               => work'[w].task # work'[v].task
        BY <2>1, <2>2 DEF Turned
      <3> QED
        BY <2>1, <2>2, <3>1
    <2> QED
      BY <2>3, <2>4, <2>5, <2>6 DEF OneTask
  <1> QED
    BY <1>1, <1>2 DEF Effects, TaskEffect

\* A delivery that was given up or made is not opened again.
LEMMA ClosedStays ==
    ASSUME Base, Base', Effects, row # Absent, row.status \notin Open
    PROVE  row' # Absent /\ row'.status \notin Open
  <1>1. row' # Absent
    <2>1. row' \in Rows \cup {Absent}
      BY DEF Base, Typed
    <2> QED
      BY <2>1, RowGrows
  <1>2. CASE row' = row
    BY <1>1, <1>2
  <1>3. CASE RowMoves(row')
    BY <1>1, <1>3 DEF RowMoves, Refreshed, Open
  <1> QED
    BY <1>2, <1>3, <1>1 DEF Effects, RowEffect

\* The sweep meets no open delivery.
LEMMA ClosedKept == ASSUME Base, Base', Effects, Closed PROVE Closed'
  <1>1. idx \notin Open => row # Absent
    BY KeptFacts DEF Open
  <1>2. idx' \notin Open => row'.status \notin Open
    BY <1>1, ClosedStays DEF Effects, IdxEffect, Closed
  <1>3. ASSUME NEW v \in Slots, work'[v].task = "sweep" PROVE row' # Absent /\ row'.status \notin Open
    <2>1. work[v].task = "sweep" \/ idx \notin Open
      BY <1>3, TurnTurns DEF Effects, TaskEffect, Turned
    <2> QED
      BY <1>1, <2>1, ClosedStays DEF Closed
  <1> QED
    BY <1>2, <1>3 DEF Closed

-----------------------------------------------------------------------------
\* What the modes read, and the row and the object once the row is archived.

\* So one invocation at a time works on an open delivery.
LEMMA OneDelivers ==
    ASSUME Base, OneDriver, row.status \in Open, NEW v \in Slots, NEW w \in Slots,
           work[v].task \in {"stream", "note", "sweep"}, work[w].task \in {"stream", "note", "sweep"}
    PROVE  v = w
  <1>1. work[v].task \in {"stream", "note"} /\ work[w].task \in {"stream", "note"}
    BY DEF OneDriver, Closed
  <1>2. work[v].task = work[w].task
    BY <1>1 DEF OneDriver, OneTask
  <1> QED
    BY <1>1, <1>2 DEF OneDriver, OneTask

\* What a mode loaded tells it apart.
LEMMA ModeReads ==
    ASSUME Base, Loading, NEW v \in Slots, work[v].pc \in {"put", "replace", "commit"}
    PROVE  /\ work[v].snap.status \in Open \cup {"dead_lettered", "archive_refresh_pending"}
           /\ work[v].snap.status \in Open => work[v].mode = "deliver"
           /\ work[v].snap.status = "dead_lettered" => work[v].mode = "redrive"
  <1>1. work[v].mode \in {"deliver", "redrive", "refresh"}
    BY KeptFacts DEF Ready
  <1> QED
    BY <1>1 DEF Loading, Open

\* Nobody else archives an open delivery that is being loaded.
LEMMA OpenStays ==
    ASSUME Base, Base', Effects, OneDriver, Loading, row # Absent, row.status \in Open,
           NEW w \in Slots, work[w].pc = "load", work[w].mode = "deliver"
    PROVE  row'.status \in Open
  <1>1. work[w].task \in {"stream", "note", "sweep"}
    BY KeptFacts DEF Ready
  <1>2. ASSUME NEW v \in Slots, work[v].pc = "give_up" PROVE FALSE
    <2>1. work[v].task \in {"stream", "note", "sweep"}
      BY <1>2, KeptFacts DEF Ready
    <2> QED
      BY <1>1, <1>2, <2>1, OneDelivers
  <1>3. ASSUME NEW v \in Slots, work[v].pc = "commit", row.status = work[v].snap.status PROVE FALSE
    <2>1. work[v].mode = "deliver"
      BY <1>3, ModeReads
    <2>2. work[v].task \in {"stream", "note", "sweep"}
      BY <2>1, KeptFacts DEF Ready
    <2> QED
      BY <1>1, <1>3, <2>2, OneDelivers
  <1>4. CASE row' = row
    BY <1>4
  <1>5. CASE RowMoves(row')
    BY <1>2, <1>3, <1>5 DEF RowMoves, Refreshed, Open
  <1> QED
    BY <1>4, <1>5 DEF Effects, RowEffect

\* And nobody a given up one, if nobody else redrives it.
LEMMA DeadLetterStays ==
    ASSUME Base, Base', Effects, OneRedrive, Loading, row # Absent, row.status = "dead_lettered",
           NEW w \in Slots, work[w].pc = "load", work[w].mode = "redrive"
    PROVE  row'.status = "dead_lettered"
  <1>1. ASSUME NEW v \in Slots, work[v].pc = "commit", row.status = work[v].snap.status PROVE FALSE
    <2>1. work[v].mode = "redrive"
      BY <1>1, ModeReads
    <2> QED
      BY <1>1, <2>1 DEF OneRedrive
  <1>2. CASE row' = row
    BY <1>2
  <1>3. CASE RowMoves(row')
    BY <1>1, <1>3 DEF RowMoves, Refreshed, Open
  <1> QED
    BY <1>2, <1>3 DEF Effects, RowEffect

\* What a delivery and a redrive load is not archived yet.
LEMMA LoadingKept ==
    ASSUME Base, Base', Effects, OneDriver, OneRedrive, Loading
    PROVE  Loading'
  <1> SUFFICES ASSUME NEW w \in Slots
        PROVE /\ work'[w].pc = "load" /\ work'[w].mode = "deliver" => row'.status \in Open
              /\ work'[w].pc = "load" /\ work'[w].mode = "redrive" => row'.status = "dead_lettered"
              /\ work'[w].pc \in {"put", "replace", "commit"} =>
                  /\ work'[w].mode = "deliver" => work'[w].snap.status \in Open
                  /\ work'[w].mode = "redrive" => work'[w].snap.status = "dead_lettered"
                  /\ work'[w].mode = "refresh" => work'[w].snap.status = "archive_refresh_pending"
    BY DEF Loading
  <1>1. SlotEffect(w)
    BY DEF Effects
  <1>2. work[w].pc = "load" => row # Absent
    BY KeptFacts DEF OnRow
  <1>3. /\ work[w].pc = "load" /\ work[w].mode = "deliver" => row.status \in Open
        /\ work[w].pc = "load" /\ work[w].mode = "redrive" => row.status = "dead_lettered"
        /\ work[w].pc \in {"put", "replace", "commit"} =>
             /\ work[w].mode = "deliver" => work[w].snap.status \in Open
             /\ work[w].mode = "redrive" => work[w].snap.status = "dead_lettered"
             /\ work[w].mode = "refresh" => work[w].snap.status = "archive_refresh_pending"
    BY DEF Loading
  <1>4. CASE work'[w] = work[w]
    BY <1>2, <1>3, <1>4, OpenStays, DeadLetterStays
  <1>5. CASE Quits(w)
    BY <1>5 DEF Quits
  <1>6. CASE Loads(w)
    BY <1>6 DEF Loads
  <1>7. CASE Reads(w)
    BY <1>3, <1>7 DEF Reads
  <1>8. CASE Retries(w) \/ Compares(w) \/ Writes(w)
    BY <1>3, <1>8 DEF Retries, Compares, Writes, Keeps
  <1> QED
    BY <1>1, <1>4, <1>5, <1>6, <1>7, <1>8 DEF SlotEffect

\* No invocation replaces the object of an archived row.
LEMMA ArchivedHolds ==
    ASSUME Base, Chain, Replacing, SameStatus, Loading, ArchivedIsExact,
           row # Absent, row.status = "archived",
           NEW v \in Slots, work[v].pc = "replace", object = work[v].etag
    PROVE  FALSE
  <1>1. /\ object # Absent /\ object.status = "archived"
        /\ object.attempts = row.attempts /\ object.history = row.history
    BY DEF ArchivedIsExact
  <1>2. /\ work[v].snap \in Snaps /\ v \in Holding
        /\ Proposed(v) \in Objects /\ Proposed(v).status = "archived"
        /\ Src(Proposed(v)).attempts = work[v].snap.attempts
        /\ Src(Proposed(v)).history = work[v].snap.history
    BY SlotHolds
  <1>3. object \in Objects /\ row \in Rows
    BY <1>1, KeptFacts
  <1>4. PICK o : o = Src(object)
    OBVIOUS
  <1>5. /\ o.attempts = row.attempts /\ Timed(o)
        /\ row.history # <<>> /\ o.history = Front(row.history)
    BY <1>1, <1>3, <1>4, ObjectFacts DEF Src, SourceHistory
  <1>6. Le(o, Src(Proposed(v))) /\ ~Le(Src(Proposed(v)), o)
    <2>1. Dominates(Proposed(v), object) /\ ~Dominates(object, Proposed(v))
      BY <1>1 DEF Replacing
    <2> QED
      BY <1>2, <1>3, <1>4, <2>1, DominatesIsLe
  <1>7. PICK s : s = work[v].snap
    OBVIOUS
  <1>8. Le(o, s) /\ ~Le(s, o)
    BY <1>2, <1>6, <1>7 DEF Le
  <1>9. Le(s, row)
    <2>1. s \in Readings
      BY <1>2, <1>7 DEF Readings
    <2> QED
      BY <2>1 DEF Chain
  <1>10. /\ s.attempts \in Nat /\ s.history \in Histories /\ s.status # "archived"
    BY <1>2, <1>7, SnapFacts, ModeReads DEF Open
  <1>11. s.attempts = row.attempts
    BY <1>3, <1>5, <1>8, <1>9, <1>10, RowFacts DEF Le
  <1>12. row.history \in Histories /\ o.history \in Histories /\ Len(o.history) = Len(row.history) - 1
         /\ Pre(o.history, row.history)
    BY <1>3, <1>5, RowFacts, FrontFacts
  <1>13. Pre(o.history, s.history) /\ Pre(s.history, row.history)
    BY <1>8, <1>9 DEF Le
  <1>14. Len(o.history) \in Nat /\ Len(s.history) \in Nat /\ Len(row.history) \in Nat
    BY <1>10, <1>12, HistoryFacts
  <1>15. CASE Len(s.history) = Len(row.history)
    <2>1. s.history = row.history
      BY <1>10, <1>12, <1>13, <1>15, SameEntries DEF Pre
    <2> QED
      BY <1>2, <1>7, <1>10, <2>1 DEF SameStatus
  <1>16. CASE Len(s.history) = Len(o.history)
    <2>1. o.history = s.history
      BY <1>10, <1>12, <1>13, <1>16, SameEntries DEF Pre
    <2>2. Le(s, o)
      BY <1>5, <1>8, <1>10, <1>11, <1>12, <2>1, PreReflexive DEF Le
    <2> QED
      BY <1>8, <2>2
  <1> QED
    BY <1>12, <1>13, <1>14, <1>15, <1>16 DEF Pre

\* A commit that is not refused finds the object it compared, or one that says the same.
LEMMA CommitIsExact ==
    ASSUME Base, Chain, Committing, row # Absent,
           NEW v \in Slots, work[v].pc = "commit", row.attempts = work[v].snap.attempts,
           row.history = work[v].snap.history
    PROVE  /\ object # Absent /\ object.status = "archived" /\ object.attempts = row.attempts
           /\ object.history = Append(row.history, Last(work[v].etag.history))
  <1>1. /\ object # Absent /\ object.status = "archived"
        /\ Le(work[v].snap, Src(work[v].etag))
        /\ Le(Src(work[v].etag), Src(object))
        /\ Le(Src(object), Src(work[v].etag)) => object = work[v].etag
    BY DEF Committing
  <1>2. object \in Objects /\ row \in Rows /\ work[v].etag \in Objects
    <2>1. work[v] \in Slot /\ Ready(work[v])
      BY KeptFacts
    <2>2. work[v].etag \in Objects
      BY <2>1, SlotFacts DEF Ready
    <2> QED
      BY <1>1, <2>2, KeptFacts
  <1>3. PICK o, e : o = Src(object) /\ e = Src(work[v].etag)
    OBVIOUS
  <1>4. Timed(o) /\ Timed(e) /\ Timed(row) /\ o.attempts = object.attempts
        /\ object.history = Append(o.history, Last(object.history))
    BY <1>1, <1>2, <1>3, ObjectFacts, TimedFacts
  <1>5. Le(o, row)
    <2>1. o \in Readings
      BY <1>1, <1>3 DEF Readings
    <2> QED
      BY <2>1 DEF Chain
  <1>6. Le(row, e) /\ Le(e, o)
    BY <1>1, <1>3 DEF Le
  <1>7. Le(o, e) /\ Le(row, o)
    BY <1>4, <1>5, <1>6, LeTransitive
  <1>8. o.attempts = row.attempts /\ o.history = row.history
    BY <1>4, <1>5, <1>7, LeAntisymmetric
  <1>9. object = work[v].etag
    BY <1>1, <1>3, <1>7
  <1> QED
    BY <1>1, <1>4, <1>8, <1>9

\* So the row that becomes archived and the object are one.
LEMMA ExactKept ==
    ASSUME Base, Base', Effects, Chain, Replacing, SameStatus, Committing, Loading, ArchivedIsExact
    PROVE  ArchivedIsExact'
  <1> SUFFICES ASSUME row' # Absent, row'.status = "archived"
               PROVE  /\ object' # Absent /\ object'.status = "archived"
                      /\ object'.attempts = row'.attempts /\ object'.history = row'.history
    BY DEF ArchivedIsExact
  <1>1. CASE row' = row
    <2>1. /\ object # Absent /\ object.status = "archived"
          /\ object.attempts = row.attempts /\ object.history = row.history
      BY <1>1 DEF ArchivedIsExact
    <2>2. object' = object
      BY <1>1, <2>1, ArchivedHolds DEF Effects, ObjectEffect
    <2> QED
      BY <1>1, <2>1, <2>2
  <1>2. CASE RowMoves(row') /\ object' = object
    <2>1. CASE row # Absent /\ row.status = "archived" /\ row'.attempts = row.attempts
               /\ row'.history = row.history
      BY <1>2, <2>1 DEF ArchivedIsExact
    <2>2. ASSUME NEW v \in Slots, row # Absent, work[v].pc = "commit",
                 row.attempts = work[v].snap.attempts, row.history = work[v].snap.history,
                 row'.attempts = row.attempts,
                 row'.history = Append(row.history, Last(work[v].etag.history))
          PROVE  /\ object' # Absent /\ object'.status = "archived"
                 /\ object'.attempts = row'.attempts /\ object'.history = row'.history
      BY <1>2, <2>2, CommitIsExact
    <2> QED
      BY <1>2, <2>1, <2>2 DEF RowMoves, Refreshed, Open
  <1> QED
    BY <1>1, <1>2 DEF Effects, RowEffect

-----------------------------------------------------------------------------
\* The event is kept.

\* What is told of it, is told after it was put in quarantine.
LEMMA ToldKept ==
    ASSUME Base, Base', Effects, Kept, NEW w \in Slots, work'[w].pc \in {"terminal", "announce"}
    PROVE  retained' # {}
  <1>1. retained \subseteq retained' /\ Tells(w)
    BY DEF Effects
  <1>2. work[w].pc \in {"terminal", "announce"} => retained # {}
    BY DEF Kept
  <1> QED
    BY <1>1, <1>2 DEF Tells, Telling

\* Without a row there is nothing but the copies.
LEMMA NothingOnRow ==
    ASSUME Base, row = Absent
    PROVE  /\ \A w \in Slots : work[w].pc \notin OnRow
           /\ stream.st = "none" /\ note.st = "none" /\ idx = "pending"
  BY KeptFacts

\* While there is no row, the steps that can be made.
LEMMA WithoutRow ==
    ASSUME Base, NextEvent, row = Absent, row' = Absent
    PROVE  \/ WriteRow \/ Enqueue \/ ProducerDies \/ Replay
           \/ \E w \in Slots : \/ BeginIngress(w) \/ Store(w) \/ PersistIngressFailure(w)
                               \/ ArchiveTerminalIngress(w) \/ AnnounceIngressFailure(w)
                               \/ Return(w) \/ Crash(w)
  <1>1. /\ \A w \in Slots : work[w].pc \notin OnRow
        /\ stream.st = "none" /\ note.st = "none" /\ idx = "pending"
    BY NothingOnRow
  <1>2. ~LateWrite
    <2>1. SUFFICES ASSUME LateWrite PROVE FALSE
      OBVIOUS
    <2>2. PICK d \in late : row' = NewRow(d)
      BY <2>1 DEF LateWrite
    <2>3. d \in Deliveries
      BY KeptFacts
    <2> QED
      BY <2>2, <2>3, NewRowFacts, RowFacts
  <1>3. ~LeaseRunsOut /\ ~IndexCatchesUp
    BY DEF LeaseRunsOut, IndexCatchesUp
  <1>4. ASSUME NEW w \in Slots PROVE ~BeginStream(w) /\ ~BeginNote(w) /\ ~BeginSweep(w)
    BY <1>1 DEF BeginStream, BeginNote, BeginSweep
  <1>5. ASSUME NEW w \in Slots
        PROVE  /\ ~CheckOutbox(w) /\ ~MarkAttempt(w) /\ ~LoadDelivery(w) /\ ~PutObject(w)
               /\ ~ReplaceObject(w) /\ ~MarkArchived(w) /\ ~MarkFailed(w)
    BY <1>1 DEF CheckOutbox, MarkAttempt, LoadDelivery, PutObject, ReplaceObject, MarkArchived,
                MarkFailed, OnRow
  <1>6. ASSUME NEW w \in Slots
        PROVE  /\ ~MarkDeadLetterPending(w) /\ ~SendDeadLetter(w) /\ ~MarkDeadLettered(w)
               /\ ~MarkRedriveAttempt(w) /\ ~MarkRedriveFailed(w) /\ ~ClaimRefresh(w)
    BY <1>1 DEF MarkDeadLetterPending, SendDeadLetter, MarkDeadLettered, MarkRedriveAttempt,
                MarkRedriveFailed, ClaimRefresh, OnRow
  <1> QED
    BY <1>2, <1>3, <1>4, <1>5, <1>6 DEF NextEvent, Producer, Begin, ArchiveStep

\* A record that was served is in quarantine, or there is a row.
Served == \A w \in Slots : work[w].task = "ingress" /\ work[w].pc = "done" => row # Absent \/ retained # {}

Somewhere == prod.phase = "done" => queue # {} \/ log # Absent \/ retained # {}

LEMMA StoredIsRow ==
    ASSUME Base, NEW d \in Deliveries, row = Absent
    PROVE  Stored(row, d) # Absent
  BY NewRowFacts, RowFacts DEF Stored

\* The producer has put the record somewhere when it returns.
LEMMA ProducedKept ==
    ASSUME Base, Kept, row = Absent, row' = Absent,
           WriteRow \/ Enqueue \/ ProducerDies \/ Replay
    PROVE  work' = work /\ retained' = retained /\ Somewhere'
  <1>0. work' = work /\ retained' = retained
    BY DEF WriteRow, Enqueue, ProducerDies, Replay
  <1>1. prod \in [phase : {"hot", "enqueue", "done", "dead"}, n : Nat, d : Deliveries, twice : BOOLEAN]
    BY DEF Base, Typed
  <1>2. PICK d : d = StartAttempt(prod.d, prod.n > 1)
    OBVIOUS
  <1>3. d \in Deliveries /\ Failed(d) \in Deliveries
    <2>0. (prod.n > 1) \in BOOLEAN
      OBVIOUS
    <2>1. d \in Deliveries
      BY <1>1, <1>2, <2>0, StartFacts
    <2> QED
      BY <2>1, FailedFacts
  <1>4. CASE WriteRow
    <2>1. row' # Stored(row, d)
      BY <1>3, StoredIsRow
    <2>2. prod.phase = "hot" /\ ProducerFails(d)
      BY <1>2, <1>4, <2>1 DEF WriteRow
    <2>3. prod'.phase \in {"hot", "enqueue"}
      BY <1>1, <2>2 DEF ProducerFails
    <2> QED
      BY <1>0, <2>3 DEF Somewhere
  <1>5. CASE Enqueue
    <2>1. PICK c : c = Copy(prod.n, d)
      OBVIOUS
    <2>2. prod.phase = "enqueue"
      BY <1>5 DEF Enqueue
    <2>3. \/ queue' = queue \cup {c}
          \/ \E arrived \in {FALSE, AmbiguousEnqueue} :
                \/ prod' = [prod EXCEPT !.n = @ + 1, !.d = Failed(d), !.twice = @ \/ arrived]
                \/ log' = Failed(d)
      BY <1>2, <1>5, <2>1 DEF Enqueue
    <2>4. CASE queue' = queue \cup {c}
      BY <1>0, <2>4 DEF Somewhere
    <2>5. CASE log' = Failed(d)
      BY <1>0, <1>3, <2>5, AbsentFacts DEF Somewhere
    <2>6. ASSUME NEW arrived \in {FALSE, AmbiguousEnqueue},
                 prod' = [prod EXCEPT !.n = @ + 1, !.d = Failed(d), !.twice = @ \/ arrived]
          PROVE  Somewhere'
      <3>1. prod'.phase = "enqueue"
        BY <1>1, <2>2, <2>6
      <3> QED
        BY <3>1 DEF Somewhere
    <2> QED
      BY <1>0, <2>3, <2>4, <2>5, <2>6
  <1>6. CASE ProducerDies
    <2>1. prod'.phase = "dead"
      BY <1>1, <1>6 DEF ProducerDies
    <2> QED
      BY <1>0, <2>1 DEF Somewhere
  <1>7. CASE Replay
    <2>1. queue' # {}
      BY <1>7 DEF Replay
    <2> QED
      BY <1>0, <2>1 DEF Somewhere
  <1> QED
    BY <1>4, <1>5, <1>6, <1>7

\* An invocation takes from the queue what is in the row or in quarantine.
LEMMA EndKeeps ==
    ASSUME Base, Kept, row = Absent, NEW w \in Slots, NEW ok \in BOOLEAN, End(w, ok),
           ok => work[w].pc = "done", UNCHANGED <<prod, log, retained>>, row' = Absent
    PROVE  Served' /\ Somewhere'
  <1>1. Goto(w, IdleSlot)
    BY DEF End
  <1>2. work'[w].pc = "idle" /\ \A v \in Slots : v # w => work'[v] = work[v]
    BY <1>1, SlotSet DEF IdleSlot
  <1>3. \A v \in Slots : work[v].task = "ingress" /\ work[v].pc = "done" => retained # {}
    BY DEF Kept
  <1>4. Served'
    BY <1>2, <1>3 DEF Served
  <1>5. queue' = queue \/ (ok /\ work[w].task = "ingress")
    BY DEF End
  <1>6. prod.phase = "done" => queue # {} \/ log # Absent \/ retained # {}
    BY DEF Kept, EventIsDurable
  <1>7. Somewhere'
    BY <1>3, <1>5, <1>6 DEF Somewhere
  <1> QED
    BY <1>4, <1>7

\* And until then the copy is in the queue.
LEMMA ServedKept ==
    ASSUME Base, Kept, row = Absent, row' = Absent, NEW w \in Slots,
           \/ BeginIngress(w) \/ Store(w) \/ PersistIngressFailure(w)
           \/ ArchiveTerminalIngress(w) \/ AnnounceIngressFailure(w),
           retained \subseteq retained'
    PROVE  Served' /\ Somewhere'
  <1>1. \A v \in Slots : work[v].task = "ingress" /\ work[v].pc = "done" => retained # {}
    BY DEF Kept
  <1>2. prod.phase = "done" => queue # {} \/ log # Absent \/ retained # {}
    BY DEF Kept, EventIsDurable
  <1>3. work[w] \in Slot
    BY KeptFacts
  <1>4. ASSUME NEW s \in Slot, Goto(w, s), s.pc # "done" \/ retained' # {} PROVE Served'
    <2>1. work'[w] = s /\ \A v \in Slots : v # w => work'[v] = work[v]
      BY <1>4, SlotSet
    <2> QED
      BY <1>1, <1>4, <2>1 DEF Served
  <1>5. UNCHANGED <<prod, queue, log>> => Somewhere'
    BY <1>2 DEF Somewhere
  <1>6. CASE BeginIngress(w)
    <2>0. /\ \E m \in queue :
                /\ queue' = (queue \ {m}) \cup {[m EXCEPT !.receives = @ + 1]}
                /\ Goto(w, [IdleSlot EXCEPT !.pc = "store", !.task = "ingress",
                                            !.msg = [m EXCEPT !.receives = @ + 1]])
          /\ UNCHANGED <<prod, late, log, row, idx, stream, note, object, sent, retained,
                         faults, crashes>>
      BY <1>6, ZenonT(60) DEF BeginIngress
    <2>1. PICK m \in queue :
            /\ queue' = (queue \ {m}) \cup {[m EXCEPT !.receives = @ + 1]}
            /\ Goto(w, [IdleSlot EXCEPT !.pc = "store", !.task = "ingress",
                                        !.msg = [m EXCEPT !.receives = @ + 1]])
      BY <2>0, Zenon
    <2>2. PICK r : r = [m EXCEPT !.receives = @ + 1]
      OBVIOUS
    <2>3. PICK s : s = [IdleSlot EXCEPT !.pc = "store", !.task = "ingress", !.msg = r]
      OBVIOUS
    <2>4. Goto(w, s) /\ queue' # {}
      BY <2>1, <2>2, <2>3
    <2>5. s \in Slot /\ s.pc = "store"
      <3>1. m \in Messages
        BY KeptFacts
      <3>2. r \in Messages
        BY <2>2, <3>1, NextReceive
      <3>3. s = Began("store", "ingress", r)
        BY <2>3, BeganWith, Zenon
      <3> QED
        BY <3>2, <3>3, HandedOut, Zenon
    <2>6. Served'
      BY <1>4, <2>4, <2>5
    <2>7. Somewhere'
      BY <2>4 DEF Somewhere
    <2> QED
      BY <2>6, <2>7
  <1>7. CASE Store(w)
    <2>1. UNCHANGED <<prod, queue, log>> /\ work[w].pc = "store"
      BY <1>7 DEF Store
    <2>2. work[w].msg \in Messages
      <3>1. Ready(work[w])
        BY KeptFacts
      <3> QED
        BY <1>3, <2>1, <3>1, SlotFacts DEF Ready
    <2>3. PICK d \in Deliveries : d = Received(work[w].msg)
      BY <2>2, ReceivedFacts DEF Base
    <2>4. row' # Stored(row, d)
      BY <2>3, StoredIsRow
    <2>5. ~Divergent(row, d)
      BY DEF Divergent
    <2>6. PICK pc \in {"fail", "retain"}, mode \in Modes :
             Goto(w, Go(w, pc)) \/ Goto(w, [Go(w, pc) EXCEPT !.mode = mode])
      BY <1>7, <2>3, <2>4, <2>5 DEF Store, Modes
    <2>7. Go(w, pc) \in Slot /\ Go(w, pc).pc = pc
      BY <1>3, <2>6, GoDrops, GoOn DEF Drops, Clears, PCs, Free
    <2>8. PICK g : g = Go(w, pc)
      OBVIOUS
    <2>9. [g EXCEPT !.mode = mode] \in Slot /\ [g EXCEPT !.mode = mode].pc = pc
      BY <2>6, <2>7, <2>8 DEF Slot
    <2>10. Served'
      <3>1. CASE Goto(w, Go(w, pc))
        BY <1>4, <2>6, <2>7, <3>1
      <3>2. CASE Goto(w, [Go(w, pc) EXCEPT !.mode = mode])
        <4>1. PICK s : s = [g EXCEPT !.mode = mode]
          OBVIOUS
        <4>2. s \in Slot /\ s.pc # "done" /\ Goto(w, s)
          BY <2>6, <2>8, <2>9, <3>2, <4>1
        <4> QED
          BY <1>4, <4>2
      <3> QED
        BY <2>6, <3>1, <3>2
    <2> QED
      BY <1>5, <2>1, <2>10
  <1>8. CASE PersistIngressFailure(w) \/ ArchiveTerminalIngress(w) \/ AnnounceIngressFailure(w)
    <2>1. UNCHANGED <<prod, queue, log>>
      <3>1. CASE PersistIngressFailure(w)
        BY <3>1, Zenon DEF PersistIngressFailure
      <3>2. CASE ArchiveTerminalIngress(w)
        BY <3>2, Zenon DEF ArchiveTerminalIngress
      <3>3. CASE AnnounceIngressFailure(w)
        BY <3>3, Zenon DEF AnnounceIngressFailure
      <3> QED
        BY <1>8, <3>1, <3>2, <3>3
    <2>2. PICK pc \in {"terminal", "announce", "fail", "done"} :
             Goto(w, Go(w, pc)) /\ (pc = "done" => work[w].pc = "announce")
      <3>1. CASE PersistIngressFailure(w)
        <4>1. PICK pc \in {"terminal", "announce"} :
                pc = IF work[w].mode = "terminal" THEN "terminal" ELSE "announce"
          OBVIOUS
        <4>2. Goto(w, Go(w, pc)) \/ Goto(w, Go(w, "fail"))
          BY <3>1, <4>1, Zenon DEF PersistIngressFailure
        <4> QED
          BY <4>2
      <3>2. CASE ArchiveTerminalIngress(w)
        <4>1. Goto(w, Go(w, "announce")) \/ Goto(w, Go(w, "fail"))
          BY <3>2, Zenon DEF ArchiveTerminalIngress
        <4> QED
          BY <4>1
      <3>3. CASE AnnounceIngressFailure(w)
        BY <3>3 DEF AnnounceIngressFailure
      <3> QED
        BY <1>8, <3>1, <3>2, <3>3
    <2>3. Go(w, pc) \in Slot /\ Go(w, pc).pc = pc
      BY <1>3, <2>2, GoDrops, GoOn DEF Drops, Clears, PCs, Free
    <2>4. work[w].pc = "announce" => retained # {}
      BY DEF Kept
    <2>5. Served'
      BY <1>4, <2>2, <2>3, <2>4
    <2> QED
      BY <1>5, <2>1, <2>5
  <1> QED
    BY <1>6, <1>7, <1>8

\* The record stays somewhere durable.
LEMMA KeptStays ==
    ASSUME Base, Base', Effects, [NextEvent]_eventVars, Kept
    PROVE  Kept'
  <1>0. \A w \in Slots : work'[w].pc \in {"terminal", "announce"} => retained' # {}
    BY ToldKept
  <1>1. CASE row' # Absent
    BY <1>0, <1>1 DEF Kept, EventIsDurable
  <1>2. CASE row' = Absent
    <2>1. row = Absent /\ retained \subseteq retained'
      <3>1. row' \in Rows \cup {Absent}
        BY DEF Base, Typed
      <3> QED
        BY <1>2, <3>1, RowGrows DEF Effects
    <2>2. Served /\ Somewhere
      BY <2>1 DEF Kept, EventIsDurable, Served, Somewhere
    <2>3. Served' /\ Somewhere'
      <3>1. CASE UNCHANGED eventVars
        BY <2>2, <3>1 DEF Served, Somewhere, eventVars
      <3>2. CASE WriteRow \/ Enqueue \/ ProducerDies \/ Replay
        <4>1. work' = work /\ retained' = retained /\ Somewhere'
          BY <1>2, <2>1, <3>2, ProducedKept
        <4> QED
          BY <1>2, <2>1, <2>2, <4>1 DEF Served
      <3>3. ASSUME NEW w \in Slots,
                   \/ BeginIngress(w) \/ Store(w) \/ PersistIngressFailure(w)
                   \/ ArchiveTerminalIngress(w) \/ AnnounceIngressFailure(w)
            PROVE  Served' /\ Somewhere'
        BY <1>2, <2>1, <3>3, ServedKept
      <3>4. ASSUME NEW w \in Slots, Return(w) PROVE Served' /\ Somewhere'
        <4>1. PICK ok \in BOOLEAN : ok = (work[w].pc = "done")
          OBVIOUS
        <4>2. End(w, ok) /\ UNCHANGED <<prod, log, retained>>
          BY <3>4, <4>1 DEF Return
        <4> QED
          BY <1>2, <2>1, <4>1, <4>2, EndKeeps
      <3>5. ASSUME NEW w \in Slots, Crash(w) PROVE Served' /\ Somewhere'
        <4>1. End(w, FALSE) /\ UNCHANGED <<prod, log, retained>>
          BY <3>5 DEF Crash
        <4> QED
          BY <1>2, <2>1, <4>1, EndKeeps
      <3>6. CASE NextEvent
        BY <1>2, <2>1, <3>2, <3>3, <3>4, <3>5, <3>6, WithoutRow
      <3> QED
        BY <3>1, <3>6
    <2> QED
      BY <1>0, <1>2, <2>3 DEF Kept, EventIsDurable, Served, Somewhere
  <1> QED
    BY <1>1, <1>2

-----------------------------------------------------------------------------
\* The start.

\* All of it holds at first.
LEMMA Starts ==
    ASSUME BoundsAssumption, InitEvent
    PROVE  /\ Base /\ Kept /\ Announced /\ Chain /\ Replacing /\ SameStatus /\ OneDriver
           /\ Loading /\ Committing /\ ArchivedIsExact
  <1>1. Base
    BY StartsBase
  <1>2. \A w \in Slots : work[w].pc = "idle" /\ work[w].task = "none"
    BY IdleFacts DEF InitEvent, IdleSlot
  <1>3. object = Absent /\ idx = "pending" /\ note.st = "none" /\ stream.st \in {"none", "ready"}
    BY DEF InitEvent
  <1>4. row # Absent => row.status = "pending"
    BY DEF InitEvent, NewRow
  <1>5. prod.phase = "done" => row # Absent
    <2> DEFINE first == StartAttempt(Pending, FALSE)
    <2>1. first \in Deliveries
      BY PendingFacts, StartFacts
    <2>2. prod.phase = "done" => Start = "stored"
      BY DEF InitEvent, BoundsAssumption
    <2>3. Start = "stored" => row = NewRow(first)
      BY DEF InitEvent
    <2> HIDE DEF first
    <2> QED
      BY <2>1, <2>2, <2>3, NewRowFacts, RowFacts
  <1>6. Holding = {} /\ Readings = {}
    BY <1>2, <1>3 DEF Holding, Readings
  <1>7. Kept
    BY <1>2, <1>5 DEF Kept, EventIsDurable
  <1>8. Announced
    BY <1>2, <1>4 DEF Announced, DeadLetterIsAnnounced
  <1>9. Chain /\ SameStatus /\ Replacing /\ Loading /\ Committing
    BY <1>2, <1>6 DEF Chain, SameStatus, Replacing, Loading, Committing
  <1>10. OneDriver
    BY <1>2, <1>3 DEF OneDriver, OneTask, Closed, Open
  <1>11. ArchivedIsExact
    BY <1>4 DEF ArchivedIsExact
  <1> QED
    BY <1>1, <1>7, <1>8, <1>9, <1>10, <1>11

-----------------------------------------------------------------------------
\* What the receives of one copy reconstruct.

Retold(attempts, k) ==
    <<"retrying", "pending", "failed">>[((k - 1 + (IF attempts = 0 THEN 1 ELSE 0)) % 3) + 1]

\* How many entries receive number m.receives adds.
Added(m) == 3 * m.receives - 1 - (IF m.attempts = 0 THEN 1 ELSE 0)

\* What a receive adds to the history of its copy.
LEMMA RebuiltFacts ==
    ASSUME NEW m \in Messages
    PROVE  /\ Rebuilt(m) \in Histories
           /\ Len(Rebuilt(m)) = Len(m.d.history) + (IF Added(m) >= 0 THEN Added(m) ELSE 0)
           /\ \A k \in 1..Len(m.d.history) : Rebuilt(m)[k] = m.d.history[k]
           /\ \A k \in 1..Added(m) : Rebuilt(m)[Len(m.d.history) + k][1] = Retold(m.attempts, k)
  <1>1. /\ m.id \in Nat /\ m.d \in Deliveries /\ m.attempts \in Nat /\ m.receives \in Nat
        /\ m.d.attempts \in Nat /\ m.d.history \in Histories
    BY MessageFacts, DeliveryFacts
  <1>2. PICK skip \in {0, 1} : skip = IF m.attempts = 0 THEN 1 ELSE 0
    OBVIOUS
  <1>3. PICK n \in Int : n = 3 * m.receives - 1 - skip
    BY <1>1
  <1>4. PICK stamp \in Nat : stamp = 10 * m.id + m.receives
    BY <1>1
  <1>5. PICK more : more = [k \in 1..n |-> At(<<"retrying", "pending", "failed">>
                                                [((k - 1 + skip) % 3) + 1], stamp)]
    OBVIOUS
  <1>6. more \in Histories /\ Len(more) = IF n >= 0 THEN n ELSE 0
    BY <1>5, RoundFacts
  <1>7. n = Added(m)
    BY <1>2, <1>3 DEF Added
  <1>8. \A k \in 1..n : more[k][1] = Retold(m.attempts, k)
    <2>1. \A k \in Int : Retold(m.attempts, k) = <<"retrying", "pending", "failed">>
                                                   [((k - 1 + skip) % 3) + 1]
      BY <1>2 DEF Retold
    <2> TAKE k \in 1..n
    <2>2. PICK x : x = <<"retrying", "pending", "failed">>[((k - 1 + skip) % 3) + 1]
      OBVIOUS
    <2>3. more[k] = At(x, stamp)
      BY <1>5, <2>2
    <2>4. At(x, stamp)[1] = x
      BY DEF At
    <2> QED
      BY <2>1, <2>2, <2>3, <2>4
  <1>9. Rebuilt(m) = m.d.history \o more
    BY <1>2, <1>3, <1>4, <1>5 DEF Rebuilt
  <1>10. /\ Rebuilt(m) \in Histories
         /\ Len(Rebuilt(m)) = Len(m.d.history) + Len(more)
         /\ \A k \in 1..Len(m.d.history) : Rebuilt(m)[k] = m.d.history[k]
         /\ \A k \in 1..Len(more) : Rebuilt(m)[Len(m.d.history) + k] = more[k]
    <2>1. PICK h \in Histories : h = m.d.history
      BY <1>1
    <2>2. /\ h \o more \in Histories /\ Len(h \o more) = Len(h) + Len(more)
          /\ \A k \in 1..Len(h) : (h \o more)[k] = h[k]
          /\ \A k \in 1..Len(more) : (h \o more)[Len(h) + k] = more[k]
      BY <1>6, Concatenated
    <2>3. PICK g : g = h \o more
      OBVIOUS
    <2>4. Rebuilt(m) = g
      BY <1>9, <2>1, <2>3
    <2> QED
      BY <2>1, <2>2, <2>3, <2>4
  <1>11. \A k \in 1..n : k \in 1..Len(more)
    BY <1>3, <1>6
  <1> QED
    BY <1>6, <1>7, <1>8, <1>10, <1>11

\* The history of a receive: what was rebuilt, as far as the limit.
LEMMA ReceivedHistory ==
    ASSUME BoundsAssumption, NEW m \in Messages, Len(m.d.history) <= HistoryLimit
    PROVE  /\ Received(m).history \in Histories
           /\ Len(Received(m).history) = IF Len(Rebuilt(m)) <= HistoryLimit
                                         THEN Len(Rebuilt(m)) ELSE HistoryLimit
           /\ \A k \in 1..Len(Received(m).history) : Received(m).history[k] = Rebuilt(m)[k]
           /\ Len(m.d.history) <= Len(Received(m).history)
           /\ Len(Received(m).history) \in Nat
  <1>1. Rebuilt(m) \in Histories /\ Len(Rebuilt(m)) \in Nat /\ HistoryLimit \in Nat
    BY RebuiltFacts, HistoryFacts DEF BoundsAssumption
  <1>2. Len(m.d.history) \in Nat /\ Len(m.d.history) <= Len(Rebuilt(m))
    <2>1. m.d.history \in Histories /\ m.receives \in Nat /\ m.attempts \in Nat
      BY MessageFacts, DeliveryFacts
    <2>2. Added(m) \in Int
      BY <2>1 DEF Added
    <2>3. PICK n \in Nat : n = IF Added(m) >= 0 THEN Added(m) ELSE 0
      BY <2>2
    <2>4. Len(m.d.history) \in Nat
      BY <2>1, HistoryFacts
    <2> QED
      BY <2>3, <2>4, RebuiltFacts
  <1>3. CASE Len(Rebuilt(m)) <= HistoryLimit
    BY <1>1, <1>2, <1>3, ReceivedIs
  <1>4. CASE ~(Len(Rebuilt(m)) <= HistoryLimit)
    <2>1. Received(m).history = SubSeq(Rebuilt(m), 1, HistoryLimit)
      BY <1>4, ReceivedIs
    <2>2. HistoryLimit <= Len(Rebuilt(m)) /\ 1 \in Nat \ {0} /\ 1 <= HistoryLimit
      BY <1>1, <1>4 DEF BoundsAssumption
    <2>3. /\ SubSeq(Rebuilt(m), 1, HistoryLimit) \in Histories
          /\ Len(SubSeq(Rebuilt(m), 1, HistoryLimit))
               = IF 1 <= HistoryLimit THEN HistoryLimit - 1 + 1 ELSE 0
          /\ \A k \in 1..(HistoryLimit - 1 + 1) :
                SubSeq(Rebuilt(m), 1, HistoryLimit)[k] = Rebuilt(m)[1 + k - 1]
      BY <1>1, <2>2, Segment
    <2>4. Len(Received(m).history) = HistoryLimit
      BY <1>1, <2>1, <2>2, <2>3
    <2>5. ASSUME NEW k \in 1..HistoryLimit PROVE Received(m).history[k] = Rebuilt(m)[k]
      <3>1. k \in 1..(HistoryLimit - 1 + 1) /\ 1 + k - 1 = k
        BY <1>1
      <3>2. SubSeq(Rebuilt(m), 1, HistoryLimit)[k] = Rebuilt(m)[1 + k - 1]
        BY <2>3, <3>1
      <3> QED
        BY <2>1, <3>1, <3>2
    <2> QED
      BY <1>1, <1>4, <2>1, <2>3, <2>4, <2>5
  <1> QED
    BY <1>3, <1>4

\* Copies are compared by attempts and statuses.
LEMMA LeIsSLe ==
    ASSUME NEW x \in Deliveries, NEW y \in Deliveries, Le(x, y)
    PROVE  SLe(x, y)
  BY DEF Le, Pre, SLe

LEMMA SLeTransitive ==
    ASSUME NEW x \in Deliveries, NEW y \in Deliveries, NEW z \in Deliveries, SLe(x, y), SLe(y, z)
    PROVE  SLe(x, z)
  <1>1. /\ x.attempts \in Nat /\ y.attempts \in Nat /\ z.attempts \in Nat
        /\ Len(x.history) \in Nat /\ Len(y.history) \in Nat /\ Len(z.history) \in Nat
    BY DeliveryFacts, HistoryFacts
  <1> QED
    BY <1>1 DEF SLe

\* A receive continues its copy,
LEMMA ReceivedExtends ==
    ASSUME BoundsAssumption, NEW m \in Messages, Len(m.d.history) <= HistoryLimit
    PROVE  SLe(m.d, Received(m))
  <1>1. /\ m.receives \in Nat /\ m.d.attempts \in Nat /\ m.d.history \in Histories
    BY MessageFacts, DeliveryFacts
  <1>2. m.d.attempts <= Received(m).attempts
    BY <1>1, ReceivedIs
  <1>3. /\ Len(m.d.history) <= Len(Received(m).history)
        /\ \A k \in 1..Len(m.d.history) : Received(m).history[k][1] = m.d.history[k][1]
    <2>1. /\ Len(m.d.history) <= Len(Received(m).history)
          /\ \A k \in 1..Len(Received(m).history) : Received(m).history[k] = Rebuilt(m)[k]
          /\ Len(Received(m).history) \in Nat /\ Len(m.d.history) \in Nat
      BY <1>1, ReceivedHistory, HistoryFacts
    <2>2. \A k \in 1..Len(m.d.history) : Rebuilt(m)[k] = m.d.history[k]
      BY RebuiltFacts
    <2>3. \A k \in 1..Len(m.d.history) : k \in 1..Len(Received(m).history)
      BY <2>1
    <2> QED
      BY <2>1, <2>2, <2>3
  <1> QED
    BY <1>2, <1>3 DEF SLe

\* A copy as an earlier receive saw it.
LEMMA AtReceiveFacts ==
    ASSUME NEW m \in Messages, NEW c \in Nat
    PROVE  /\ AtReceive(m, c) \in Messages /\ AtReceive(m, c).d = m.d
           /\ AtReceive(m, c).attempts = m.attempts /\ AtReceive(m, c).receives = c
           /\ AtReceive(m, c).id = m.id
           /\ AtReceive(m, m.receives) = m
  BY DEF AtReceive, Messages

\* and the receives before it, even where the limit cuts them.
LEMMA ReceivesExtend ==
    ASSUME BoundsAssumption, NEW m \in Messages, Len(m.d.history) <= HistoryLimit,
           NEW c \in 1..m.receives
    PROVE  SLe(Received(AtReceive(m, c)), Received(m))
  <1> DEFINE e == AtReceive(m, c)
  <1>1. /\ m.receives \in Nat /\ m.attempts \in Nat /\ m.d.attempts \in Nat
        /\ m.d.history \in Histories /\ Len(m.d.history) \in Nat /\ c \in Nat /\ c <= m.receives
    BY MessageFacts, DeliveryFacts, HistoryFacts
  <1>2. /\ e \in Messages /\ e.d = m.d /\ e.attempts = m.attempts /\ e.receives = c
    BY <1>1, AtReceiveFacts
  <1> HIDE DEF e
  <1>3. Received(e).attempts <= Received(m).attempts
    <2>1. Received(e).attempts = m.d.attempts + c /\ Received(m).attempts = m.d.attempts + m.receives
      BY <1>2, ReceivedIs
    <2> QED
      BY <1>1, <2>1
  <1>0. Added(e) \in Int /\ Added(m) \in Int /\ Added(e) <= Added(m)
    BY <1>1, <1>2 DEF Added
  <1>12. PICK i \in Nat : i = (IF Added(e) >= 0 THEN Added(e) ELSE 0)
    BY <1>0
  <1>13. PICK j \in Nat : j = (IF Added(m) >= 0 THEN Added(m) ELSE 0)
    BY <1>0
  <1>4. /\ i = (IF Added(e) >= 0 THEN Added(e) ELSE 0)
        /\ j = (IF Added(m) >= 0 THEN Added(m) ELSE 0)
        /\ i <= j
    BY <1>0, <1>12, <1>13
  <1>5. PICK l \in Nat : l = Len(m.d.history)
    BY <1>1
  <1>6. /\ Len(Rebuilt(e)) = l + i /\ Len(Rebuilt(m)) = l + j
        /\ \A k \in 1..l : Rebuilt(e)[k] = Rebuilt(m)[k]
        /\ \A k \in 1..i : Rebuilt(e)[l + k][1] = Rebuilt(m)[l + k][1]
    <2>1. /\ Len(Rebuilt(e)) = l + i /\ Len(Rebuilt(m)) = l + j
          /\ \A k \in 1..l : Rebuilt(e)[k] = Rebuilt(m)[k]
      BY <1>2, <1>4, <1>5, RebuiltFacts
    <2>2. ASSUME NEW k \in 1..i PROVE Rebuilt(e)[l + k][1] = Rebuilt(m)[l + k][1]
      <3>1. k \in 1..Added(e) /\ k \in 1..Added(m)
        BY <1>0, <1>4
      <3>2. Rebuilt(e)[Len(e.d.history) + k][1] = Retold(e.attempts, k)
        BY <1>2, <3>1, RebuiltFacts
      <3>3. Rebuilt(m)[Len(m.d.history) + k][1] = Retold(m.attempts, k)
        BY <3>1, RebuiltFacts
      <3> QED
        BY <1>2, <1>5, <3>2, <3>3
    <2> QED
      BY <2>1, <2>2
  <1>7. \A k \in 1..(l + i) : Rebuilt(e)[k][1] = Rebuilt(m)[k][1]
    <2> TAKE k \in 1..(l + i)
    <2>1. CASE k <= l
      BY <1>6, <2>1
    <2>2. CASE ~(k <= l)
      <3>1. PICK n \in 1..i : k = l + n
        BY <2>2
      <3> QED
        BY <1>6, <3>1
    <2> QED
      BY <2>1, <2>2
  <1>8. HistoryLimit \in Nat
    BY DEF BoundsAssumption
  <1>9. /\ Len(Received(e).history) = IF l + i <= HistoryLimit THEN l + i ELSE HistoryLimit
        /\ \A k \in 1..Len(Received(e).history) : Received(e).history[k] = Rebuilt(e)[k]
        /\ Len(Received(m).history) = IF l + j <= HistoryLimit THEN l + j ELSE HistoryLimit
        /\ \A k \in 1..Len(Received(m).history) : Received(m).history[k] = Rebuilt(m)[k]
    BY <1>2, <1>5, <1>6, ReceivedHistory
  <1>10. /\ Len(Received(e).history) <= Len(Received(m).history)
         /\ Len(Received(e).history) <= l + i
         /\ Len(Received(e).history) \in Nat /\ Len(Received(m).history) \in Nat
    <2>1. CASE l + i <= HistoryLimit
      <3>1. PICK a \in Nat : a = l + i
        BY <1>5, <1>12
      <3>2. PICK b \in Nat : b = l + j
        BY <1>5, <1>13
      <3>3. a <= b
        BY <1>4, <1>5, <3>1, <3>2
      <3>4. Len(Received(e).history) = a
        BY <1>9, <2>1, <3>1
      <3>5. Len(Received(m).history) = IF b <= HistoryLimit THEN b ELSE HistoryLimit
        BY <1>9, <3>2
      <3> QED
        BY <1>8, <2>1, <3>1, <3>3, <3>4, <3>5
    <2>2. CASE ~(l + i <= HistoryLimit)
      <3>1. ~(l + j <= HistoryLimit) /\ HistoryLimit <= l + i
        BY <1>4, <1>5, <1>8, <2>2
      <3> QED
        BY <1>8, <1>9, <2>2, <3>1
    <2> QED
      BY <2>1, <2>2
  <1>11. \A k \in 1..Len(Received(e).history) : Received(e).history[k][1] = Received(m).history[k][1]
    <2> TAKE k \in 1..Len(Received(e).history)
    <2>1. k \in 1..(l + i) /\ k \in 1..Len(Received(m).history)
      BY <1>10
    <2> QED
      BY <1>7, <1>9, <2>1
  <1> QED
    BY <1>3, <1>10, <1>11 DEF SLe, e

\* What is beneath a copy does not contradict what a receive of it reconstructs.
LEMMA BeneathMerges ==
    ASSUME Base, NEW m \in Messages, Len(m.d.history) <= HistoryLimit, Beneath(m)
    PROVE  ~Divergent(row, Received(m))
  <1>1. CASE row = Absent
    BY <1>1 DEF Divergent
  <1>2. CASE row # Absent
    <2>1. row \in Rows /\ row.source \in Deliveries /\ m.d \in Deliveries /\ Received(m) \in Deliveries
      BY <1>2, KeptFacts, RowFacts, MessageFacts, ReceivedFacts DEF Base
    <2>2. SLe(row.source, Received(m))
      <3>1. CASE SLe(row.source, m.d)
        BY <2>1, <3>1, ReceivedExtends, SLeTransitive DEF Base
      <3>2. ASSUME NEW c \in 1..m.receives, row.source = Received(AtReceive(m, c))
            PROVE  SLe(row.source, Received(m))
        BY <3>2, ReceivesExtend DEF Base
      <3> QED
        BY <1>2, <3>1, <3>2 DEF Beneath
    <2> QED
      BY <2>1, <2>2, CoveredFacts DEF Divergent
  <1> QED
    BY <1>1, <1>2

-----------------------------------------------------------------------------
\* Steps that neither hand a copy out nor take one back.

CalmSlot(w, s) == s.pc \notin {"store", "retain"} /\ s.msg \in {work[w].msg, Absent}

CalmHands ==
    \A v \in Slots :
        \/ work'[v] = work[v]
        \/ work'[v].pc \notin {"store", "retain"} /\ work'[v].msg \in {work[v].msg, Absent}

CalmRow == row' = row \/ (row # Absent /\ row' # Absent /\ row'.source = row.source)

Retains ==
    \/ retained' = retained
    \/ \E v \in Slots : work[v].pc = "retain" /\ retained' \subseteq retained \cup {work[v].mode}

Calm == UNCHANGED <<prod, late, queue, log>> /\ CalmRow /\ CalmHands /\ Retains

\* A slot that neither takes a copy nor stores one.
LEMMA CalmSet ==
    ASSUME Base, NEW w \in Slots, NEW s, Goto(w, s), CalmSlot(w, s)
    PROVE  CalmHands
  <1>1. work'[w] = s /\ \A v \in Slots : v # w => work'[v] = work[v]
    BY SlotSet
  <1> QED
    BY <1>1 DEF CalmHands, CalmSlot

LEMMA GoCalm ==
    ASSUME Base, NEW w \in Slots, NEW pc \in PCs \ {"store", "retain"}
    PROVE  /\ CalmSlot(w, Go(w, pc)) /\ Go(w, pc) \in Slot /\ Go(w, pc).pc = pc
           /\ Go(w, pc).msg = work[w].msg
  <1>1. work[w] \in Slot
    BY KeptFacts
  <1>2. pc \in Drops \cup Clears \cup (PCs \ (Drops \cup Clears))
    OBVIOUS
  <1>3. Go(w, pc) \in Slot /\ Go(w, pc).pc = pc /\ Go(w, pc).msg = work[w].msg
    BY <1>1, <1>2, GoDrops, GoClears, GoOn
  <1> QED
    BY <1>3 DEF CalmSlot

LEMMA GoesCalmly ==
    ASSUME Base, NEW w \in Slots, NEW pc, pc \in PCs \ {"store", "retain"}, Goto(w, Go(w, pc))
    PROVE  CalmHands
  BY GoCalm, CalmSet

LEMMA NextCalm ==
    ASSUME Base, NEW w \in Slots
    PROVE  CalmSlot(w, NextAttempt(w))
  <1>1. work[w] \in Slot
    BY KeptFacts
  <1> QED
    BY <1>1, NextAttemptFacts DEF CalmSlot

\* An invocation that goes on with the rest of its slot amended.
LEMMA AmendCalm ==
    ASSUME Base, NEW w \in Slots, NEW g, CalmSlot(w, g), NEW s, s.pc = g.pc, s.msg = g.msg, Goto(w, s)
    PROVE  CalmHands
  BY CalmSet DEF CalmSlot

\* A step that only moves slots.
LEMMA QuietCalm ==
    ASSUME UNCHANGED <<prod, late, queue, log, row, retained>>, CalmHands
    PROVE  Calm
  BY DEF Calm, CalmRow, Retains

\* The steps that are calm.
LEMMA StillCalm == ASSUME LeaseRunsOut \/ IndexCatchesUp, Base, Base', Effects PROVE Calm
  <1>1. CalmHands /\ retained' = retained /\ UNCHANGED <<prod, late, queue, log>>
    BY DEF LeaseRunsOut, IndexCatchesUp, CalmHands
  <1>2. CalmRow
    <2>1. CASE LeaseRunsOut
      <3>1. row # Absent /\ row' \in {[row EXCEPT !.redriving = FALSE], [row EXCEPT !.refreshLease = 0]}
        BY <2>1 DEF LeaseRunsOut
      <3>2. row \in Rows /\ row' # Absent
        <4>1. row' \in Rows \cup {Absent}
          BY DEF Base, Typed
        <4> QED
          BY <3>1, <4>1, RowGrows
      <3>3. row'.source = row.source
        BY <3>1, <3>2 DEF Rows
      <3> QED
        BY <3>1, <3>2, <3>3 DEF CalmRow
    <2>2. CASE IndexCatchesUp
      BY <2>2 DEF IndexCatchesUp, CalmRow
    <2> QED
      BY <2>1, <2>2
  <1> QED
    BY <1>1, <1>2 DEF Calm, Retains

LEMMA BeginCalm ==
    ASSUME Base, NEW w \in Slots, BeginStream(w) \/ BeginNote(w) \/ BeginSweep(w)
    PROVE  Calm
  <1>1. PICK pc \in {"check", "give_up", "redrive", "claim"}, task \in {"stream", "note", "sweep"} :
           Serve(w, task, pc)
    BY DEF BeginStream, BeginNote, BeginSweep
  <1>2. PICK s : s = [IdleSlot EXCEPT !.pc = pc, !.task = task]
    OBVIOUS
  <1>3. s.pc = pc /\ s.msg = Absent
    <2>1. s = Began(pc, task, Absent)
      BY <1>2, BeganIs, Zenon
    <2> QED
      BY <2>1 DEF Began
  <1>4. Goto(w, s)
    BY <1>1, <1>2 DEF Serve
  <1>5. CalmHands
    BY <1>3, <1>4, CalmSet DEF CalmSlot
  <1>6. UNCHANGED <<prod, late, queue, log, row, retained>>
    BY DEF BeginStream, BeginNote, BeginSweep
  <1> QED
    BY <1>5, <1>6, QuietCalm

\* A conditional write of the row.
LEMMA UpdateCalm ==
    ASSUME Base, Base', Effects, NEW w \in Slots, row # Absent,
           NEW cond, NEW new, NEW yes, NEW no, NEW error, Update(w, cond, new, yes, no, error),
           new.source = row.source, CalmSlot(w, yes), CalmSlot(w, no), CalmSlot(w, error),
           UNCHANGED <<prod, late, queue, log, retained>>
    PROVE  Calm
  <1>1. row' # Absent
    <2>1. row' \in Rows \cup {Absent}
      BY DEF Base, Typed
    <2> QED
      BY <2>1, RowGrows
  <1>2. row' \in {row, new}
    BY DEF Update
  <1>3. CalmHands
    BY CalmSet DEF Update
  <1> QED
    BY <1>1, <1>2, <1>3 DEF Calm, CalmRow, Retains

LEMMA DeliverCalm ==
    ASSUME Base, Base', Effects, NEW w \in Slots,
           CheckOutbox(w) \/ LoadDelivery(w) \/ SendDeadLetter(w)
    PROVE  Calm
  <1>1. UNCHANGED <<prod, late, queue, log, row, retained>>
    BY DEF CheckOutbox, LoadDelivery, SendDeadLetter
  <1>2. \A pc \in PCs \ {"store", "retain"} : CalmSlot(w, Go(w, pc)) /\ Go(w, pc) \in Slot
    BY GoCalm
  <1>3. {"finish", "attempt", "fail", "done", "restore", "dead_letter"} \subseteq PCs \ {"store", "retain"}
    BY DEF PCs, Free, OnRow
  <1>4. CASE CheckOutbox(w)
    <2>1. PICK g \in Slot : g = Go(w, "attempt") /\ CalmSlot(w, g)
      BY <1>2, <1>3
    <2>2. \/ Goto(w, Go(w, "finish")) \/ Goto(w, Go(w, "fail"))
          \/ Goto(w, [g EXCEPT !.mode = "deliver", !.n = 1])
      BY <1>4, <2>1 DEF CheckOutbox
    <2>3. PICK s : s = [g EXCEPT !.mode = "deliver", !.n = 1]
      OBVIOUS
    <2>4. s.pc = g.pc /\ s.msg = g.msg
      BY <2>1, <2>3 DEF Slot
    <2>5. CalmHands
      <3>1. CASE Goto(w, s)
        BY <2>1, <2>4, <3>1, AmendCalm
      <3>2. CASE Goto(w, Go(w, "finish")) \/ Goto(w, Go(w, "fail"))
        BY <1>2, <1>3, <3>2, CalmSet
      <3> QED
        BY <2>2, <2>3, <3>1, <3>2
    <2> QED
      BY <1>1, <2>5, QuietCalm
  <1>5. CASE LoadDelivery(w)
    <2>1. PICK s : s = [work[w] EXCEPT !.pc = "put", !.cas = 1,
                                       !.snap = [status |-> row.status, attempts |-> row.attempts,
                                                 history |-> row.history]]
      OBVIOUS
    <2>2. s.pc = "put" /\ s.msg = work[w].msg
      <3>1. work[w] \in Slot
        BY KeptFacts
      <3> QED
        BY <2>1, <3>1 DEF Slot
    <2>3. CASE Goto(w, s)
      <3>1. CalmSlot(w, s)
        BY <2>2 DEF CalmSlot
      <3>2. CalmHands
        BY <2>3, <3>1, CalmSet
      <3> QED
        BY <1>1, <3>2, QuietCalm
    <2>4. ASSUME NEW pc \in {"done", "restore", "fail"}, Goto(w, Go(w, pc)) PROVE Calm
      <3>1. CalmHands
        BY <1>3, <2>4, GoesCalmly
      <3> QED
        BY <1>1, <3>1, QuietCalm
    <2>5. PICK pc \in {"restore", "fail"} : pc = IF work[w].mode = "redrive" THEN "restore" ELSE "fail"
      OBVIOUS
    <2>6. Goto(w, s) \/ Goto(w, Go(w, "done")) \/ Goto(w, Go(w, pc))
      BY <1>5, <2>1, <2>5, Zenon DEF LoadDelivery
    <2> QED
      BY <2>3, <2>4, <2>5, <2>6
  <1>6. CASE SendDeadLetter(w)
    <2>1. Goto(w, Go(w, "dead_letter")) \/ Goto(w, Go(w, "fail"))
      BY <1>6 DEF SendDeadLetter
    <2>2. CalmHands
      BY <1>2, <1>3, <2>1, CalmSet
    <2> QED
      BY <1>1, <2>2, QuietCalm
  <1> QED
    BY <1>4, <1>5, <1>6

LEMMA MarkCalm ==
    ASSUME Base, Base', Effects, NEW w \in Slots,
           MarkAttempt(w) \/ MarkFailed(w) \/ MarkDeadLetterPending(w) \/ MarkDeadLettered(w)
           \/ MarkRedriveFailed(w)
    PROVE  Calm
  <1>1. UNCHANGED <<prod, late, queue, log, retained>> /\ work[w].pc \in OnRow
    BY DEF MarkAttempt, MarkFailed, MarkDeadLetterPending, MarkDeadLettered, MarkRedriveFailed, OnRow
  <1>2. row # Absent /\ row \in Rows
    BY <1>1, KeptFacts
  <1>3. {"load", "claim", "fail", "finish", "done", "give_up"} \subseteq PCs \ {"store", "retain"}
    BY DEF PCs, Free, OnRow
  <1>4. /\ \A pc \in {"load", "claim", "fail", "finish", "done", "give_up"} : CalmSlot(w, Go(w, pc))
        /\ CalmSlot(w, NextAttempt(w))
    BY <1>3, GoCalm, NextCalm
  <1>5. CASE MarkAttempt(w)
    <2>1. PICK new : new = [row EXCEPT !.status = "retrying", !.attempts = Bump(@),
                                       !.history = Append(@, Once("retrying"))]
      OBVIOUS
    <2>2. new.source = row.source
      BY <1>2, <2>1 DEF Rows
    <2>3. Update(w, row.status \in Open, new, Go(w, "load"), Go(w, "claim"), Go(w, "fail"))
      BY <1>5, <2>1, Zenon DEF MarkAttempt
    <2> QED
      BY <1>1, <1>2, <1>4, <2>2, <2>3, UpdateCalm
  <1>6. CASE MarkFailed(w)
    <2>1. PICK new : new = [row EXCEPT !.status = "failed", !.history = Append(@, Once("failed"))]
      OBVIOUS
    <2>2. new.source = row.source
      BY <1>2, <2>1 DEF Rows
    <2>3. PICK next : next = IF work[w].pc = "commit_failed" THEN Go(w, "fail")
                             ELSE IF work[w].n < ArchiveAttempts THEN NextAttempt(w)
                             ELSE Go(w, "give_up")
      OBVIOUS
    <2>4. CalmSlot(w, next)
      BY <1>4, <2>3
    <2>5. Update(w, row.status \in Open, new, next, next, Go(w, "fail"))
      BY <1>6, <2>1, <2>3, Zenon DEF MarkFailed
    <2> QED
      BY <1>1, <1>2, <1>4, <2>2, <2>4, <2>5, UpdateCalm
  <1>7. CASE MarkDeadLetterPending(w)
    <2>1. PICK new : new = [row EXCEPT !.status = "dead_letter_pending",
                                       !.history = Append(@, Once("dead_letter_pending"))]
      OBVIOUS
    <2>2. new.source = row.source
      BY <1>2, <2>1 DEF Rows
    <2>3. Update(w, row.status \notin {"archived", "dead_lettered"}, new, Go(w, "finish"),
                 Go(w, "done"), Go(w, "fail"))
      BY <1>7, <2>1, Zenon DEF MarkDeadLetterPending
    <2> QED
      BY <1>1, <1>2, <1>4, <2>2, <2>3, UpdateCalm
  <1>8. CASE MarkDeadLettered(w)
    <2>1. PICK new : new = [row EXCEPT !.status = "dead_lettered",
                                       !.history = Append(@, Once("dead_lettered"))]
      OBVIOUS
    <2>2. new.source = row.source
      BY <1>2, <2>1 DEF Rows
    <2>3. Update(w, row.status = "dead_letter_pending", new, Go(w, "done"), Go(w, "done"),
                 Go(w, "fail"))
      BY <1>8, <2>1, Zenon DEF MarkDeadLettered
    <2> QED
      BY <1>1, <1>2, <1>4, <2>2, <2>3, UpdateCalm
  <1>9. CASE MarkRedriveFailed(w)
    <2>1. PICK new : new = [row EXCEPT !.redriving = FALSE]
      OBVIOUS
    <2>2. new.source = row.source
      BY <1>2, <2>1 DEF Rows
    <2>3. Update(w, row.status = "dead_lettered", new, Go(w, "done"), Go(w, "fail"), Go(w, "fail"))
      BY <1>9, <2>1, Zenon DEF MarkRedriveFailed
    <2> QED
      BY <1>1, <1>2, <1>4, <2>2, <2>3, UpdateCalm
  <1> QED
    BY <1>5, <1>6, <1>7, <1>8, <1>9

LEMMA LeaseCalm ==
    ASSUME Base, Base', Effects, NEW w \in Slots, MarkRedriveAttempt(w) \/ ClaimRefresh(w)
    PROVE  Calm
  <1>1. UNCHANGED <<prod, late, queue, log, retained>> /\ work[w].pc \in OnRow
    BY DEF MarkRedriveAttempt, ClaimRefresh, OnRow
  <1>2. row # Absent /\ row \in Rows
    BY <1>1, KeptFacts
  <1>3. {"load", "fail", "done"} \subseteq PCs \ {"store", "retain"}
    BY DEF PCs, Free, OnRow
  <1>4. \A pc \in {"load", "fail", "done"} : CalmSlot(w, Go(w, pc)) /\ Go(w, pc) \in Slot
    BY <1>3, GoCalm
  <1>5. PICK g \in Slot : g = Go(w, "load") /\ CalmSlot(w, g)
    BY <1>4
  <1>6. CASE MarkRedriveAttempt(w)
    <2>1. PICK new : new = [row EXCEPT !.redriving = TRUE, !.attempts = Bump(@)]
      OBVIOUS
    <2>2. new.source = row.source
      BY <1>2, <2>1 DEF Rows
    <2>3. PICK yes : yes = [g EXCEPT !.mode = "redrive"]
      OBVIOUS
    <2>4. CalmSlot(w, yes)
      <3>1. yes.pc = g.pc /\ yes.msg = g.msg
        BY <1>5, <2>3 DEF Slot
      <3> QED
        BY <1>5, <3>1 DEF CalmSlot
    <2>5. Update(w, row.status = "dead_lettered" /\ ~row.redriving, new, yes, Go(w, "done"),
                 Go(w, "fail"))
      BY <1>5, <1>6, <2>1, <2>3, Zenon DEF MarkRedriveAttempt
    <2> QED
      BY <1>1, <1>2, <1>4, <2>2, <2>4, <2>5, UpdateCalm
  <1>7. CASE ClaimRefresh(w)
    <2>0. PICK lease \in 1..2 :
            Update(w, row.status = "archive_refresh_pending" /\ row.refreshLease = 0,
                   [row EXCEPT !.refreshLease = lease],
                   [Go(w, "load") EXCEPT !.mode = "refresh", !.lease = lease],
                   Go(w, "done"), Go(w, "fail"))
      BY <1>7, Zenon DEF ClaimRefresh
    <2>1. PICK new : new = [row EXCEPT !.refreshLease = lease]
      OBVIOUS
    <2>2. new.source = row.source
      BY <1>2, <2>1 DEF Rows
    <2>3. PICK yes : yes = [g EXCEPT !.mode = "refresh", !.lease = lease]
      OBVIOUS
    <2>4. CalmSlot(w, yes)
      <3>1. yes.pc = g.pc /\ yes.msg = g.msg
        BY <1>5, <2>3 DEF Slot
      <3> QED
        BY <1>5, <3>1 DEF CalmSlot
    <2>5. Update(w, row.status = "archive_refresh_pending" /\ row.refreshLease = 0, new, yes,
                 Go(w, "done"), Go(w, "fail"))
      BY <1>5, <2>0, <2>1, <2>3, Zenon
    <2> QED
      BY <1>1, <1>2, <1>4, <2>2, <2>4, <2>5, UpdateCalm
  <1> QED
    BY <1>6, <1>7

LEMMA ArchiveCalm ==
    ASSUME Base, Base', Effects, NEW w \in Slots,
           PutObject(w) \/ ReplaceObject(w) \/ MarkArchived(w)
    PROVE  Calm
  <1>1. UNCHANGED <<prod, late, queue, log, retained>> /\ work[w].pc \in {"put", "replace", "commit"}
    BY DEF PutObject, ReplaceObject, MarkArchived
  <1>2. row # Absent /\ row \in Rows /\ work[w] \in Slot /\ work[w].mode \in {"deliver", "redrive", "refresh"}
    BY <1>1, KeptFacts DEF Ready, OnRow
  <1>3. {"commit", "replace", "put", "put_failed", "commit_failed", "restore", "fail", "done"}
           \subseteq PCs \ {"store", "retain"}
    BY DEF PCs, Free, OnRow
  <1>4. /\ \A pc \in {"commit", "replace", "put", "put_failed", "commit_failed", "restore", "fail",
                      "done"} : CalmSlot(w, Go(w, pc)) /\ Go(w, pc) \in Slot
        /\ CalmSlot(w, NextAttempt(w))
    BY <1>3, GoCalm, NextCalm
  <1>5. CalmSlot(w, PutFailed(w))
    BY <1>2, <1>4 DEF PutFailed
  <1>6. PICK c \in Slot, r \in Slot, p \in Slot :
          /\ c = Go(w, "commit") /\ r = Go(w, "replace") /\ p = Go(w, "put")
          /\ CalmSlot(w, c) /\ CalmSlot(w, r) /\ CalmSlot(w, p)
    BY <1>4
  <1>7. CASE PutObject(w)
    <2>1. PICK c1, c2, r1 :
            /\ c1 = [c EXCEPT !.etag = Proposed(w)] /\ c2 = [c EXCEPT !.etag = object]
            /\ r1 = [r EXCEPT !.etag = object]
      OBVIOUS
    <2>4. /\ c1.pc = c.pc /\ c1.msg = c.msg /\ c2.pc = c.pc /\ c2.msg = c.msg
          /\ r1.pc = r.pc /\ r1.msg = r.msg
      BY <2>1 DEF Slot
    <2>5. Goto(w, c1) \/ Goto(w, c2) \/ Goto(w, r1) \/ Goto(w, PutFailed(w))
      <3>1. PICK x : x = CASE compare_archive_objects(object, Proposed(w)) = "keep" -> c2
                           [] compare_archive_objects(object, Proposed(w)) = "replace" -> r1
                           [] OTHER -> PutFailed(w)
        OBVIOUS
      <3>2. Goto(w, c1) \/ Goto(w, x) \/ Goto(w, PutFailed(w))
        BY <1>6, <1>7, <2>1, <3>1, Zenon DEF PutObject
      <3>3. x \in {c2, r1, PutFailed(w)}
        BY <3>1
      <3> QED
        BY <3>2, <3>3
    <2>2. CalmHands
      BY <1>5, <1>6, <2>4, <2>5, CalmSet, AmendCalm
    <2>3. row' = row
      BY <1>7 DEF PutObject
    <2> QED
      BY <1>1, <2>2, <2>3, QuietCalm
  <1>8. CASE ReplaceObject(w)
    <2>0. PICK n : n = p.cas + 1
      OBVIOUS
    <2>1. PICK c1, p1 : c1 = [c EXCEPT !.etag = Proposed(w)] /\ p1 = [p EXCEPT !.cas = n, !.etag = Absent]
      OBVIOUS
    <2>4. c1.pc = c.pc /\ c1.msg = c.msg /\ p1.pc = p.pc /\ p1.msg = p.msg
      BY <2>1 DEF Slot
    <2>5. Goto(w, c1) \/ Goto(w, p1) \/ Goto(w, PutFailed(w))
      <3>1. PICK x : x = IF work[w].cas < CasAttempts THEN p1 ELSE PutFailed(w)
        OBVIOUS
      <3>2. p1 = [p EXCEPT !.cas = @ + 1, !.etag = Absent]
        BY <2>0, <2>1
      <3>3. Goto(w, c1) \/ Goto(w, x) \/ Goto(w, PutFailed(w))
        BY <1>6, <1>8, <2>1, <3>1, <3>2, Zenon DEF ReplaceObject
      <3> QED
        BY <3>1, <3>3
    <2>2. CalmHands
      BY <1>5, <1>6, <2>4, <2>5, CalmSet, AmendCalm
    <2>3. row' = row
      BY <1>8 DEF ReplaceObject
    <2> QED
      BY <1>1, <2>2, <2>3, QuietCalm
  <1>9. CASE MarkArchived(w)
    <2>1. PICK new : new = [row EXCEPT !.status = "archived",
                                       !.history = Append(@, Last(work[w].etag.history)),
                                       !.redriving = FALSE, !.refreshLease = 0]
      OBVIOUS
    <2>2. new.source = row.source
      BY <1>2, <2>1 DEF Rows
    <2>3. PICK no : no = CASE work[w].mode = "deliver" ->
                                IF work[w].n < ArchiveAttempts THEN NextAttempt(w) ELSE Go(w, "fail")
                           [] work[w].mode = "redrive" -> Go(w, "restore")
                           [] work[w].mode = "refresh" -> Go(w, "done")
      OBVIOUS
    <2>4. PICK error : error = CASE work[w].mode = "deliver" -> Go(w, "commit_failed")
                                 [] work[w].mode = "redrive" -> Go(w, "restore")
                                 [] work[w].mode = "refresh" -> Go(w, "fail")
      OBVIOUS
    <2>5. CalmSlot(w, no) /\ CalmSlot(w, error)
      BY <1>2, <1>4, <2>3, <2>4
    <2>6. PICK cond : Update(w, cond, new, Go(w, "done"), no, error)
      BY <1>9, <2>1, <2>3, <2>4, Zenon DEF MarkArchived
    <2> QED
      BY <1>1, <1>2, <1>4, <2>2, <2>5, <2>6, UpdateCalm
  <1> QED
    BY <1>7, <1>8, <1>9

LEMMA QuarantineCalm ==
    ASSUME Base, NEW w \in Slots,
           \/ PersistIngressFailure(w) \/ ArchiveTerminalIngress(w) \/ AnnounceIngressFailure(w)
    PROVE  Calm
  <1>1. {"terminal", "announce", "fail", "done"} \subseteq PCs \ {"store", "retain"}
    BY DEF PCs, Free, OnRow
  <1>2. CASE PersistIngressFailure(w)
    <2>1. PICK pc \in {"terminal", "announce"} :
            pc = IF work[w].mode = "terminal" THEN "terminal" ELSE "announce"
      OBVIOUS
    <2>2. Goto(w, Go(w, pc)) \/ Goto(w, Go(w, "fail"))
      BY <1>2, <2>1, Zenon DEF PersistIngressFailure
    <2>3. /\ UNCHANGED <<prod, late, queue, log, row>> /\ work[w].pc = "retain"
          /\ retained' \in {retained, retained \cup {work[w].mode}}
      BY <1>2 DEF PersistIngressFailure
    <2>4. CalmHands
      BY <1>1, <2>1, <2>2, GoesCalmly
    <2> QED
      BY <2>3, <2>4 DEF Calm, CalmRow, Retains
  <1>3. CASE ArchiveTerminalIngress(w)
    <2>1. Goto(w, Go(w, "announce")) \/ Goto(w, Go(w, "fail"))
      BY <1>3, Zenon DEF ArchiveTerminalIngress
    <2>2. UNCHANGED <<prod, late, queue, log, row, retained>>
      BY <1>3, Zenon DEF ArchiveTerminalIngress
    <2> QED
      BY <1>1, <2>1, <2>2, GoesCalmly, QuietCalm
  <1>4. CASE AnnounceIngressFailure(w)
    <2>1. Goto(w, Go(w, "done")) \/ Goto(w, Go(w, "fail"))
      BY <1>4 DEF AnnounceIngressFailure
    <2>2. UNCHANGED <<prod, late, queue, log, row, retained>>
      BY <1>4 DEF AnnounceIngressFailure
    <2> QED
      BY <1>1, <2>1, <2>2, GoesCalmly, QuietCalm
  <1> QED
    BY <1>2, <1>3, <1>4

-----------------------------------------------------------------------------
\* The records under way are not cut.

\* The attempt the producer makes, and what it goes on with when it failed.
LEMMA AttemptFacts ==
    ASSUME Base, NEW d, d = StartAttempt(prod.d, prod.n > 1)
    PROVE  /\ d \in Deliveries /\ Failed(d) \in Deliveries
           /\ SLe(prod.d, d) /\ SLe(d, Failed(d)) /\ SLe(prod.d, Failed(d))
           /\ prod.n = 1 => Len(d.history) = Len(prod.d.history) + 1
           /\ prod.n > 1 => Len(d.history) = Len(prod.d.history) + 2
           /\ Len(Failed(d).history) = Len(d.history) + 1
           /\ Len(d.history) \in Nat /\ Len(prod.d.history) \in Nat
  <1>1. prod.n \in Nat /\ prod.d \in Deliveries
    BY ProdFacts
  <1>2. (prod.n > 1) \in BOOLEAN
    OBVIOUS
  <1>3. /\ d \in Deliveries /\ Le(prod.d, d)
        /\ Len(d.history) = Len(prod.d.history) + (IF prod.n > 1 THEN 2 ELSE 1)
    BY <1>1, <1>2, StartFacts
  <1>4. /\ Failed(d) \in Deliveries /\ Le(d, Failed(d))
        /\ Len(Failed(d).history) = Len(d.history) + 1
    BY <1>3, FailedFacts
  <1>5. SLe(prod.d, d) /\ SLe(d, Failed(d))
    BY <1>1, <1>3, <1>4, LeIsSLe
  <1>6. SLe(prod.d, Failed(d))
    BY <1>1, <1>3, <1>4, <1>5, SLeTransitive
  <1>7. Len(d.history) \in Nat /\ Len(prod.d.history) \in Nat
    BY <1>1, <1>3, DeliveryFacts, HistoryFacts
  <1>8. prod.n = 1 => Len(d.history) = Len(prod.d.history) + 1
    BY <1>1, <1>3
  <1>9. prod.n > 1 => Len(d.history) = Len(prod.d.history) + 2
    BY <1>1, <1>3
  <1> QED
    BY <1>3, <1>4, <1>5, <1>6, <1>7, <1>8, <1>9

\* A failed attempt of the producer.
LEMMA ProducerFailsIs ==
    ASSUME Base, NEW d, ProducerFails(d)
    PROVE  /\ prod'.d = Failed(d) /\ prod'.twice = prod.twice
           /\ \/ prod.n < HotAttempts /\ prod'.n = prod.n + 1 /\ prod'.phase = prod.phase
              \/ ~(prod.n < HotAttempts) /\ prod'.n = 1 /\ prod'.phase = "enqueue"
  <1>1. prod \in [phase : {"hot", "enqueue", "done", "dead"}, n : Nat, d : Deliveries, twice : BOOLEAN]
    BY DEF Base, Typed
  <1>2. PICK f : f = Failed(d)
    OBVIOUS
  <1>3. CASE prod.n < HotAttempts
    <2>1. PICK n : n = prod.n + 1
      OBVIOUS
    <2>2. prod' = [prod EXCEPT !.n = n, !.d = f]
      BY <1>2, <1>3, <2>1 DEF ProducerFails
    <2> QED
      BY <1>1, <1>2, <1>3, <2>1, <2>2
  <1>4. CASE ~(prod.n < HotAttempts)
    <2>1. prod' = [prod EXCEPT !.phase = "enqueue", !.n = 1, !.d = f]
      BY <1>2, <1>4 DEF ProducerFails
    <2> QED
      BY <1>1, <1>2, <1>4, <2>1
  <1> QED
    BY <1>3, <1>4

\* A write of the row by the producer.
LEMMA WriteRowIs ==
    ASSUME Base, WriteRow, NEW d, d = StartAttempt(prod.d, prod.n > 1)
    PROVE  /\ prod.phase = "hot" /\ UNCHANGED <<queue, log, work, retained>>
           /\ late' \subseteq late \cup {d} /\ row' \in {row, Stored(row, d)}
           /\ prod'.twice = prod.twice
           /\ prod'.phase = "done" \/ ProducerFails(d)
  <1>1. prod \in [phase : {"hot", "enqueue", "done", "dead"}, n : Nat, d : Deliveries, twice : BOOLEAN]
    BY DEF Base, Typed
  <1>2. /\ prod.phase = "hot" /\ UNCHANGED <<queue, log, work, retained>>
        /\ late' \subseteq late \cup {d} /\ row' \in {row, Stored(row, d)}
        /\ prod' = [prod EXCEPT !.phase = "done", !.d = d] \/ ProducerFails(d)
    BY DEF WriteRow
  <1>3. CASE prod' = [prod EXCEPT !.phase = "done", !.d = d]
    BY <1>1, <1>2, <1>3
  <1>4. CASE ProducerFails(d)
    BY <1>2, <1>4, ProducerFailsIs
  <1> QED
    BY <1>2, <1>3, <1>4

\* A send of the producer; that the answer was lost is remembered.
LEMMA EnqueueIs ==
    ASSUME Base, Enqueue, NEW d, d = StartAttempt(prod.d, prod.n > 1),
           NEW c, c = Copy(prod.n, d)
    PROVE  /\ prod.phase = "enqueue" /\ UNCHANGED <<late, row, work, retained>>
           /\ prod.twice => prod'.twice
           /\ \/ queue' = queue \cup {c} /\ prod'.phase = "done" /\ log' = log
              \/ /\ queue' = queue \/ (queue' = queue \cup {c} /\ prod'.twice)
                 /\ prod'.d = Failed(d)
                 /\ \/ /\ prod.n < EnqueueAttempts /\ log' = log
                       /\ prod'.phase = "enqueue" /\ prod'.n = prod.n + 1
                    \/ /\ prod.n = EnqueueAttempts /\ log' = Failed(d)
                       /\ prod'.phase = "done"
  <1>1. prod \in [phase : {"hot", "enqueue", "done", "dead"}, n : Nat, d : Deliveries, twice : BOOLEAN]
    BY DEF Base, Typed
  <1>2. prod.phase = "enqueue" /\ UNCHANGED <<late, row, work, retained>>
    BY DEF Enqueue
  <1>3. CASE queue' = queue \cup {c} /\ prod' = [prod EXCEPT !.phase = "done", !.d = d] /\ log' = log
    BY <1>1, <1>2, <1>3
  <1>4. ASSUME NEW arrived \in {FALSE, AmbiguousEnqueue},
               queue' = IF arrived THEN queue \cup {c} ELSE queue,
               \/ /\ prod.n < EnqueueAttempts /\ log' = log
                  /\ prod' = [prod EXCEPT !.n = @ + 1, !.d = Failed(d), !.twice = @ \/ arrived]
               \/ /\ prod.n = EnqueueAttempts /\ log' = Failed(d)
                  /\ prod' = [prod EXCEPT !.phase = "done", !.d = Failed(d), !.twice = @ \/ arrived]
        PROVE  /\ prod.twice => prod'.twice
               /\ queue' = queue \/ (queue' = queue \cup {c} /\ prod'.twice)
               /\ prod'.d = Failed(d)
               /\ \/ /\ prod.n < EnqueueAttempts /\ log' = log
                     /\ prod'.phase = "enqueue" /\ prod'.n = prod.n + 1
                  \/ /\ prod.n = EnqueueAttempts /\ log' = Failed(d)
                     /\ prod'.phase = "done"
    <2>0. arrived \in BOOLEAN
      BY DEF Base, BoundsAssumption
    <2>1. PICK f : f = Failed(d)
      OBVIOUS
    <2>2. PICK n : n = prod.n + 1
      OBVIOUS
    <2>3. PICK t \in BOOLEAN : t = (prod.twice \/ arrived)
      OBVIOUS
    <2>4. queue' = queue \/ (queue' = queue \cup {c} /\ arrived)
      BY <1>4
    <2>5. CASE /\ prod.n < EnqueueAttempts /\ log' = log
               /\ prod' = [prod EXCEPT !.n = @ + 1, !.d = Failed(d), !.twice = @ \/ arrived]
      <3>1. prod' = [prod EXCEPT !.n = n, !.d = f, !.twice = t]
        BY <2>1, <2>2, <2>3, <2>5
      <3>2. prod'.phase = prod.phase /\ prod'.n = n /\ prod'.d = f /\ prod'.twice = t
        BY <1>1, <3>1
      <3> QED
        BY <1>1, <1>2, <2>0, <2>1, <2>2, <2>3, <2>4, <2>5, <3>2
    <2>6. CASE /\ prod.n = EnqueueAttempts /\ log' = Failed(d)
               /\ prod' = [prod EXCEPT !.phase = "done", !.d = Failed(d), !.twice = @ \/ arrived]
      <3>1. prod' = [prod EXCEPT !.phase = "done", !.d = f, !.twice = t]
        BY <2>1, <2>3, <2>6
      <3>2. prod'.phase = "done" /\ prod'.d = f /\ prod'.twice = t
        BY <1>1, <3>1
      <3> QED
        BY <1>1, <2>0, <2>1, <2>3, <2>4, <2>6, <3>2
    <2> QED
      BY <1>4, <2>5, <2>6
  <1>5. \/ queue' = queue \cup {c} /\ prod' = [prod EXCEPT !.phase = "done", !.d = d] /\ log' = log
        \/ \E arrived \in {FALSE, AmbiguousEnqueue} :
              /\ queue' = IF arrived THEN queue \cup {c} ELSE queue
              /\ \/ /\ prod.n < EnqueueAttempts /\ log' = log
                    /\ prod' = [prod EXCEPT !.n = @ + 1, !.d = Failed(d), !.twice = @ \/ arrived]
                 \/ /\ prod.n = EnqueueAttempts /\ log' = Failed(d)
                    /\ prod' = [prod EXCEPT !.phase = "done", !.d = Failed(d), !.twice = @ \/ arrived]
    BY Zenon DEF Enqueue
  <1> QED
    BY <1>2, <1>3, <1>4, <1>5

\* Every attempt adds three entries at most, so that the record fits.
LEMMA WriteRowFits == ASSUME Base, Fits, WriteRow PROVE Fits'
  <1>1. PICK d : d = StartAttempt(prod.d, prod.n > 1)
    OBVIOUS
  <1>2. /\ prod.phase = "hot" /\ queue' = queue /\ log' = log
        /\ prod'.phase = "done" \/ ProducerFails(d)
    BY <1>1, WriteRowIs
  <1>3. HotAttempts \in Nat /\ HotAttempts > 0 /\ EnqueueAttempts \in Nat /\ EnqueueAttempts > 0
    BY DEF Base, BoundsAssumption
  <1>4. CASE prod'.phase = "done"
    BY <1>2, <1>4 DEF Fits
  <1>5. CASE ProducerFails(d)
    <2>1. /\ prod'.d = Failed(d)
          /\ \/ prod.n < HotAttempts /\ prod'.n = prod.n + 1 /\ prod'.phase = "hot"
             \/ ~(prod.n < HotAttempts) /\ prod'.n = 1 /\ prod'.phase = "enqueue"
      BY <1>2, <1>5, ProducerFailsIs
    <2>2. prod.n \in 1..HotAttempts /\ prod.n \in Nat
      BY <1>2, ProdFacts DEF Fits
    <2>3. PICK a \in Nat : a = Len(prod.d.history)
      BY <1>1, AttemptFacts
    <2>4. PICK n \in Nat : n = prod.n
      BY <2>2
    <2>5. /\ n = 1 => a = 1
          /\ n > 1 => a = 3 * n - 3
      BY <1>2, <2>3, <2>4 DEF Fits
    <2>6. PICK e \in Nat : e = Len(d.history)
      BY <1>1, AttemptFacts
    <2>7. /\ n = 1 => e = a + 1
          /\ n > 1 => e = a + 2
      BY <1>1, <2>3, <2>4, <2>6, AttemptFacts
    <2>8. Len(prod'.d.history) = e + 1
      BY <1>1, <2>1, <2>6, AttemptFacts
    <2>9. n \in 1..HotAttempts
      BY <2>2, <2>4
    <2>10. e + 1 = 3 * n
      BY <1>3, <2>5, <2>7, <2>9
    <2>11. CASE n < HotAttempts /\ prod'.n = n + 1 /\ prod'.phase = "hot"
      <3>1. n + 1 \in 1..HotAttempts /\ n + 1 > 1 /\ n + 1 # 1 /\ e + 1 = 3 * (n + 1) - 3
        BY <1>3, <2>9, <2>10, <2>11
      <3> QED
        BY <1>2, <2>8, <2>11, <3>1 DEF Fits
    <2>12. CASE ~(n < HotAttempts) /\ prod'.n = 1 /\ prod'.phase = "enqueue"
      <3>1. e + 1 <= 3 * HotAttempts /\ 1 \in 1..EnqueueAttempts /\ ~(1 > 1)
        BY <1>3, <2>9, <2>10, <2>12
      <3> QED
        BY <1>2, <2>8, <2>12, <3>1 DEF Fits
    <2> QED
      BY <2>1, <2>4, <2>11, <2>12
  <1> QED
    BY <1>2, <1>4, <1>5

LEMMA EnqueueFits == ASSUME Base, HistoryAssumption, Fits, Enqueue PROVE Fits'
  <1>1. PICK d : d = StartAttempt(prod.d, prod.n > 1)
    OBVIOUS
  <1>2. PICK c : c = Copy(prod.n, d)
    OBVIOUS
  <1>3. /\ HotAttempts \in Nat /\ HotAttempts > 0 /\ EnqueueAttempts \in Nat /\ EnqueueAttempts > 0
        /\ HistoryLimit \in Nat /\ 3 * (HotAttempts + EnqueueAttempts) - 1 <= HistoryLimit
    BY DEF Base, BoundsAssumption, HistoryAssumption
  <1>4. /\ prod.phase = "enqueue"
        /\ queue' \subseteq queue \cup {c}
        /\ \/ prod'.phase = "done" /\ log' \in {log, Failed(d)}
           \/ /\ prod'.d = Failed(d) /\ prod.n < EnqueueAttempts /\ log' = log
              /\ prod'.phase = "enqueue" /\ prod'.n = prod.n + 1
    BY <1>1, <1>2, EnqueueIs
  <1>5. prod.n \in 1..EnqueueAttempts /\ prod.n \in Nat
    BY <1>4, ProdFacts DEF Fits
  <1>6. PICK l \in Nat : l = Len(d.history)
    BY <1>1, AttemptFacts
  <1>7. PICK n \in Nat : n = prod.n
    BY <1>5
  <1>8. PICK a \in Nat : a = Len(prod.d.history)
    BY <1>1, AttemptFacts
  <1>9. /\ n = 1 => a <= 3 * HotAttempts
        /\ n > 1 => a <= 3 * HotAttempts + 3 * n - 4
    BY <1>4, <1>7, <1>8 DEF Fits
  <1>10. /\ n = 1 => l = a + 1
         /\ n > 1 => l = a + 2
    BY <1>1, <1>6, <1>7, <1>8, AttemptFacts
  <1>11. n \in 1..EnqueueAttempts
    BY <1>5, <1>7
  <1>12. l <= 3 * HotAttempts + 3 * n - 2
    <2>1. n = 1 \/ n > 1
      BY <1>11
    <2>2. CASE n = 1
      <3>1. l = a + 1 /\ a <= 3 * HotAttempts
        BY <1>9, <1>10, <2>2
      <3> QED
        BY <1>3, <2>2, <3>1
    <2>3. CASE n > 1
      <3>1. l = a + 2 /\ a <= 3 * HotAttempts + 3 * n - 4
        BY <1>9, <1>10, <2>3
      <3> QED
        BY <1>3, <2>3, <3>1
    <2> QED
      BY <2>1, <2>2, <2>3
  <1>13. Len(Failed(d).history) = l + 1
    BY <1>1, <1>6, AttemptFacts
  <1>14. l + 1 <= HistoryLimit
    BY <1>3, <1>11, <1>12
  <1>15. c.d = d
    BY <1>2 DEF Copy
  <1>16. \A m \in queue' : Len(m.d.history) <= HistoryLimit
    BY <1>3, <1>4, <1>6, <1>14, <1>15 DEF Fits
  <1>17. log' # Absent => Len(log'.history) <= HistoryLimit
    BY <1>4, <1>13, <1>14 DEF Fits
  <1>18. prod'.phase = "enqueue" =>
            /\ prod'.n \in 1..EnqueueAttempts /\ prod'.n > 1
            /\ Len(prod'.d.history) <= 3 * HotAttempts + 3 * prod'.n - 4
    <2> SUFFICES ASSUME prod'.phase = "enqueue"
                 PROVE  /\ prod'.n \in 1..EnqueueAttempts /\ prod'.n > 1
                        /\ Len(prod'.d.history) <= 3 * HotAttempts + 3 * prod'.n - 4
      OBVIOUS
    <2>1. prod'.d = Failed(d) /\ n < EnqueueAttempts /\ prod'.n = n + 1
      BY <1>4, <1>7
    <2>2. /\ n + 1 \in 1..EnqueueAttempts /\ n + 1 > 1
          /\ l + 1 <= 3 * HotAttempts + 3 * (n + 1) - 4
      BY <1>3, <1>11, <1>12, <2>1
    <2> QED
      BY <1>13, <2>1, <2>2
  <1>19. prod'.phase # "hot"
    BY <1>4
  <1> QED
    BY <1>16, <1>17, <1>18, <1>19 DEF Fits

\* Nothing else adds to it.
LEMMA FitsStays ==
    ASSUME Base, Fits, queue' \subseteq queue,
           prod' = prod \/ prod'.phase = "dead", log' = log \/ log' = Absent
    PROVE  Fits'
  BY DEF Fits

\* A copy is handed out: it counts the receive.
LEMMA CopyHandedOut ==
    ASSUME Base, NEW w \in Slots, BeginIngress(w)
    PROVE  \E m \in queue : \E r \in Messages :
              /\ r.id = m.id /\ r.d = m.d /\ r.attempts = m.attempts
              /\ r.receives = m.receives + 1 /\ r = AtReceive(m, m.receives + 1)
              /\ queue' = (queue \ {m}) \cup {r}
              /\ \A v \in Slots : work[v].msg # Absent => work[v].msg.id # m.id
              /\ work'[w].pc = "store" /\ work'[w].msg = r
              /\ \A v \in Slots : v # w => work'[v] = work[v]
              /\ UNCHANGED <<prod, late, log, row, retained>>
  <1>1. /\ \E m \in queue :
              /\ \A v \in Slots : work[v].msg # Absent => work[v].msg.id # m.id
              /\ queue' = (queue \ {m}) \cup {[m EXCEPT !.receives = @ + 1]}
              /\ Goto(w, [IdleSlot EXCEPT !.pc = "store", !.task = "ingress",
                                          !.msg = [m EXCEPT !.receives = @ + 1]])
        /\ UNCHANGED <<prod, late, log, row, retained>>
    BY ZenonT(60) DEF BeginIngress
  <1>2. PICK m \in queue :
          /\ \A v \in Slots : work[v].msg # Absent => work[v].msg.id # m.id
          /\ queue' = (queue \ {m}) \cup {[m EXCEPT !.receives = @ + 1]}
          /\ Goto(w, [IdleSlot EXCEPT !.pc = "store", !.task = "ingress",
                                      !.msg = [m EXCEPT !.receives = @ + 1]])
    BY <1>1, Zenon
  <1>3. PICK r : r = [m EXCEPT !.receives = @ + 1]
    OBVIOUS
  <1>4. PICK s : s = [IdleSlot EXCEPT !.pc = "store", !.task = "ingress", !.msg = r]
    OBVIOUS
  <1>5. m \in Messages
    BY KeptFacts
  <1>6. /\ r \in Messages /\ r.id = m.id /\ r.d = m.d /\ r.attempts = m.attempts
        /\ r.receives = m.receives + 1
    BY <1>3, <1>5, NextReceive
  <1>7. s.pc = "store" /\ s.msg = r
    <2>1. s = Began("store", "ingress", r)
      BY <1>4, BeganWith, Zenon
    <2> QED
      BY <1>6, <2>1, HandedOut, Zenon
  <1>8. Goto(w, s) /\ queue' = (queue \ {m}) \cup {r}
    BY <1>2, <1>3, <1>4
  <1>9. work'[w] = s /\ \A v \in Slots : v # w => work'[v] = work[v]
    BY <1>8, SlotSet
  <1>10. r = AtReceive(m, m.receives + 1)
    BY <1>3 DEF AtReceive
  <1> QED
    BY <1>1, <1>2, <1>6, <1>7, <1>8, <1>9, <1>10

\* An invocation ends: it holds no copy any more, and takes none but its own from the queue.
LEMMA CopyReturned ==
    ASSUME Base, NEW w \in Slots, Return(w) \/ Crash(w)
    PROVE  /\ queue' \in {queue, queue \ {work[w].msg}}
           /\ work'[w].pc = "idle" /\ work'[w].msg = Absent
           /\ \A v \in Slots : v # w => work'[v] = work[v]
           /\ UNCHANGED <<prod, late, log, row, retained>>
  <1>1. PICK ok \in BOOLEAN : End(w, ok)
    <2>1. (work[w].pc = "done") \in BOOLEAN
      OBVIOUS
    <2> QED
      BY <2>1 DEF Return, Crash
  <1>2. Goto(w, IdleSlot) /\ queue' \in {queue, queue \ {work[w].msg}}
    BY <1>1 DEF End
  <1>3. work'[w] = IdleSlot /\ \A v \in Slots : v # w => work'[v] = work[v]
    BY <1>2, SlotSet
  <1>4. UNCHANGED <<prod, late, log, row, retained>>
    BY DEF Return, Crash
  <1> QED
    BY <1>2, <1>3, <1>4 DEF IdleSlot

\* A replay takes the record from the log to the queue.
LEMMA ReplayIs ==
    ASSUME Base, Replay
    PROVE  /\ log # Absent /\ log \in Deliveries /\ prod.phase # "enqueue" /\ queue = {} /\ late = {}
           /\ queue' = {Copy(9, log)} /\ Copy(9, log).d = log /\ Copy(9, log).receives = 0
           /\ log' = Absent /\ UNCHANGED <<prod, late, row, work, retained>>
  BY DEF Replay, Copy, Base, Typed

\* A store of a copy: the row that comes of it, and where the invocation goes.
LEMMA StoreIs ==
    ASSUME Base, NEW w \in Slots, Store(w)
    PROVE  /\ work[w].pc = "store" /\ work[w].msg \in Messages
           /\ row' \in {row, Stored(row, Received(work[w].msg))}
           /\ work'[w].msg = work[w].msg /\ work'[w].pc # "store"
           /\ work'[w].pc = "retain" /\ work'[w].mode = "quarantine"
                => Divergent(row, Received(work[w].msg))
           /\ \A v \in Slots : v # w => work'[v] = work[v]
           /\ UNCHANGED <<prod, late, queue, log, retained>>
  <1>1. PICK m : m = work[w].msg
    OBVIOUS
  <1>2. PICK d : d = Received(m)
    OBVIOUS
  <1>3. /\ work[w].pc = "store" /\ UNCHANGED <<prod, late, queue, log, retained>>
        /\ row' \in {row, Stored(row, d)}
        /\ \/ Goto(w, Go(w, "done")) \/ Goto(w, Go(w, "claim")) \/ Goto(w, Go(w, "fail"))
           \/ Goto(w, [Go(w, "retain") EXCEPT !.mode = "terminal"])
           \/ Divergent(row, d) /\ Goto(w, [Go(w, "retain") EXCEPT !.mode = "quarantine"])
    <2>1. work[w].pc = "store" /\ UNCHANGED <<prod, late, queue, log, retained>>
      BY DEF Store
    <2>2. \/ row' = Stored(row, d) /\ Goto(w, Go(w, IF row = Absent THEN "done" ELSE "claim"))
          \/ Divergent(row, d) /\ row' = row
             /\ Goto(w, [Go(w, "retain") EXCEPT !.mode = "quarantine"])
          \/ row' \in {row, Stored(row, d)}
             /\ Goto(w, IF m.attempts + m.receives < IngressAttempts THEN Go(w, "fail")
                        ELSE [Go(w, "retain") EXCEPT !.mode = "terminal"])
      BY <1>1, <1>2, Zenon DEF Store
    <2> QED
      BY <2>1, <2>2
  <1>4. work[w] \in Slot /\ Ready(work[w])
    BY KeptFacts
  <1>5. work[w].msg \in Messages
    BY <1>3, <1>4 DEF Ready, Slot
  <1>6. {"done", "claim", "fail", "retain"} \subseteq PCs
    BY DEF PCs, Free, OnRow
  <1>7. PICK g : g = Go(w, "retain")
    OBVIOUS
  <1>8. g \in Slot /\ g.pc = "retain" /\ g.msg = work[w].msg
    <2>1. "retain" \in PCs \ (Drops \cup Clears)
      BY <1>6 DEF Drops, Clears
    <2> QED
      BY <1>4, <1>7, <2>1, GoOn
  <1>9. ASSUME NEW pc \in {"done", "claim", "fail"}, Goto(w, Go(w, pc))
        PROVE  /\ work'[w].msg = work[w].msg /\ work'[w].pc \notin {"store", "retain"}
               /\ \A v \in Slots : v # w => work'[v] = work[v]
    <2>1. Go(w, pc).pc = pc /\ Go(w, pc).msg = work[w].msg
      BY <1>6, GoCalm
    <2>2. work'[w] = Go(w, pc) /\ \A v \in Slots : v # w => work'[v] = work[v]
      BY <1>9, SlotSet
    <2> QED
      BY <2>1, <2>2
  <1>10. ASSUME NEW mode \in {"terminal", "quarantine"}, Goto(w, [Go(w, "retain") EXCEPT !.mode = mode])
         PROVE  /\ work'[w].msg = work[w].msg /\ work'[w].pc = "retain" /\ work'[w].mode = mode
                /\ \A v \in Slots : v # w => work'[v] = work[v]
    <2>1. PICK s : s = [g EXCEPT !.mode = mode]
      OBVIOUS
    <2>2. s.pc = "retain" /\ s.msg = work[w].msg /\ s.mode = mode
      BY <1>8, <2>1 DEF Slot
    <2>3. Goto(w, s)
      BY <1>7, <1>10, <2>1
    <2>4. work'[w] = s /\ \A v \in Slots : v # w => work'[v] = work[v]
      BY <2>3, SlotSet
    <2> QED
      BY <2>2, <2>4
  <1> QED
    BY <1>1, <1>2, <1>3, <1>5, <1>9, <1>10

\* So no record under way is ever cut.
LEMMA FitsKept == ASSUME Base, Base', Effects, HistoryAssumption, [NextEvent]_eventVars, Fits PROVE Fits'
  <1>1. CASE Calm
    BY <1>1, FitsStays DEF Calm
  <1>2. CASE UNCHANGED eventVars
    BY <1>2, FitsStays DEF eventVars
  <1>3. CASE ProducerDies
    <2>1. prod'.phase = "dead"
      BY <1>3, ProdFacts DEF ProducerDies
    <2> QED
      BY <1>3, <2>1, FitsStays DEF ProducerDies
  <1>4. CASE LateWrite
    BY <1>4, FitsStays DEF LateWrite
  <1>5. CASE Replay
    BY <1>5, ReplayIs DEF Fits
  <1>6. ASSUME NEW w \in Slots, BeginIngress(w) PROVE Fits'
    <2>1. PICK m \in queue, r \in Messages :
             r.d = m.d /\ queue' = (queue \ {m}) \cup {r} /\ UNCHANGED <<prod, log>>
      BY <1>6, CopyHandedOut
    <2> QED
      BY <2>1 DEF Fits
  <1>7. ASSUME NEW w \in Slots, Store(w) PROVE Fits'
    BY <1>7, StoreIs, FitsStays
  <1>8. ASSUME NEW w \in Slots, Return(w) \/ Crash(w) PROVE Fits'
    BY <1>8, CopyReturned, FitsStays
  <1> QED
    BY <1>1, <1>2, <1>3, <1>4, <1>5, <1>6, <1>7, <1>8, WriteRowFits, EnqueueFits, StillCalm, BeginCalm,
       DeliverCalm, MarkCalm, LeaseCalm, ArchiveCalm, QuarantineCalm
       DEF NextEvent, Producer, Begin, ArchiveStep

-----------------------------------------------------------------------------
\* There is one copy, and the row has nothing that it does not have.

\* While a copy is in the queue there is no other, nor in the log nor with the producer.
LEMMA CopyThere ==
    ASSUME Line, NEW m \in queue
    PROVE  prod.phase \notin {"hot", "enqueue"} /\ log = Absent /\ queue = {m} /\ Beneath(m)
  BY DEF Line

\* The source of the row is a delivery.
LEMMA SourceFacts ==
    ASSUME Base, row # Absent
    PROVE  row \in Rows /\ row.source \in Deliveries
  BY RowFacts DEF Base, Typed

\* The source of the row is what it was, or the delivery that was written.
LEMMA SourceAfter ==
    ASSUME Base, NEW e \in Deliveries, row' \in {row, Stored(row, e)}, row' # Absent
    PROVE  (row # Absent /\ row'.source = row.source) \/ row'.source = e
  <1>1. CASE row' = row
    BY <1>1
  <1>2. CASE row' = Stored(row, e)
    <2>1. row \in Rows \cup {Absent}
      BY DEF Base, Typed
    <2> QED
      BY <1>2, <2>1, StoredFacts, NewRowFacts
  <1> QED
    BY <1>1, <1>2

\* A calm step leaves the copy where it is,
LEMMA CopyCalm == ASSUME Calm, OneCopy PROVE OneCopy'
  <1> SUFFICES ASSUME prod'.twice = FALSE PROVE Line' /\ Hands'
    BY DEF OneCopy
  <1>1. UNCHANGED <<prod, late, queue, log>> /\ CalmRow /\ CalmHands /\ Retains
    BY DEF Calm
  <1>2. Line /\ Hands
    BY <1>1 DEF OneCopy
  <1>3. row' # Absent => row # Absent /\ row'.source = row.source
    BY <1>1 DEF CalmRow
  <1>4. ASSUME NEW d, Behind(d) PROVE late' = late /\ (row' # Absent => SLe(row'.source, d))
    BY <1>1, <1>3, <1>4 DEF Behind
  <1>5. Line'
    <2>1. prod'.phase \in {"hot", "enqueue"} => queue' = {} /\ log' = Absent /\ Behind(prod.d)'
      BY <1>1, <1>2, <1>4 DEF Line, Behind
    <2>2. log' # Absent => queue' = {} /\ Behind(log)'
      BY <1>1, <1>2, <1>4 DEF Line, Behind
    <2>3. \A m, k \in queue' : m = k
      BY <1>1, <1>2 DEF Line
    <2>4. \A m \in queue' : Beneath(m)'
      BY <1>1, <1>2, <1>3 DEF Line, Beneath
    <2> QED
      BY <2>1, <2>2, <2>3, <2>4 DEF Line
  <1>6. \A w \in Slots : work'[w].msg # Absent => work'[w].msg = work[w].msg
    BY <1>1 DEF CalmHands
  <1>7. \A w \in Slots : work'[w].pc \in {"store", "retain"} => work'[w] = work[w]
    BY <1>1 DEF CalmHands
  <1>8. \A w \in Slots : work[w].pc = "retain" => work[w].mode # "quarantine"
    BY <1>2 DEF Hands
  <1>9. "quarantine" \notin retained'
    BY <1>1, <1>2, <1>8 DEF Retains, Hands
  <1>10. Hands'
    <2>1. \A w \in Slots : work'[w].msg # Absent => work'[w].msg \in queue'
      BY <1>1, <1>2, <1>6 DEF Hands
    <2>2. \A v, w \in Slots : work'[v].msg # Absent /\ work'[w].msg # Absent => v = w
      BY <1>2, <1>6 DEF Hands
    <2>3. \A w \in Slots : work'[w].pc = "store" => work'[w].msg.receives > 0
      BY <1>2, <1>7 DEF Hands
    <2>4. \A w \in Slots : work'[w].pc = "retain" => work'[w].mode # "quarantine"
      BY <1>7, <1>8
    <2> QED
      BY <1>9, <2>1, <2>2, <2>3, <2>4 DEF Hands
  <1> QED
    BY <1>5, <1>10

\* a write of the row is made with what the producer has,
LEMMA CopyWritten == ASSUME Base, OneCopy, WriteRow PROVE OneCopy'
  <1> SUFFICES ASSUME prod'.twice = FALSE PROVE Line' /\ Hands'
    BY DEF OneCopy
  <1>1. PICK d : d = StartAttempt(prod.d, prod.n > 1)
    OBVIOUS
  <1>2. /\ prod.phase = "hot" /\ UNCHANGED <<queue, log, work, retained>>
        /\ late' \subseteq late \cup {d} /\ row' \in {row, Stored(row, d)}
        /\ prod'.twice = prod.twice
        /\ prod'.phase = "done" \/ ProducerFails(d)
    BY <1>1, WriteRowIs
  <1>3. Line /\ Hands /\ queue = {} /\ log = Absent /\ Behind(prod.d)
    BY <1>2 DEF OneCopy, Line
  <1>4. /\ d \in Deliveries /\ Failed(d) \in Deliveries /\ prod.d \in Deliveries
        /\ SLe(prod.d, Failed(d)) /\ SLe(d, Failed(d))
    BY <1>1, AttemptFacts, ProdFacts
  <1>5. Hands'
    BY <1>2, <1>3 DEF Hands
  <1>6. ASSUME ProducerFails(d) PROVE Behind(prod.d)'
    <2>1. prod'.d = Failed(d)
      BY <1>6, ProducerFailsIs
    <2>2. ASSUME NEW e \in late' PROVE SLe(e, Failed(d))
      <3>1. CASE e = d
        BY <1>4, <3>1
      <3>2. CASE e \in late
        <4>1. e \in Deliveries /\ SLe(e, prod.d)
          BY <1>3, <3>2 DEF Behind, Base, Typed
        <4> QED
          BY <1>4, <4>1, SLeTransitive
      <3> QED
        BY <1>2, <2>2, <3>1, <3>2
    <2>3. ASSUME row' # Absent PROVE SLe(row'.source, Failed(d))
      <3>1. CASE row # Absent /\ row'.source = row.source
        <4>1. row.source \in Deliveries /\ SLe(row.source, prod.d)
          BY <1>3, <3>1, SourceFacts DEF Behind
        <4> QED
          BY <1>4, <3>1, <4>1, SLeTransitive
      <3>2. CASE row'.source = d
        BY <1>4, <3>2
      <3> QED
        BY <1>2, <1>4, <2>3, <3>1, <3>2, SourceAfter
    <2> QED
      BY <2>1, <2>2, <2>3 DEF Behind
  <1>7. Line'
    BY <1>2, <1>3, <1>6 DEF Line
  <1> QED
    BY <1>5, <1>7

\* an accepted send moves the record to the queue, a failed one to the next attempt or the log,
LEMMA CopySent == ASSUME Base, OneCopy, Enqueue PROVE OneCopy'
  <1> SUFFICES ASSUME prod'.twice = FALSE PROVE Line' /\ Hands'
    BY DEF OneCopy
  <1>1. PICK d : d = StartAttempt(prod.d, prod.n > 1)
    OBVIOUS
  <1>2. PICK c : c = Copy(prod.n, d)
    OBVIOUS
  <1>3. /\ prod.phase = "enqueue" /\ UNCHANGED <<late, row, work, retained>>
        /\ prod.twice => prod'.twice
        /\ \/ queue' = queue \cup {c} /\ prod'.phase = "done" /\ log' = log
           \/ /\ queue' = queue /\ prod'.d = Failed(d)
              /\ \/ log' = log
                 \/ log' = Failed(d) /\ prod'.phase = "done"
    BY <1>1, <1>2, EnqueueIs
  <1>4. Line /\ Hands /\ queue = {} /\ log = Absent /\ Behind(prod.d)
    <2>1. prod.twice = FALSE
      BY <1>3, ProdFacts
    <2> QED
      BY <1>3, <2>1 DEF OneCopy, Line
  <1>5. /\ d \in Deliveries /\ Failed(d) \in Deliveries /\ prod.d \in Deliveries
        /\ SLe(prod.d, Failed(d)) /\ SLe(prod.d, d)
    BY <1>1, AttemptFacts, ProdFacts
  <1>6. ASSUME NEW e \in {d, Failed(d)}
        PROVE  (\A x \in late' : SLe(x, e)) /\ (row' # Absent => SLe(row'.source, e))
    <2>1. e \in Deliveries /\ SLe(prod.d, e)
      BY <1>5
    <2>2. ASSUME NEW x \in late' PROVE SLe(x, e)
      <3>1. x \in Deliveries /\ SLe(x, prod.d)
        BY <1>3, <1>4 DEF Behind, Base, Typed
      <3> QED
        BY <1>5, <2>1, <3>1, SLeTransitive
    <2>3. ASSUME row' # Absent PROVE SLe(row'.source, e)
      <3>1. row' = row /\ row.source \in Deliveries /\ SLe(row.source, prod.d)
        BY <1>3, <1>4, <2>3, SourceFacts DEF Behind
      <3> QED
        BY <1>5, <2>1, <3>1, SLeTransitive
    <2> QED
      BY <2>2, <2>3
  <1>7. \A w \in Slots : work'[w].msg = Absent
    BY <1>3, <1>4 DEF Hands
  <1>8. Hands'
    <2>1. \A w \in Slots : work'[w].pc = "store" => work'[w].msg.receives > 0
      BY <1>3, <1>4 DEF Hands
    <2>2. /\ \A w \in Slots : work'[w].pc = "retain" => work'[w].mode # "quarantine"
          /\ "quarantine" \notin retained'
      BY <1>3, <1>4 DEF Hands
    <2> QED
      BY <1>7, <2>1, <2>2 DEF Hands
  <1>9. Line'
    <2>1. CASE queue' = {c} /\ prod'.phase = "done" /\ log' = Absent
      <3>1. Beneath(c)'
        BY <1>2, <1>6 DEF Beneath, Copy
      <3> QED
        BY <2>1, <3>1 DEF Line
    <2>2. CASE queue' = {} /\ prod'.d = Failed(d) /\ log' = Absent
      <3>1. Behind(prod.d)'
        BY <1>6, <2>2 DEF Behind
      <3> QED
        BY <2>2, <3>1 DEF Line
    <2>3. CASE queue' = {} /\ log' = Failed(d) /\ prod'.phase = "done"
      <3>1. Behind(log)'
        BY <1>6, <2>3 DEF Behind
      <3> QED
        BY <2>3, <3>1 DEF Line
    <2> QED
      BY <1>3, <1>4, <2>1, <2>2, <2>3
  <1> QED
    BY <1>8, <1>9

\* a late write is behind the copy,
LEMMA CopyLate == ASSUME Base, OneCopy, LateWrite PROVE OneCopy'
  <1> SUFFICES ASSUME prod'.twice = FALSE PROVE Line' /\ Hands'
    BY DEF OneCopy
  <1>1. PICK d \in late : late' = late \ {d} /\ row' = IF row = Absent THEN NewRow(d) ELSE row
    BY DEF LateWrite
  <1>2. UNCHANGED <<prod, queue, log, work, retained>>
    BY DEF LateWrite
  <1>3. Line /\ Hands
    BY <1>2 DEF OneCopy
  <1>4. d \in Deliveries
    BY DEF Base, Typed
  <1>5. row' # Absent => (row # Absent /\ row' = row) \/ row'.source = d
    BY <1>1, <1>4, NewRowFacts
  <1>6. ASSUME NEW e, Behind(e) PROVE Behind(e)'
    BY <1>1, <1>5, <1>6 DEF Behind
  <1>7. ASSUME NEW m, Beneath(m) PROVE Beneath(m)'
    BY <1>1, <1>5, <1>7 DEF Beneath
  <1>8. (Behind(prod.d) => Behind(prod.d)') /\ (Behind(log) => Behind(log)')
    BY <1>1, <1>2, <1>5 DEF Behind
  <1>9. Line'
    BY <1>2, <1>3, <1>7, <1>8 DEF Line
  <1>10. Hands'
    BY <1>2, <1>3 DEF Hands
  <1> QED
    BY <1>9, <1>10

\* a replay waits until nothing else is under way,
LEMMA CopyReplayed == ASSUME Base, OneCopy, Replay PROVE OneCopy'
  <1> SUFFICES ASSUME prod'.twice = FALSE PROVE Line' /\ Hands'
    BY DEF OneCopy
  <1>1. PICK c : c = Copy(9, log)
    OBVIOUS
  <1>2. /\ log # Absent /\ prod.phase # "enqueue" /\ queue = {}
        /\ queue' = {c} /\ c.d = log /\ log' = Absent /\ UNCHANGED <<prod, late, row, work, retained>>
    BY <1>1, ReplayIs
  <1>3. Line /\ Hands
    BY <1>2 DEF OneCopy
  <1>4. Behind(log) /\ prod.phase \notin {"hot", "enqueue"}
    BY <1>2, <1>3 DEF Line
  <1>5. Beneath(c)'
    BY <1>2, <1>4 DEF Behind, Beneath
  <1>6. Line'
    BY <1>2, <1>4, <1>5 DEF Line
  <1>7. \A w \in Slots : work'[w].msg = Absent
    BY <1>2, <1>3 DEF Hands
  <1>8. Hands'
    <2>1. /\ \A w \in Slots : work'[w].pc = "store" => work'[w].msg.receives > 0
          /\ \A w \in Slots : work'[w].pc = "retain" => work'[w].mode # "quarantine"
          /\ "quarantine" \notin retained'
      BY <1>2, <1>3 DEF Hands
    <2> QED
      BY <1>7, <2>1 DEF Hands
  <1> QED
    BY <1>6, <1>8

\* a receive takes the copy that nobody else holds,
LEMMA CopyBegins == ASSUME Base, OneCopy, NEW w \in Slots, BeginIngress(w) PROVE OneCopy'
  <1> SUFFICES ASSUME prod'.twice = FALSE PROVE Line' /\ Hands'
    BY DEF OneCopy
  <1>1. PICK m \in queue, r \in Messages :
           /\ r.d = m.d /\ r.receives = m.receives + 1 /\ r = AtReceive(m, m.receives + 1)
           /\ queue' = (queue \ {m}) \cup {r}
           /\ \A v \in Slots : work[v].msg # Absent => work[v].msg.id # m.id
           /\ work'[w].pc = "store" /\ work'[w].msg = r
           /\ \A v \in Slots : v # w => work'[v] = work[v]
           /\ UNCHANGED <<prod, late, log, row, retained>>
    BY CopyHandedOut
  <1>2. Line /\ Hands
    BY <1>1 DEF OneCopy
  <1>3. prod.phase \notin {"hot", "enqueue"} /\ log = Absent /\ queue = {m} /\ Beneath(m)
    BY <1>2, CopyThere
  <1>4. queue' = {r}
    BY <1>1, <1>3
  <1>5. m \in Messages /\ m.receives \in Nat
    BY KeptFacts, MessageFacts
  <1>6. \A v \in Slots : work[v].msg = Absent
    BY <1>1, <1>2, <1>3 DEF Hands
  <1>7. Beneath(r)'
    <2>1. \A e \in late' : SLe(e, r.d)
      BY <1>1, <1>3 DEF Beneath
    <2>2. ASSUME row' # Absent, ~SLe(row.source, r.d)
          PROVE  \E c \in 1..r.receives : row.source = Received(AtReceive(r, c))
      <3>1. PICK c \in 1..m.receives : row.source = Received(AtReceive(m, c))
        BY <1>1, <1>3, <2>2 DEF Beneath
      <3>2. AtReceive(r, c) = AtReceive(m, c)
        BY <1>1, <1>5 DEF AtReceive, Messages
      <3>3. c \in 1..r.receives
        BY <1>1, <1>5
      <3> QED
        BY <3>1, <3>2, <3>3
    <2> QED
      BY <1>1, <2>1, <2>2 DEF Beneath
  <1>8. Line'
    BY <1>1, <1>3, <1>4, <1>7 DEF Line
  <1>9. Hands'
    <2>1. \A v \in Slots : v # w => work'[v].msg = Absent
      BY <1>1, <1>6
    <2>2. \A v \in Slots : work'[v].pc = "store" => work'[v].msg.receives > 0
      <3>1. r.receives > 0
        BY <1>1, <1>5
      <3> QED
        BY <1>1, <1>2, <3>1 DEF Hands
    <2>3. \A v \in Slots : work'[v].pc = "retain" => work'[v].mode # "quarantine"
      BY <1>1, <1>2 DEF Hands
    <2>4. "quarantine" \notin retained'
      BY <1>1, <1>2 DEF Hands
    <2> QED
      BY <1>1, <1>4, <2>1, <2>2, <2>3, <2>4 DEF Hands
  <1> QED
    BY <1>8, <1>9

\* a store continues what the receives before it stored,
LEMMA CopyStored == ASSUME Base, Fits, OneCopy, NEW w \in Slots, Store(w) PROVE OneCopy'
  <1> SUFFICES ASSUME prod'.twice = FALSE PROVE Line' /\ Hands'
    BY DEF OneCopy
  <1>1. PICK m \in Messages : m = work[w].msg
    BY StoreIs
  <1>2. /\ work[w].pc = "store"
        /\ row' \in {row, Stored(row, Received(m))}
        /\ work'[w].msg = m /\ work'[w].pc # "store"
        /\ work'[w].pc = "retain" /\ work'[w].mode = "quarantine" => Divergent(row, Received(m))
        /\ \A v \in Slots : v # w => work'[v] = work[v]
        /\ UNCHANGED <<prod, late, queue, log, retained>>
    BY <1>1, StoreIs
  <1>3. Line /\ Hands
    BY <1>2 DEF OneCopy
  <1>4. m \in queue /\ m.receives > 0
    BY <1>1, <1>2, <1>3, MessageFacts DEF Hands
  <1>5. prod.phase \notin {"hot", "enqueue"} /\ log = Absent /\ queue = {m} /\ Beneath(m)
    BY <1>3, <1>4, CopyThere
  <1>6. ~Divergent(row, Received(m))
    BY <1>4, <1>5, BeneathMerges DEF Fits
  <1>7. Beneath(m)'
    <2>1. \A e \in late' : SLe(e, m.d)
      BY <1>2, <1>5 DEF Beneath
    <2>2. ASSUME row' # Absent, ~SLe(row'.source, m.d)
          PROVE  \E c \in 1..m.receives : row'.source = Received(AtReceive(m, c))
      <3>1. CASE row # Absent /\ row'.source = row.source
        BY <1>5, <2>2, <3>1 DEF Beneath
      <3>2. CASE row'.source = Received(m)
        <4>1. m.receives \in 1..m.receives /\ AtReceive(m, m.receives) = m
          BY <1>4, MessageFacts, AtReceiveFacts
        <4> QED
          BY <3>2, <4>1
      <3>3. Received(m) \in Deliveries
        BY ReceivedFacts DEF Base
      <3> QED
        BY <1>2, <2>2, <3>1, <3>2, <3>3, SourceAfter
    <2> QED
      BY <2>1, <2>2 DEF Beneath
  <1>8. Line'
    BY <1>2, <1>5, <1>7 DEF Line
  <1>9. Hands'
    <2>1. \A v \in Slots : work'[v].msg = work[v].msg
      BY <1>1, <1>2
    <2>2. \A v \in Slots : work'[v].pc = "store" => work'[v] = work[v]
      BY <1>2
    <2>3. \A v \in Slots : work'[v].pc = "retain" => work'[v].mode # "quarantine"
      BY <1>2, <1>3, <1>6 DEF Hands
    <2> QED
      BY <1>2, <1>3, <2>1, <2>2, <2>3 DEF Hands
  <1> QED
    BY <1>8, <1>9

\* and who ends takes its own copy or none.
LEMMA CopyEnds == ASSUME Base, OneCopy, NEW w \in Slots, Return(w) \/ Crash(w) PROVE OneCopy'
  <1> SUFFICES ASSUME prod'.twice = FALSE PROVE Line' /\ Hands'
    BY DEF OneCopy
  <1>1. /\ queue' \in {queue, queue \ {work[w].msg}}
        /\ work'[w].pc = "idle" /\ work'[w].msg = Absent
        /\ \A v \in Slots : v # w => work'[v] = work[v]
        /\ UNCHANGED <<prod, late, log, row, retained>>
    BY CopyReturned
  <1>2. Line /\ Hands
    BY <1>1 DEF OneCopy
  <1>3. queue' \subseteq queue
    BY <1>1
  <1>4. Line'
    <2>1. prod'.phase \in {"hot", "enqueue"} => queue' = {} /\ log' = Absent /\ Behind(prod.d)'
      BY <1>1, <1>2, <1>3 DEF Line, Behind
    <2>2. log' # Absent => queue' = {} /\ Behind(log)'
      BY <1>1, <1>2, <1>3 DEF Line, Behind
    <2>3. \A m, k \in queue' : m = k
      BY <1>2, <1>3 DEF Line
    <2>4. \A m \in queue' : Beneath(m)'
      BY <1>1, <1>2, <1>3 DEF Line, Beneath
    <2> QED
      BY <2>1, <2>2, <2>3, <2>4 DEF Line
  <1>5. ASSUME NEW v \in Slots, work'[v].msg # Absent PROVE work'[v].msg \in queue'
    <2>1. v # w /\ work'[v] = work[v] /\ work[v].msg \in queue
      BY <1>1, <1>2, <1>5 DEF Hands
    <2>2. work[w].msg = Absent
      BY <1>2, <1>5, <2>1 DEF Hands
    <2> QED
      BY <1>1, <1>5, <2>1, <2>2
  <1>6. Hands'
    <2>1. \A u, v \in Slots : work'[u].msg # Absent /\ work'[v].msg # Absent => u = v
      BY <1>1, <1>2 DEF Hands
    <2>2. \A v \in Slots : work'[v].pc = "store" => work'[v].msg.receives > 0
      BY <1>1, <1>2 DEF Hands
    <2>3. \A v \in Slots : work'[v].pc = "retain" => work'[v].mode # "quarantine"
      BY <1>1, <1>2 DEF Hands
    <2>4. "quarantine" \notin retained'
      BY <1>1, <1>2 DEF Hands
    <2> QED
      BY <1>5, <2>1, <2>2, <2>3, <2>4 DEF Hands
  <1> QED
    BY <1>4, <1>6

\* So there is one copy, as long as no send was answered by an error and made.
LEMMA OneCopyKept ==
    ASSUME Base, Base', Effects, Fits, OneCopy, [NextEvent]_eventVars
    PROVE  OneCopy'
  <1>1. CASE UNCHANGED eventVars
    <2>1. UNCHANGED <<prod, late, queue, log, row, work, retained>>
      BY <1>1 DEF eventVars
    <2>2. Calm
      BY <2>1 DEF Calm, CalmRow, CalmHands, Retains
    <2> QED
      BY <2>2, CopyCalm
  <1>2. CASE ProducerDies
    <2>1. prod'.phase = "dead" /\ prod'.twice = prod.twice
      BY <1>2, ProdFacts DEF ProducerDies
    <2>2. UNCHANGED <<late, queue, log, row, work, retained>>
      BY <1>2 DEF ProducerDies
    <2> QED
      BY <2>1, <2>2 DEF OneCopy, Line, Hands, Behind, Beneath
  <1>3. CASE Calm
    BY <1>3, CopyCalm
  <1> QED
    BY <1>1, <1>2, <1>3, CopyWritten, CopySent, CopyLate, CopyReplayed, CopyBegins, CopyStored, CopyEnds,
       StillCalm, BeginCalm, DeliverCalm, MarkCalm, LeaseCalm, ArchiveCalm, QuarantineCalm
       DEF NextEvent, Producer, Begin, ArchiveStep

-----------------------------------------------------------------------------
\* An attempt that is no retry.
LEMMA FirstAttempt ==
    ASSUME NEW d \in Deliveries, NEW e, e = StartAttempt(d, FALSE)
    PROVE  e \in Deliveries /\ Len(e.history) = Len(d.history) + 1 /\ Le(d, e)
  <1>1. PICK no \in BOOLEAN : ~no
    OBVIOUS
  <1>2. e = StartAttempt(d, no)
    BY <1>1
  <1> QED
    BY <1>1, <1>2, StartFacts

\* At first the record is in one place and short.
LEMMA StartsOnce ==
    ASSUME BoundsAssumption, HistoryAssumption, InitEvent
    PROVE  Fits /\ OneCopy
  <1>1. PICK first : first = StartAttempt(Pending, FALSE)
    BY Zenon
  <1>2. PICK second : second = StartAttempt(Failed(first), FALSE)
    BY Zenon
  <1>3. PICK c : c = [id |-> 1, d |-> second, attempts |-> 0, receives |-> 0]
    OBVIOUS
  <1>4. Pending \in Deliveries /\ Len(Pending.history) = 1
    BY PendingFacts
  <1>5. first \in Deliveries /\ Len(first.history) = 2
    <2>1. first \in Deliveries /\ Len(first.history) = Len(Pending.history) + 1
      BY <1>1, <1>4, FirstAttempt, Zenon
    <2> QED
      BY <1>4, <2>1
  <1>6. Failed(first) \in Deliveries /\ Len(Failed(first).history) = 3 /\ Le(first, Failed(first))
    <2>1. /\ Failed(first) \in Deliveries /\ Le(first, Failed(first))
          /\ Len(Failed(first).history) = Len(first.history) + 1
      BY <1>5, FailedFacts
    <2> QED
      BY <1>5, <2>1
  <1>7. second \in Deliveries /\ Len(second.history) = 4 /\ Le(Failed(first), second)
    <2>1. /\ second \in Deliveries /\ Le(Failed(first), second)
          /\ Len(second.history) = Len(Failed(first).history) + 1
      BY <1>2, <1>6, FirstAttempt, Zenon
    <2> QED
      BY <1>6, <2>1
  <1>8. SLe(first, second)
    BY <1>5, <1>6, <1>7, LeIsSLe, SLeTransitive
  <1>9. /\ HotAttempts \in Nat /\ HotAttempts > 0 /\ EnqueueAttempts \in Nat /\ EnqueueAttempts > 0
        /\ HistoryLimit \in Nat /\ 3 * (HotAttempts + EnqueueAttempts) - 1 <= HistoryLimit
    BY DEF BoundsAssumption, HistoryAssumption
  <1>10. /\ 1 \in 1..HotAttempts /\ 1 \in 1..EnqueueAttempts /\ 1 <= 3 * HotAttempts
         /\ 4 <= HistoryLimit /\ 1 <= HistoryLimit /\ ~(1 > 1)
    BY <1>9
  <1>11. /\ prod.phase = (IF Start = "batch" THEN "enqueue"
                          ELSE IF Start = "hot" THEN "hot" ELSE "done")
         /\ prod.n = 1 /\ prod.d = Pending
         /\ Start = "batch" => prod.twice
    BY DEF InitEvent
  <1>12. /\ late = {} /\ retained = {} /\ log = IF Start = "batch" THEN Pending ELSE Absent
         /\ queue = (IF Start = "stored" THEN {c} ELSE {})
         /\ row = (IF Start = "stored" THEN NewRow(first) ELSE Absent)
    BY <1>1, <1>2, <1>3 DEF InitEvent
  <1>13. \A w \in Slots : work[w].pc = "idle" /\ work[w].msg = Absent
    BY DEF InitEvent, IdleSlot
  <1>14. Fits
    <2>1. log # Absent => log = Pending
      BY <1>12
    <2>2. \A m \in queue : m.d = second
      BY <1>3, <1>12
    <2> QED
      BY <1>4, <1>7, <1>10, <1>11, <2>1, <2>2 DEF Fits
  <1>15. ASSUME prod.twice = FALSE PROVE Line /\ Hands
    <2>1. Start # "batch" /\ log = Absent
      BY <1>11, <1>12, <1>15
    <2>2. Hands
      BY <1>12, <1>13 DEF Hands
    <2>3. CASE Start = "stored"
      <3>1. row = NewRow(first) /\ row.source = first
        BY <1>5, <1>12, <2>3, NewRowFacts
      <3>2. Beneath(c)
        BY <1>3, <1>8, <1>12, <3>1 DEF Beneath
      <3>3. prod.phase = "done" /\ queue = {c}
        BY <1>11, <1>12, <2>3
      <3> QED
        BY <2>1, <2>2, <3>2, <3>3 DEF Line
    <2>4. CASE Start # "stored"
      <3>1. queue = {} /\ row = Absent /\ late = {}
        BY <1>12, <2>4
      <3> QED
        BY <2>1, <2>2, <3>1 DEF Line, Behind
    <2> QED
      BY <2>2, <2>3, <2>4
  <1> QED
    BY <1>14, <1>15 DEF OneCopy

\* What is known of every state, whatever the leases did.
Standing ==
    /\ Base /\ Kept /\ Announced /\ Chain /\ Replacing /\ SameStatus /\ OneDriver
    /\ Committing /\ Fits /\ OneCopy

\* This holds at first, and every step keeps it.
LEMMA StandingStarts == ASSUME BoundsAssumption, HistoryAssumption, InitEvent PROVE Standing
  BY Starts, StartsOnce DEF Standing

LEMMA StandingStays == ASSUME HistoryAssumption, Standing, [NextEvent]_eventVars PROVE Standing'
  <1>1. Base' /\ Effects
    BY BaseKept, NextStep DEF Standing, StepFacts
  <1>2. OneDriver'
    BY <1>1, OneTaskKept, ClosedKept DEF Standing, OneDriver
  <1> QED
    BY <1>1, <1>2, KeptStays, AnnouncedKept, ChainKept, ReplacingKept, SameStatusKept,
       CommittingKept, FitsKept, OneCopyKept DEF Standing

\* The record is durable, its copies merge, no archiver meets an object it cannot compare, and
\* it is given up only after somebody was told.
RecordIsKept == EventIsDurable /\ CopiesMerge /\ NeverDivergent /\ DeadLetterIsAnnounced

\* It is what is promised of the record.
LEMMA StandingIsKept == ASSUME Standing PROVE RecordIsKept
  <1>1. CopiesMerge
    <2>1. prod.twice \in BOOLEAN
      BY ProdFacts DEF Standing
    <2> QED
      BY <2>1 DEF Standing, OneCopy, Hands, CopiesMerge
  <1> QED
    BY <1>1, ChainCompares DEF Standing, Kept, Announced, RecordIsKept

\* With one redrive at a time, the archived row stays exact as well.
LEMMA ExactStays ==
    ASSUME HistoryAssumption, Standing, Loading, ArchivedIsExact, OneRedrive, [NextEvent]_eventVars
    PROVE  Loading' /\ ArchivedIsExact'
  <1>1. Base' /\ Effects
    BY BaseKept, NextStep DEF Standing, StepFacts
  <1> QED
    BY <1>1, LoadingKept, ExactKept DEF Standing

\* An event that was recorded stays recorded, through every failure and every death of the
\* producer and of the archiver.
THEOREM RecordStaysKept ==
    ASSUME BoundsAssumption, HistoryAssumption
    PROVE  EventSpec => []RecordIsKept
  <1>1. InitEvent => Standing
    BY StandingStarts
  <1>2. Standing /\ [NextEvent]_eventVars => Standing'
    BY StandingStays
  <1>3. Standing => RecordIsKept
    BY StandingIsKept
  <1> QED
    BY <1>1, <1>2, <1>3, PTL DEF EventSpec

\* And where no two invocations redrive it at once, the row and the object of an archived
\* event are one as well (EventIsKept).
THEOREM EventStaysKept ==
    ASSUME BoundsAssumption, HistoryAssumption
    PROVE  EventSpec /\ []OneRedrive => []EventIsKept
  <1>1. InitEvent => Standing /\ Loading /\ ArchivedIsExact
    BY StandingStarts, Starts
  <1>2. Standing /\ Loading /\ ArchivedIsExact /\ OneRedrive /\ [NextEvent]_eventVars
          => (Standing /\ Loading /\ ArchivedIsExact)'
    BY StandingStays, ExactStays
  <1>3. Standing /\ ArchivedIsExact => EventIsKept
    BY StandingIsKept DEF EventIsKept, RecordIsKept
  <1> QED
    BY <1>1, <1>2, <1>3, PTL DEF EventSpec

\* The object of an event is only ever replaced by one that knows more (ObjectNeverRegresses).
THEOREM ObjectsOnlyAdvance ==
    ASSUME BoundsAssumption
    PROVE  EventSpec => ObjectNeverRegresses
  <1>1. InitEvent => Base /\ Replacing
    BY Starts
  <1>2. Base /\ Replacing /\ [NextEvent]_eventVars => (Base /\ Replacing)'
    BY BaseKept, NextStep, ReplacingKept DEF StepFacts
  <1>3. Base /\ Replacing /\ [NextEvent]_eventVars =>
           [object # Absent => object' = object \/ Dominates(object', object)]_eventVars
    BY NextStep, ObjectStep DEF StepFacts
  <1> QED
    BY <1>1, <1>2, <1>3, PTL DEF EventSpec, ObjectNeverRegresses
=============================================================================
