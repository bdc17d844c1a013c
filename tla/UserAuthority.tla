---------------------------- MODULE UserAuthority ----------------------------
(***************************************************************************)
(* What a user may log in with, and which sessions still speak for the     *)
(* user (crates/http/src: user_gate.rs, user_lifecycle.rs, login.rs,       *)
(* password_login.rs, passkey_flow.rs, recover.rs, account_credentials.rs, *)
(* admin.rs; adapters/aws: users.rs, credential_authority.rs).             *)
(*                                                                         *)
(* Every change of a credential raises the user's credential epoch and     *)
(* holds the user row (revocation_pending) until it commits.  A gate that  *)
(* finds the row held for longer than CREDENTIAL_CHANGE_LEASE_SECS frees   *)
(* it, whether its owner has crashed or is only slow.  Sessions carry the  *)
(* epoch they were issued in and are checked against the user row on every *)
(* use; deleting them is cleanup, and misses what the index does not show  *)
(* yet.                                                                    *)
(*                                                                         *)
(* The session store's generation is kept as the flag "cur" of a session:  *)
(* it is compared for equality only.                                       *)
(***************************************************************************)
EXTENDS Naturals, FiniteSets

CONSTANTS
    Sessions,    \* logins, and the session each one may create
    Keys,        \* passkeys
    Changes,     \* self-service changes of a credential
    Admins,      \* administrator password resets
    Lifecycle,   \* administrator disables and enables
    Enrolled,    \* versions the password may start with: 0 for none, 1 for one
    MaxCodes,    \* recovery codes in a set
    MaxEpoch,    \* bound: credential epoch
    None         \* no operation

UserAssumption ==
    /\ MaxCodes \in Nat /\ MaxEpoch \in Nat /\ Enrolled \subseteq 0..1
    /\ None \notin Changes \cup Admins

VARIABLES
    user,      \* the user row
    password,  \* the password row; version 0 when there is none
    keys,      \* passkeys
    codes,     \* unconsumed recovery codes
    ses,       \* logins and sessions
    chg,       \* self-service changes
    adm,       \* administrator resets
    life       \* disables and enables

vars == <<user, password, keys, codes, ses, chg, adm, life>>

Ops == Changes \cup Admins
Epochs == 0..MaxEpoch
\* A version needs an epoch of its own, except when a temporary password is replaced.
MaxVersion == 2 * MaxEpoch + 1
Kinds == {"password", "passkey", "recovery"}

TypeOK ==
    /\ user \in [status : {"active", "disabled"}, epoch : Epochs, pend : BOOLEAN,
                 op : Ops \cup {None}, aged : BOOLEAN]
    /\ password \in [ver : 0..MaxVersion, temp : BOOLEAN, pend : BOOLEAN, op : Admins \cup {None}]
    /\ keys \in [Keys -> {"none", "live", "gone"}]
    /\ codes \in 0..MaxCodes
    /\ \A s \in Sessions :
          /\ ses[s].pc \in {"idle", "temp", "auth", "epoch", "made", "gated", "recover", "given", "over"}
          /\ ses[s].by \in Kinds \cup {"none", "email"} /\ ses[s].cred \in Keys \cup 0..MaxVersion
          /\ ses[s].epoch \in Epochs
          /\ <<ses[s].row, ses[s].cur, ses[s].old>> \in BOOLEAN \X BOOLEAN \X BOOLEAN
    /\ \A t \in Changes :
          /\ chg[t].pc \in {"idle", "checked", "begun", "fenced", "sure", "over"}
          /\ chg[t].kind \in Kinds \cup {"none"} /\ chg[t].ses \in Sessions \cup {None}
          /\ chg[t].cred \in Keys \cup 0..MaxVersion /\ chg[t].epoch \in Epochs
    /\ \A a \in Admins :
          /\ adm[a].pc \in {"idle", "record", "takeover", "fresh", "resume", "stage", "revoke",
                            "complete", "over"}
          /\ adm[a].epoch \in Epochs /\ adm[a].pend \in BOOLEAN
          /\ adm[a].ver \in 0..MaxVersion /\ adm[a].op \in Admins
    /\ life \in [Lifecycle -> [pc : {"idle", "cascade", "en_cascade", "complete", "en_complete",
                                     "enable", "over"}, epoch : Epochs]]

-----------------------------------------------------------------------------
\* Initial states

NewLogin == [pc |-> "idle", by |-> "none", cred |-> 0, epoch |-> 0,
             row |-> FALSE, cur |-> FALSE, old |-> FALSE]

\* A session handed out in epoch 0; old if the account was disabled after it.
Issued(old, ver) == [NewLogin EXCEPT !.pc = "given", !.cred = ver,
                                     !.by = IF ver > 0 THEN "password" ELSE "email",
                                     !.row = TRUE, !.cur = TRUE, !.old = old]

\* An account in use.  A release without epochs disabled users in epoch 0 and left
\* their sessions to the cleanup.
Init ==
    /\ \E ver \in Enrolled : password = [ver |-> ver, temp |-> FALSE, pend |-> FALSE, op |-> None]
    /\ \E status \in {"active", "disabled"} :
          /\ user = [status |-> status, epoch |-> 0, pend |-> FALSE, op |-> None, aged |-> FALSE]
          /\ \E S \in SUBSET Sessions :
                /\ Cardinality(S) <= 1
                /\ ses = [s \in Sessions |-> IF s \in S THEN Issued(status = "disabled", password.ver)
                                                        ELSE NewLogin]
    /\ \E K \in SUBSET Keys : keys = [k \in Keys |-> IF k \in K THEN "live" ELSE "none"]
    /\ codes \in 0..MaxCodes
    /\ chg = [t \in Changes |-> [pc |-> "idle", kind |-> "none", ses |-> None, cred |-> 0, epoch |-> 0]]
    /\ adm = [a \in Admins |-> [pc |-> "idle", epoch |-> 0, pend |-> FALSE, ver |-> 0, op |-> a]]
    /\ life = [l \in Lifecycle |-> [pc |-> "idle", epoch |-> 0]]

-----------------------------------------------------------------------------
\* The user row

\* begin_credential_change and begin_admin_credential_change raise the epoch and hold the row.
Held(epoch, op) == [user EXCEPT !.epoch = epoch, !.pend = TRUE, !.op = op, !.aged = FALSE]

\* complete_, abort_ and recover_: the row is free again, in the same epoch.
Freed == [user EXCEPT !.pend = FALSE, !.op = None, !.aged = FALSE]

\* A completion looks at the epoch only.
OwnsByEpochOnly(op, epoch) == user.status = "active" /\ user.epoch = epoch

\* The condition of credential_change_completion_update and complete_credential_change.
Owns(op, epoch) ==
    user.status = "active" /\ user.pend /\ user.epoch = epoch /\ user.op = op

\* The condition of stage_, complete_ and abort_admin: a disabled user's password is reset too.
OwnsAsAdmin(op, epoch) == user.pend /\ user.epoch = epoch /\ user.op = op

\* The gate never frees a row.
GatePassesNeverFrees == user.status = "active" /\ ~user.pend

\* active_canonical_user_epoch_with_missing lets a request pass, and frees a row whose
\* lease is over (recover_expired_credential_change).
GatePasses == user.status = "active" /\ (user.pend => user.aged)
AfterGate == IF user.pend THEN Freed ELSE user

\* require_password_change_complete, permits_recovered_session.
PasswordSettled == ~password.temp /\ ~password.pend

\* validate_session_authority: the session is read in the current generation, the user is
\* active in the session's epoch and owes no password change.
Accepted(s) ==
    /\ ses[s].row /\ ses[s].cur
    /\ GatePasses /\ ses[s].epoch = user.epoch
    /\ PasswordSettled

\* delete_by_user and delete_by_user_before_epoch find sessions through an index that
\* may not show all of them.
Sweep(S) == {[s \in Sessions |-> IF s \in D THEN [ses[s] EXCEPT !.row = FALSE] ELSE ses[s]] :
                D \in SUBSET {s \in S : ses[s].row}}
Before(epoch) == {s \in Sessions : ses[s].epoch < epoch}

\* invalidate_prior_authentication: best effort.
EarlierSwept(epoch) == Sweep(Before(epoch))

\* A new generation: no session written so far is read any more.
NewGeneration(f) == [s \in Sessions |-> [f[s] EXCEPT !.cur = FALSE]]

\* Any request of the user that is not modelled passes the gate too.
Gate ==
    /\ user.pend /\ GatePasses
    /\ user' = AfterGate
    /\ UNCHANGED <<password, keys, codes, ses, chg, adm, life>>

\* CREDENTIAL_CHANGE_LEASE_SECS pass after updated_at.
Age ==
    /\ user.pend /\ ~user.aged
    /\ user' = [user EXCEPT !.aged = TRUE]
    /\ UNCHANGED <<password, keys, codes, ses, chg, adm, life>>

-----------------------------------------------------------------------------
\* Logins

AtLogin(s, from) == ses[s].pc = from
Login(s, r) == ses' = [ses EXCEPT ![s] = r]

\* password_login: authenticate accepts a permanent password of an active user.
PasswordAuthenticate(s) ==
    /\ AtLogin(s, "idle") /\ user.status = "active"
    /\ password.ver > 0 /\ ~password.temp
    /\ Login(s, [ses[s] EXCEPT !.pc = "auth", !.by = "password", !.cred = password.ver])
    /\ UNCHANGED <<user, password, keys, codes, chg, adm, life>>

\* password_change: authenticate with a temporary password, no reset under way.
TemporaryAuthenticate(s) ==
    /\ AtLogin(s, "idle") /\ user.status = "active"
    /\ password.temp /\ ~password.pend
    /\ Login(s, [ses[s] EXCEPT !.pc = "temp", !.by = "password", !.cred = password.ver])
    /\ UNCHANGED <<user, password, keys, codes, chg, adm, life>>

\* replace_if_version_and_temporary.
TemporaryReplace(s) ==
    /\ AtLogin(s, "temp") /\ password.ver = ses[s].cred
    /\ password.temp /\ ~password.pend
    /\ password' = [ver |-> password.ver + 1, temp |-> FALSE, pend |-> FALSE, op |-> None]
    /\ Login(s, [ses[s] EXCEPT !.pc = "auth", !.cred = @ + 1])
    /\ UNCHANGED <<user, keys, codes, chg, adm, life>>

\* authenticate_finish: the assertion of a stored passkey and the CAS on its sign count.
PasskeyAuthenticate(s, k) ==
    /\ AtLogin(s, "idle") /\ keys[k] = "live"
    /\ Login(s, [ses[s] EXCEPT !.pc = "auth", !.by = "passkey", !.cred = k])
    /\ UNCHANGED <<user, password, keys, codes, chg, adm, life>>

\* magic_link_callback: the link is taken (consume_bound) after the user and the password
\* have been looked at.
LinkAuthenticate(s) ==
    /\ AtLogin(s, "idle") /\ GatePasses /\ PasswordSettled
    /\ user' = AfterGate
    /\ Login(s, [ses[s] EXCEPT !.pc = "auth", !.by = "email"])
    /\ UNCHANGED <<password, keys, codes, chg, adm, life>>

\* The session's epoch is read after the credential was verified.
ReadEpoch(s) ==
    /\ AtLogin(s, "auth") /\ GatePasses
    /\ user' = AfterGate
    /\ Login(s, [ses[s] EXCEPT !.pc = "epoch", !.epoch = user.epoch])
    /\ UNCHANGED <<password, keys, codes, chg, adm, life>>

\* sessions.create: in the generation current at the write.
CreateSession(s) ==
    /\ AtLogin(s, "epoch")
    /\ Login(s, [ses[s] EXCEPT !.pc = "made", !.row = TRUE, !.cur = TRUE])
    /\ UNCHANGED <<user, password, keys, codes, chg, adm, life>>

\* establish_local_session reads the user again; authenticate_finish reads the passkey
\* (passkey_snapshot_is_authoritative).
Recheck(s) ==
    /\ AtLogin(s, "made")
    /\ \/ ses[s].by # "passkey" /\ GatePasses /\ user' = AfterGate
       \/ ses[s].by = "passkey" /\ keys[ses[s].cred] = "live" /\ UNCHANGED user
    /\ Login(s, [ses[s] EXCEPT !.pc = "gated"])
    /\ UNCHANGED <<password, keys, codes, chg, adm, life>>

\* Any settled password will do.
SamePasswordAnyVersion(s) == PasswordSettled

\* password_session_allowed: the password that was verified is still the password.
SamePassword(s) == PasswordSettled /\ password.ver = ses[s].cred

\* The last check before the cookie is sent: password_session_allowed,
\* magic_link_session_allowed or validate_existing_session_authority.
HandOut(s) ==
    /\ AtLogin(s, "gated")
    /\ \/ ses[s].by = "password" /\ SamePassword(s) /\ UNCHANGED user
       \/ ses[s].by = "email" /\ PasswordSettled /\ UNCHANGED user
       \/ ses[s].by = "passkey" /\ Accepted(s) /\ user' = AfterGate
    /\ Login(s, [ses[s] EXCEPT !.pc = "given"])
    /\ UNCHANGED <<password, keys, codes, chg, adm, life>>

\* A check fails, a store does, or the handler dies; the session is deleted, or is not.
Refuse(s) ==
    /\ ses[s].pc \in {"temp", "auth", "epoch", "made", "gated", "recover"}
    /\ \E row \in {ses[s].row, FALSE} : Login(s, [ses[s] EXCEPT !.pc = "over", !.row = row])
    /\ UNCHANGED <<user, password, keys, codes, chg, adm, life>>

\* recover reads the codes and the epoch it is to replace.
RecoverRead(s) ==
    /\ AtLogin(s, "idle") /\ codes > 0 /\ GatePasses /\ user.epoch < MaxEpoch
    /\ user' = AfterGate
    /\ Login(s, [ses[s] EXCEPT !.pc = "recover", !.by = "recovery", !.epoch = user.epoch + 1])
    /\ UNCHANGED <<password, keys, codes, chg, adm, life>>

\* verify_and_consume_at_epoch: user, password, codes, generation and session in one
\* transaction; then finish_recovery_side_effects sweeps the earlier sessions.
RecoverCommit(s) ==
    /\ AtLogin(s, "recover") /\ codes > 0
    /\ user.status = "active" /\ ~user.pend /\ user.epoch + 1 = ses[s].epoch
    /\ PasswordSettled
    /\ user' = [user EXCEPT !.epoch = @ + 1]
    /\ codes' = codes - 1
    /\ \E f \in EarlierSwept(user.epoch + 1) :
          ses' = [NewGeneration(f) EXCEPT ![s].pc = "given", ![s].row = TRUE, ![s].cur = TRUE]
    /\ UNCHANGED <<password, keys, chg, adm, life>>


-----------------------------------------------------------------------------
\* Self-service changes, made with a session

LiveKeys == {k \in Keys : keys[k] = "live"}

\* active_password.
PasswordUsable == password.ver > 0 /\ PasswordSettled

\* The passkey to delete counts as another one.
MayDeleteCountsItself(k) == keys[k] = "live"

\* passkey_deletion_state: the target exists, and another passkey, a password or a code is left.
MayDelete(k) ==
    /\ keys[k] = "live"
    /\ LiveKeys \ {k} # {} \/ PasswordUsable \/ codes > 0

\* has_non_recovery_factor.
OtherFactor == PasswordUsable \/ LiveKeys # {}

Change(t, r) == chg' = [chg EXCEPT ![t] = r]

\* require_fresh_session and what each handler reads before it asks for the row.  The epoch
\* test of BeginChange refuses the change when anything moved in between.
StartChange(t, s, kind, k) ==
    /\ chg[t].pc = "idle" /\ ses[s].pc = "given" /\ Accepted(s)
    /\ kind = "passkey" => MayDelete(k)
    /\ kind = "recovery" => (ses[s].by = "recovery" => OtherFactor)
    /\ user' = AfterGate
    /\ Change(t, [pc |-> "checked", kind |-> kind, ses |-> s,
                  cred |-> CASE kind = "password" -> password.ver
                             [] kind = "passkey" -> k
                             [] OTHER -> 0,
                  epoch |-> ses[s].epoch])
    /\ UNCHANGED <<password, keys, codes, ses, adm, life>>

\* begin_credential_change, with the epoch of the session.
BeginChange(t) ==
    /\ chg[t].pc = "checked" /\ user.epoch < MaxEpoch
    /\ user.status = "active" /\ ~user.pend /\ user.epoch = chg[t].epoch
    /\ user' = Held(user.epoch + 1, t)
    /\ Change(t, [chg[t] EXCEPT !.pc = "begun", !.epoch = @ + 1])
    /\ UNCHANGED <<password, keys, codes, ses, adm, life>>

\* revoke_all_by_actor consumes the session and starts a generation;
\* invalidate_prior_authentication sweeps the earlier ones.
ConsumeSession(t) ==
    LET s == chg[t].ses IN
    /\ chg[t].pc = "begun" /\ ses[s].row /\ ses[s].cur
    /\ \E f \in EarlierSwept(chg[t].epoch) :
          ses' = [NewGeneration(f) EXCEPT ![s].row = FALSE]
    /\ Change(t, [chg[t] EXCEPT !.pc = "fenced"])
    /\ UNCHANGED <<user, password, keys, codes, adm, life>>

\* delete_passkey looks again while it holds the row.
RecheckFactors(t) ==
    /\ chg[t].pc = "fenced" /\ chg[t].kind = "passkey" /\ MayDelete(chg[t].cred)
    /\ Change(t, [chg[t] EXCEPT !.pc = "sure"])
    /\ UNCHANGED <<user, password, keys, codes, ses, adm, life>>

\* commit_credential_change of the password store.
CommitPassword(t) ==
    /\ chg[t].pc = "fenced" /\ chg[t].kind = "password" /\ Owns(t, chg[t].epoch)
    /\ password.ver = chg[t].cred /\ (password.ver > 0 => PasswordSettled)
    /\ password' = [ver |-> password.ver + 1, temp |-> FALSE, pend |-> FALSE, op |-> None]
    /\ user' = Freed
    /\ Change(t, [chg[t] EXCEPT !.pc = "over"])
    /\ UNCHANGED <<keys, codes, ses, adm, life>>

\* delete_owned_and_complete.
CommitDelete(t) ==
    /\ chg[t].pc = "sure" /\ Owns(t, chg[t].epoch) /\ keys[chg[t].cred] = "live"
    /\ keys' = [keys EXCEPT ![chg[t].cred] = "gone"]
    /\ user' = Freed
    /\ Change(t, [chg[t] EXCEPT !.pc = "over"])
    /\ UNCHANGED <<password, codes, ses, adm, life>>

\* The new codes are added to the old.
CommitRotationAdds(t) ==
    /\ chg[t].pc = "fenced" /\ chg[t].kind = "recovery" /\ Owns(t, chg[t].epoch)
    /\ codes' = codes + MaxCodes
    /\ user' = Freed
    /\ Change(t, [chg[t] EXCEPT !.pc = "over"])
    /\ UNCHANGED <<password, keys, ses, adm, life>>

\* commit_rotation: a full set of codes.
CommitRotation(t) ==
    /\ chg[t].pc = "fenced" /\ chg[t].kind = "recovery" /\ Owns(t, chg[t].epoch)
    /\ codes' = MaxCodes
    /\ user' = Freed
    /\ Change(t, [chg[t] EXCEPT !.pc = "over"])
    /\ UNCHANGED <<password, keys, ses, adm, life>>

\* abort_credential_mutation after a refusal or an error.
AbortChange(t) ==
    /\ chg[t].pc \in {"begun", "fenced", "sure"}
    /\ user' = IF Owns(t, chg[t].epoch) THEN Freed ELSE user
    /\ Change(t, [chg[t] EXCEPT !.pc = "over"])
    /\ UNCHANGED <<password, keys, codes, ses, adm, life>>

\* The handler dies, or is refused before it holds the row.
CrashChange(t) ==
    /\ chg[t].pc \in {"checked", "begun", "fenced", "sure"}
    /\ Change(t, [chg[t] EXCEPT !.pc = "over"])
    /\ UNCHANGED <<user, password, keys, codes, ses, adm, life>>

\* put_new_authorized: registration only adds a factor and does not hold the row; user,
\* generation and session are conditions of its transaction.
Register(s, k) ==
    /\ ses[s].pc = "given" /\ Accepted(s) /\ ~user.pend
    /\ keys[k] = "none"
    /\ keys' = [keys EXCEPT ![k] = "live"]
    /\ UNCHANGED <<user, password, codes, ses, chg, adm, life>>

-----------------------------------------------------------------------------
\* reset_user_password

Reset(a, r) == adm' = [adm EXCEPT ![a] = r]

\* The user record is read first.
AdminRecord(a) ==
    /\ adm[a].pc = "idle"
    /\ Reset(a, [adm[a] EXCEPT !.pc = "record", !.epoch = user.epoch, !.pend = user.pend])
    /\ UNCHANGED <<user, password, keys, codes, ses, chg, life>>

\* The epoch a resumed reset began in: its row may still be held, or have been freed.
ExpectedEpoch(a) == IF adm[a].pend THEN adm[a].epoch - 1 ELSE adm[a].epoch

\* Then the password.  "same": the temporary password given is the current one.  An
\* unfinished reset is resumed under its own operation, and only with the same password; a
\* row held by another change is taken over when its lease is over, and refused before.
AdminDecide(a, same) ==
    LET r == [adm[a] EXCEPT !.ver = password.ver] IN
    /\ adm[a].pc = "record" /\ (same => password.ver > 0)
    /\ \/ /\ password.pend /\ same /\ (adm[a].pend => adm[a].epoch > 0)
          /\ Reset(a, [r EXCEPT !.pc = "resume", !.op = password.op, !.epoch = ExpectedEpoch(a)])
       \/ /\ ~password.pend /\ ~same /\ adm[a].pend
          /\ Reset(a, [r EXCEPT !.pc = "takeover"])
       \/ /\ ~password.pend /\ ~same /\ ~adm[a].pend
          /\ Reset(a, [r EXCEPT !.pc = "fresh"])
    /\ UNCHANGED <<user, password, keys, codes, ses, chg, life>>

\* recover_expired_credential_change.
AdminTakeover(a) ==
    /\ adm[a].pc = "takeover"
    /\ user.epoch = adm[a].epoch /\ user.pend /\ user.op # None /\ user.aged
    /\ user' = Freed
    /\ Reset(a, [adm[a] EXCEPT !.pc = "fresh"])
    /\ UNCHANGED <<password, keys, codes, ses, chg, life>>

\* begin_admin_credential_change; a row already held in the next epoch by the same
\* operation counts as begun.
AdminBegin(a) ==
    /\ adm[a].pc \in {"fresh", "resume"} /\ adm[a].epoch < MaxEpoch
    /\ \/ ~user.pend /\ user.epoch = adm[a].epoch /\ user' = Held(user.epoch + 1, adm[a].op)
       \/ OwnsAsAdmin(adm[a].op, adm[a].epoch + 1) /\ UNCHANGED user
    /\ Reset(a, [adm[a] EXCEPT !.epoch = @ + 1,
                               !.pc = IF @ = "fresh" THEN "stage" ELSE "revoke"])
    /\ UNCHANGED <<password, keys, codes, ses, chg, life>>

\* stage_admin_reset.
AdminStage(a) ==
    /\ adm[a].pc = "stage" /\ OwnsAsAdmin(adm[a].op, adm[a].epoch)
    /\ password.ver = adm[a].ver
    /\ password' = [ver |-> password.ver + 1, temp |-> TRUE, pend |-> TRUE, op |-> adm[a].op]
    /\ Reset(a, [adm[a] EXCEPT !.pc = "revoke", !.ver = @ + 1])
    /\ UNCHANGED <<user, keys, codes, ses, chg, life>>

\* abort_admin_credential_change, when the staging is refused.
AdminAbort(a) ==
    /\ adm[a].pc = "stage"
    /\ ~(OwnsAsAdmin(adm[a].op, adm[a].epoch) /\ password.ver = adm[a].ver)
    /\ user' = IF OwnsAsAdmin(adm[a].op, adm[a].epoch) THEN Freed ELSE user
    /\ Reset(a, [adm[a] EXCEPT !.pc = "over"])
    /\ UNCHANGED <<password, keys, codes, ses, chg, life>>

\* revoke_authentication_state.
AdminRevoke(a) ==
    /\ adm[a].pc = "revoke"
    /\ ses' \in Sweep(Sessions)
    /\ Reset(a, [adm[a] EXCEPT !.pc = "complete"])
    /\ UNCHANGED <<user, password, keys, codes, chg, life>>

\* complete_admin_reset: both rows in one transaction.
AdminComplete(a) ==
    /\ adm[a].pc = "complete" /\ OwnsAsAdmin(adm[a].op, adm[a].epoch)
    /\ password.ver = adm[a].ver /\ password.temp /\ password.pend /\ password.op = adm[a].op
    /\ user' = Freed
    /\ password' = [password EXCEPT !.pend = FALSE, !.op = None]
    /\ Reset(a, [adm[a] EXCEPT !.pc = "over"])
    /\ UNCHANGED <<keys, codes, ses, chg, life>>

\* A refusal, a store error or a crash: what is held stays held.
AdminFail(a) ==
    /\ adm[a].pc \notin {"idle", "over"}
    /\ Reset(a, [adm[a] EXCEPT !.pc = "over"])
    /\ UNCHANGED <<user, password, keys, codes, ses, chg, life>>

-----------------------------------------------------------------------------
\* disable and enable

Step(l, pc, epoch) == life' = [life EXCEPT ![l] = [pc |-> pc, epoch |-> epoch]]

\* next_disable_epoch.
NextDisableEpoch == IF user.status = "active" \/ user.epoch = 0 THEN user.epoch + 1 ELSE user.epoch

\* What a disable finds issued, it is to shut out.
Outdated == [s \in Sessions |->
    IF ses[s].pc \in {"epoch", "made", "gated", "given"} THEN [ses[s] EXCEPT !.old = TRUE] ELSE ses[s]]

\* begin_disable: whoever holds the row loses it.
BeginDisable(l) ==
    /\ life[l].pc = "idle" /\ NextDisableEpoch <= MaxEpoch
    /\ user' = [status |-> "disabled", epoch |-> NextDisableEpoch, pend |-> TRUE,
                op |-> None, aged |-> FALSE]
    /\ ses' = Outdated
    /\ Step(l, "cascade", NextDisableEpoch)
    /\ UNCHANGED <<password, keys, codes, chg, adm>>

\* begin_legacy_disable_cleanup.
Upgraded == [user EXCEPT !.epoch = 1, !.pend = TRUE, !.op = None, !.aged = FALSE]

\* A user disabled in epoch 0 is enabled in epoch 0.
BeginEnableNoUpgrade(l) ==
    /\ life[l].pc = "idle" /\ ~(user.status = "active" /\ ~user.pend)
    /\ Step(l, IF user.pend THEN "en_cascade" ELSE "enable", user.epoch)
    /\ UNCHANGED <<user, password, keys, codes, ses, chg, adm>>

\* enable reads the user.  A user disabled in epoch 0 is given an epoch first,
\* an unfinished disable is finished first.
BeginEnable(l) ==
    /\ life[l].pc = "idle" /\ ~(user.status = "active" /\ ~user.pend)
    /\ \/ /\ user.status = "disabled" /\ user.epoch = 0 /\ MaxEpoch > 0
          /\ user' = Upgraded
          /\ Step(l, "en_cascade", 1)
       \/ /\ ~(user.status = "disabled" /\ user.epoch = 0)
          /\ Step(l, IF user.pend THEN "en_cascade" ELSE "enable", user.epoch)
          /\ UNCHANGED user
    /\ UNCHANGED <<password, keys, codes, ses, chg, adm>>

\* cascade_revoke_before_epoch.
Cascade(l) ==
    /\ life[l].pc \in {"cascade", "en_cascade"}
    /\ ses' \in EarlierSwept(life[l].epoch)
    /\ Step(l, IF life[l].pc = "cascade" THEN "complete" ELSE "en_complete", life[l].epoch)
    /\ UNCHANGED <<user, password, keys, codes, chg, adm>>

\* complete_disable.
CompleteDisable(l) ==
    /\ life[l].pc \in {"complete", "en_complete"}
    /\ user.status = "disabled" /\ user.epoch = life[l].epoch
    /\ user' = Freed
    /\ Step(l, IF life[l].pc = "complete" THEN "over" ELSE "enable", life[l].epoch)
    /\ UNCHANGED <<password, keys, codes, ses, chg, adm>>

\* enable_completed.
EnableCompleted(l) ==
    /\ life[l].pc = "enable"
    /\ user.status = "disabled" /\ user.epoch = life[l].epoch /\ ~user.pend
    /\ user' = [Freed EXCEPT !.status = "active"]
    /\ Step(l, "over", life[l].epoch)
    /\ UNCHANGED <<password, keys, codes, ses, chg, adm>>

\* A refusal, a store error or a crash.
LifecycleFail(l) ==
    /\ life[l].pc \notin {"idle", "over"}
    /\ Step(l, "over", life[l].epoch)
    /\ UNCHANGED <<user, password, keys, codes, ses, chg, adm>>

-----------------------------------------------------------------------------

LoginStep(s) ==
    \/ PasswordAuthenticate(s) \/ TemporaryAuthenticate(s) \/ TemporaryReplace(s)
    \/ LinkAuthenticate(s) \/ \E k \in Keys : PasskeyAuthenticate(s, k)
    \/ ReadEpoch(s) \/ CreateSession(s) \/ Recheck(s) \/ HandOut(s) \/ Refuse(s)
    \/ RecoverRead(s) \/ RecoverCommit(s)
    \/ \E k \in Keys : Register(s, k)

ChangeStep(t) ==
    \/ \E s \in Sessions, kind \in Kinds \ {"passkey"} : StartChange(t, s, kind, None)
    \/ \E s \in Sessions, k \in Keys : StartChange(t, s, "passkey", k)
    \/ BeginChange(t) \/ ConsumeSession(t) \/ RecheckFactors(t)
    \/ CommitPassword(t) \/ CommitDelete(t) \/ CommitRotation(t)
    \/ AbortChange(t) \/ CrashChange(t)

AdminStep(a) ==
    \/ AdminRecord(a) \/ (\E same \in BOOLEAN : AdminDecide(a, same)) \/ AdminTakeover(a)
    \/ AdminBegin(a) \/ AdminStage(a) \/ AdminAbort(a) \/ AdminRevoke(a) \/ AdminComplete(a)
    \/ AdminFail(a)

LifecycleStep(l) ==
    \/ BeginDisable(l) \/ BeginEnable(l) \/ Cascade(l) \/ CompleteDisable(l)
    \/ EnableCompleted(l) \/ LifecycleFail(l)

Next ==
    \/ Gate \/ Age
    \/ \E s \in Sessions : LoginStep(s)
    \/ \E t \in Changes : ChangeStep(t)
    \/ \E a \in Admins : AdminStep(a)
    \/ \E l \in Lifecycle : LifecycleStep(l)

Spec == Init /\ [][Next]_vars

-----------------------------------------------------------------------------
\* Properties

InUse(s) == ses[s].pc = "given" /\ Accepted(s)

\* A session that was handed out and is accepted rests on a credential the user still has:
\* the password it was opened with is the password, the passkey is there.  However a login,
\* a slow change whose row was freed by a gate, a reset and its retry interleave.  And it was
\* not issued before the account was disabled, also when the disable was interrupted,
\* repeated, or done by a release that knew no epochs.
RestsOnCredential ==
    \A s \in Sessions : InUse(s) =>
        /\ ses[s].by = "password" => ses[s].cred = password.ver
        /\ ses[s].by = "passkey" => ses[s].cred \in LiveKeys
        /\ ~ses[s].old

\* No passkey is deleted that leaves the user without any way to log in: not by two
\* deletions at once, nor by a deletion while the last code is used or the password reset.
FactorRemains ==
    [][LiveKeys' \subseteq LiveKeys /\ LiveKeys' # LiveKeys
         => OtherFactor' \/ codes' > 0]_vars

=============================================================================
