---------------------------- MODULE MCRecovery ------------------------------
(***************************************************************************)
(* What an interrupted request leaves behind is finished by somebody else: *)
(* small instances with the fairness the code's schedules and callers      *)
(* justify. Each behaviour is one of a single instance, named by the       *)
(* variable instance; the variables of the other components stay NotUsed. *)
(***************************************************************************)
EXTENDS Integers, TLC

CONSTANTS i1, i2, o1, o2, p1, p2, w1, r1, r2, n1, n2, n3, n4, g1, g2, reading,
          writing, rar, s1, k1, t1, a1, l1, Broken, NoValue, NotUsed

VARIABLES instance, intents, orders, approval, registry, proc, queue, channel,
          callbacks, sent, now, faults, fam, grace, grant, changed, minted,
          answers, acked, code, session, flavor, issued, replayed, deployed,
          deploys, pv, art, grants, index, creating, worker, revoker, cache, token,
          user, password, keys, codes, ses, chg, adm, life, gate, permit, req,
          call, rows, off

\* One Grant has nothing to evaluate, the other a RAR beside its scope.
MixedConsent == [g \in {g1, g2} |-> IF g = g1 THEN {} ELSE {writing, rar}]

Charge == INSTANCE Payment WITH
    Intents <- {i1, i2}, Orders <- {o1, o2}, Procs <- {p1}, Workers <- {w1},
    Window <- 1, Retention <- 1, CallLatency <- 0, CasAttempts <- 2, Limit <- 2,
    InitialStates <- {"pending"}, Honest <- {i1, i2}, MaxTime <- 1,
    MaxVersion <- 1, MaxCallbacks <- 0, MaxFaults <- 1, None <- NoValue
Family == INSTANCE RefreshFamily WITH
    Procs <- {p1, p2}, Requests <- {r1}, Owners <- {n1, n2, n3, n4},
    NoOwner <- NoValue, LeaseTtl <- 2, GraceWindow <- 1, Version <- 0, MaxTime <- 4,
    MaxFaults <- 2
Code == INSTANCE CodeExchange WITH
    Requests <- {r1, r2}, BadClient <- {}, BadProof <- {}, NoOne <- NoValue,
    HasSession <- FALSE, Flavors <- {"plain"}, MaxFaults <- 3
Policy == INSTANCE PolicyRecompute WITH
    Grants <- {g1, g2}, Rar <- rar, Consent <- MixedConsent,
    Policies <- {{reading}, {reading, writing}}, Broken <- Broken, Workers <- {w1},
    Revokers <- {}, Fenced <- FALSE, Issuing <- FALSE, MaxPv <- 3, MaxRev <- 2,
    MaxDeploys <- 1, MaxFaults <- 1, None <- NoValue
Row == INSTANCE UserAuthority WITH
    Sessions <- {s1}, Keys <- {k1}, Changes <- {t1}, Admins <- {a1},
    Lifecycle <- {l1}, Enrolled <- {1}, MaxCodes <- 0, MaxEpoch <- 3,
    None <- NoValue
Gate == INSTANCE MutationGate WITH
    Requests <- {r1, r2}, Starters <- {o1}, Lease <- 6, Renew <- 1, Stall <- 1,
    CallBound <- 1, Skew <- 1, None <- NoValue

\* One order per intent, all prepared at instant 0 and approved by the payer.
ApprovedInit ==
    /\ intents = i1 :> Charge!PreparedIntent(o1, 1, 1, 0) @@ i2 :> Charge!PreparedIntent(o2, 1, 1, 0)
    /\ orders = o1 :> i1 @@ o2 :> i2
    /\ approval = [i \in {i1, i2} |-> "live"]
    /\ registry = 1
    /\ proc = [p \in {p1, w1} |-> Charge!Idle]
    /\ queue = w1 :> <<>>
    /\ channel = [i \in {i1, i2} |-> Charge!NoTransaction]
    /\ callbacks = {}
    /\ sent = 0 /\ now = 0 /\ faults = 0

\* Only executes, the recovery pass and the channel.
RecoveryNext ==
    \/ \E p \in {p1, w1} : Charge!Continue(p) \/ Charge!Fault(p)
    \/ \E i \in {i1, i2} : Charge!ExecuteAuthorize(p1, i)
    \/ Charge!WorkerList(w1) \/ Charge!WorkerNext(w1)
    \/ \E i \in {i1, i2}, s \in Charge!ChannelState : Charge!ChannelSettle(i, s)
    \/ Charge!Tick

\* A client that presents the version it holds until the family rotates, and the
\* failures of a handler that leave its lease time to lapse within the bound.
Retry(p) == fam.version = 0 /\ Family!Load(p, 0, r1)
RetryNext ==
    \/ \E p \in {p1, p2} : Family!Continue(p) \/ Retry(p)
    \/ \E p \in {p1, p2} : now + 2 <= 4 /\ (Family!SignFails(p) \/ Family!Abort(p))
    \/ Family!Tick

\* Handlers that take less than LEASE_TTL_SECS: only an abandoned lease lapses.
PromptNext ==
    /\ Code!Next
    /\ code'.lapsed /\ ~code.lapsed => proc[code.owner].pc = "idle"

ASSUME
    /\ Code!ExchangeAssumption /\ Policy!PolicyAssumption /\ Row!UserAssumption
    /\ Gate!TimesAssumption /\ Gate!NamesAssumption

\* The variables of the components that an instance leaves out.
NotCharge == <<fam, grace, grant, changed, minted, answers, acked, code, session,
    flavor, issued, replayed, deployed, deploys, pv, art, grants, index, creating,
    worker, revoker, cache, token, user, password, keys, codes, ses, chg, adm,
    life, gate, permit, req, call, rows, off>>
NotFamily == <<intents, orders, approval, registry, queue, channel, callbacks,
    sent, code, session, flavor, issued, replayed, deployed, deploys, pv, art,
    grants, index, creating, worker, revoker, cache, token, user, password, keys,
    codes, ses, chg, adm, life, gate, permit, req, call, rows, off>>
NotCode == <<intents, orders, approval, registry, queue, channel, callbacks, sent,
    now, grace, minted, answers, acked, deployed, deploys, pv, art, grants, index,
    creating, worker, revoker, cache, token, user, password, keys, codes, ses, chg,
    adm, life, gate, permit, req, call, rows, off>>
NotPolicy == <<intents, orders, approval, registry, proc, queue, channel,
    callbacks, sent, now, fam, grace, grant, changed, minted, answers, acked, code,
    session, flavor, issued, replayed, user, password, keys, codes, ses, chg, adm,
    life, gate, permit, req, call, rows, off>>
NotRow == <<intents, orders, approval, registry, proc, queue, channel, callbacks,
    sent, now, faults, fam, grace, grant, changed, minted, answers, acked, code,
    session, flavor, issued, replayed, deployed, deploys, pv, art, grants, index,
    creating, worker, revoker, cache, token, gate, permit, req, call, rows, off>>
NotGate == <<intents, orders, approval, registry, proc, queue, channel, callbacks,
    sent, now, faults, fam, grace, grant, changed, minted, answers, acked, code,
    session, flavor, issued, replayed, deployed, deploys, pv, art, grants, index,
    creating, worker, revoker, cache, token, user, password, keys, codes, ses, chg,
    adm, life>>
OnlyCharge ==
    /\ fam = NotUsed /\ grace = NotUsed /\ grant = NotUsed /\ changed = NotUsed /\ minted = NotUsed
    /\ answers = NotUsed /\ acked = NotUsed /\ code = NotUsed /\ session = NotUsed
    /\ flavor = NotUsed /\ issued = NotUsed /\ replayed = NotUsed /\ deployed = NotUsed
    /\ deploys = NotUsed /\ pv = NotUsed /\ art = NotUsed /\ grants = NotUsed /\ index = NotUsed
    /\ creating = NotUsed /\ worker = NotUsed /\ revoker = NotUsed /\ cache = NotUsed
    /\ token = NotUsed /\ user = NotUsed /\ password = NotUsed /\ keys = NotUsed /\ codes = NotUsed
    /\ ses = NotUsed /\ chg = NotUsed /\ adm = NotUsed /\ life = NotUsed /\ gate = NotUsed
    /\ permit = NotUsed /\ req = NotUsed /\ call = NotUsed /\ rows = NotUsed /\ off = NotUsed
OnlyFamily ==
    /\ intents = NotUsed /\ orders = NotUsed /\ approval = NotUsed /\ registry = NotUsed
    /\ queue = NotUsed /\ channel = NotUsed /\ callbacks = NotUsed /\ sent = NotUsed
    /\ code = NotUsed /\ session = NotUsed /\ flavor = NotUsed /\ issued = NotUsed
    /\ replayed = NotUsed /\ deployed = NotUsed /\ deploys = NotUsed /\ pv = NotUsed
    /\ art = NotUsed /\ grants = NotUsed /\ index = NotUsed /\ creating = NotUsed
    /\ worker = NotUsed /\ revoker = NotUsed /\ cache = NotUsed /\ token = NotUsed /\ user = NotUsed
    /\ password = NotUsed /\ keys = NotUsed /\ codes = NotUsed /\ ses = NotUsed /\ chg = NotUsed
    /\ adm = NotUsed /\ life = NotUsed /\ gate = NotUsed /\ permit = NotUsed /\ req = NotUsed
    /\ call = NotUsed /\ rows = NotUsed /\ off = NotUsed
OnlyCode ==
    /\ intents = NotUsed /\ orders = NotUsed /\ approval = NotUsed /\ registry = NotUsed
    /\ queue = NotUsed /\ channel = NotUsed /\ callbacks = NotUsed /\ sent = NotUsed
    /\ now = NotUsed /\ grace = NotUsed /\ minted = NotUsed /\ answers = NotUsed /\ acked = NotUsed
    /\ deployed = NotUsed /\ deploys = NotUsed /\ pv = NotUsed /\ art = NotUsed /\ grants = NotUsed
    /\ index = NotUsed /\ creating = NotUsed /\ worker = NotUsed /\ revoker = NotUsed
    /\ cache = NotUsed /\ token = NotUsed /\ user = NotUsed /\ password = NotUsed /\ keys = NotUsed
    /\ codes = NotUsed /\ ses = NotUsed /\ chg = NotUsed /\ adm = NotUsed /\ life = NotUsed
    /\ gate = NotUsed /\ permit = NotUsed /\ req = NotUsed /\ call = NotUsed /\ rows = NotUsed
    /\ off = NotUsed
OnlyPolicy ==
    /\ intents = NotUsed /\ orders = NotUsed /\ approval = NotUsed /\ registry = NotUsed
    /\ proc = NotUsed /\ queue = NotUsed /\ channel = NotUsed /\ callbacks = NotUsed
    /\ sent = NotUsed /\ now = NotUsed /\ fam = NotUsed /\ grace = NotUsed /\ grant = NotUsed
    /\ changed = NotUsed /\ minted = NotUsed /\ answers = NotUsed /\ acked = NotUsed
    /\ code = NotUsed /\ session = NotUsed /\ flavor = NotUsed /\ issued = NotUsed
    /\ replayed = NotUsed /\ user = NotUsed /\ password = NotUsed /\ keys = NotUsed
    /\ codes = NotUsed /\ ses = NotUsed /\ chg = NotUsed /\ adm = NotUsed /\ life = NotUsed
    /\ gate = NotUsed /\ permit = NotUsed /\ req = NotUsed /\ call = NotUsed /\ rows = NotUsed
    /\ off = NotUsed
OnlyRow ==
    /\ intents = NotUsed /\ orders = NotUsed /\ approval = NotUsed /\ registry = NotUsed
    /\ proc = NotUsed /\ queue = NotUsed /\ channel = NotUsed /\ callbacks = NotUsed
    /\ sent = NotUsed /\ now = NotUsed /\ faults = NotUsed /\ fam = NotUsed /\ grace = NotUsed
    /\ grant = NotUsed /\ changed = NotUsed /\ minted = NotUsed /\ answers = NotUsed
    /\ acked = NotUsed /\ code = NotUsed /\ session = NotUsed /\ flavor = NotUsed
    /\ issued = NotUsed /\ replayed = NotUsed /\ deployed = NotUsed /\ deploys = NotUsed
    /\ pv = NotUsed /\ art = NotUsed /\ grants = NotUsed /\ index = NotUsed /\ creating = NotUsed
    /\ worker = NotUsed /\ revoker = NotUsed /\ cache = NotUsed /\ token = NotUsed /\ gate = NotUsed
    /\ permit = NotUsed /\ req = NotUsed /\ call = NotUsed /\ rows = NotUsed /\ off = NotUsed
OnlyGate ==
    /\ intents = NotUsed /\ orders = NotUsed /\ approval = NotUsed /\ registry = NotUsed
    /\ proc = NotUsed /\ queue = NotUsed /\ channel = NotUsed /\ callbacks = NotUsed
    /\ sent = NotUsed /\ now = NotUsed /\ faults = NotUsed /\ fam = NotUsed /\ grace = NotUsed
    /\ grant = NotUsed /\ changed = NotUsed /\ minted = NotUsed /\ answers = NotUsed
    /\ acked = NotUsed /\ code = NotUsed /\ session = NotUsed /\ flavor = NotUsed
    /\ issued = NotUsed /\ replayed = NotUsed /\ deployed = NotUsed /\ deploys = NotUsed
    /\ pv = NotUsed /\ art = NotUsed /\ grants = NotUsed /\ index = NotUsed /\ creating = NotUsed
    /\ worker = NotUsed /\ revoker = NotUsed /\ cache = NotUsed /\ token = NotUsed /\ user = NotUsed
    /\ password = NotUsed /\ keys = NotUsed /\ codes = NotUsed /\ ses = NotUsed /\ chg = NotUsed
    /\ adm = NotUsed /\ life = NotUsed

Init ==
    \/ instance = "payment" /\ ApprovedInit /\ OnlyCharge
    \/ instance = "refresh" /\ Family!Init /\ OnlyFamily
    \/ instance = "code" /\ Code!Init /\ OnlyCode
    \/ instance = "policy" /\ Policy!Init /\ OnlyPolicy
    \/ instance = "row" /\ Row!Init /\ OnlyRow
    \/ instance = "gate" /\ Gate!Init /\ OnlyGate

Next ==
    /\ UNCHANGED instance
    /\ \/ instance = "payment" /\ RecoveryNext /\ UNCHANGED NotCharge
       \/ instance = "refresh" /\ RetryNext /\ UNCHANGED NotFamily
       \/ instance = "code" /\ PromptNext /\ UNCHANGED NotCode
       \/ instance = "policy" /\ Policy!Next /\ UNCHANGED NotPolicy
       \/ instance = "row" /\ Row!Next /\ UNCHANGED NotRow
       \/ instance = "gate" /\ Gate!Next /\ UNCHANGED NotGate

vars == <<instance, intents, orders, approval, registry, proc, queue, channel,
          callbacks, sent, now, faults, fam, grace, grant, changed, minted,
          answers, acked, code, session, flavor, issued, replayed, deployed,
          deploys, pv, art, grants, index, creating, worker, revoker, cache, token,
          user, password, keys, codes, ses, chg, adm, life, gate, permit, req,
          call, rows, off>>

\* The variables an instance uses, and a step of an instance.
used ==
    CASE instance = "payment" -> Charge!vars
      [] instance = "refresh" -> Family!vars
      [] instance = "code" -> Code!vars
      [] instance = "policy" -> Policy!vars
      [] instance = "row" -> Row!vars
      [] instance = "gate" -> Gate!vars
InCharge == instance = "payment" /\ UNCHANGED instance
InFamily == instance = "refresh" /\ UNCHANGED instance
InCode == instance = "code" /\ UNCHANGED instance
InPolicy == instance = "policy" /\ UNCHANGED instance
InRow == instance = "row" /\ UNCHANGED instance
InGate == instance = "gate" /\ UNCHANGED instance

\* What is scheduled, of each instance.  An instance stays what it is, so the fairness of
\* one action of each can be stated together: WF of their disjunction is WF of each.
\*   payment: a started handler goes on, the recovery pass is scheduled, the channel settles
\*   refresh, code: handlers go on, the clients try again, time passes
\*   policy: an invocation runs on, the schedule invokes again, the index catches up
\*   row: a lease grows old, and gates look at the row again
\*   gate: time passes, calls land, a request ends or is killed at its time limit, the owner
\*         repeats the start of the offboarding
Fair1 ==
    \/ InCharge /\ Charge!Continue(p1)
    \/ InFamily /\ Family!Continue(p1)
    \/ InCode /\ Code!Continue(r1)
    \/ InPolicy /\ Policy!WorkerStep(w1)
    \/ InRow /\ Row!Age
    \/ InGate /\ Gate!Land(r1)
Fair2 ==
    \/ InCharge /\ Charge!Continue(w1)
    \/ InFamily /\ Family!Continue(p2)
    \/ InCode /\ Code!Continue(r2)
    \/ InPolicy /\ Policy!IndexCatchUp(g1)
    \/ InRow /\ Row!Gate
    \/ InGate /\ Gate!Land(r2)
Fair3 ==
    \/ InCharge /\ Charge!WorkerList(w1)
    \/ InFamily /\ Retry(p1)
    \/ InCode /\ Code!Acquire(r1)
    \/ InPolicy /\ Policy!IndexCatchUp(g2)
    \/ InGate /\ (Gate!Respond(r1) \/ Gate!Killed(r1))
Fair4 ==
    \/ InCharge /\ Charge!WorkerNext(w1)
    \/ InFamily /\ Retry(p2)
    \/ InCode /\ Code!Acquire(r2)
    \/ InGate /\ (Gate!Respond(r2) \/ Gate!Killed(r2))
Fair5 ==
    \/ InCharge /\ Charge!Tick
    \/ InFamily /\ Family!Tick
    \/ InCode /\ Code!Lapse /\ PromptNext
    \/ InGate /\ Gate!Tick
Fair6 ==
    \/ InCharge /\ (\E s \in Charge!ChannelState : Charge!ChannelSettle(i1, s))
    \/ InGate /\ (Gate!acquire_tenant_mutation_permit(r1) \/ Gate!AcquireRefused(r1))
Fair7 ==
    \/ InCharge /\ (\E s \in Charge!ChannelState : Charge!ChannelSettle(i2, s))
    \/ InGate /\ (Gate!acquire_tenant_mutation_permit(r2) \/ Gate!AcquireRefused(r2))
Fair8 == InGate /\ Gate!renew_tenant_mutation_permit(r1)
Fair9 == InGate /\ Gate!renew_tenant_mutation_permit(r2)
Fair10 == InGate /\ Gate!RenewDue(r1)
Fair11 == InGate /\ Gate!RenewDue(r2)
Fair12 == InGate /\ Gate!Freeze(o1)

Fairness ==
    /\ WF_used(Fair1) /\ WF_used(Fair2) /\ WF_used(Fair3) /\ WF_used(Fair4)
    /\ WF_used(Fair5) /\ WF_used(Fair6) /\ WF_used(Fair7) /\ WF_used(Fair8)
    /\ WF_used(Fair9) /\ WF_used(Fair10) /\ WF_used(Fair11) /\ WF_used(Fair12)

LiveSpec == Init /\ [][Next]_vars /\ Fairness

-----------------------------------------------------------------------------
\* What waits, in each instance, for somebody else than the request that left it behind: an
\* accepted attempt without result or review, a version under the lease of a dead handler, a
\* code, a Grant stamped with an older policy version, a row that a credential change holds, an
\* offboarding that permits of dead requests keep open.
Waiting ==
    CASE instance = "payment" ->
           \E i \in {i1, i2} : intents[i].status \in Charge!Unsettled /\ ~intents[i].review
      [] instance = "refresh" -> fam.version = 0
      [] instance = "code" -> ~code.consumed /\ ~code.expired
      [] instance = "policy" ->
           \E g \in {g1, g2} : grants[g].status = "active" /\ grants[g].pv # pv
      [] instance = "row" -> user.status = "active" /\ user.pend
      [] instance = "gate" -> ~Gate!Frozen

\* Whatever a crash, a failed call or a lost answer interrupted is finished by a retry, the
\* recovery pass, a gate or the reaper: nothing waits for ever (recovery.rs, acquire_lease,
\* recompute, user_gate.rs, reap_expired_mutation_permits).
NothingWaitsForever == []<>~Waiting
=============================================================================
