---------------------------- MODULE MCIssuance ------------------------------
(***************************************************************************)
(* Authorization codes and polled requests, in small instances. Each       *)
(* behaviour is one of a single instance, named by the variable instance;  *)
(* beside a polled request the code stays as it is created, and beside a   *)
(* code the variables of the polled request stay NotUsed.                  *)
(***************************************************************************)
EXTENDS CodeExchange, TLC

CONSTANTS r1, r2, r3, p1, p2, a1, NotUsed

VARIABLES instance, req, replica, expired, rested, pw, active, given, poller,
          resent, failed, tokens, outdated

Retried == INSTANCE CodeExchange WITH
    Requests <- {r1, r2, r3}, BadClient <- {r3}, BadProof <- {r2},
    HasSession <- TRUE, Flavors <- {"plain"}, MaxFaults <- 3
ByDevice == INSTANCE PollGrant WITH
    grant <- given, proc <- poller, faults <- failed, issued <- tokens,
    Polls <- {p1, p2}, Approvers <- {a1}, Device <- TRUE, Push <- FALSE,
    FaultKinds <- {"sign"}, MaxFaults <- 1, MaxPolls <- 2, MaxResets <- 1,
    MayExpire <- TRUE
ByPush == INSTANCE PollGrant WITH
    grant <- given, proc <- poller, faults <- failed, issued <- tokens,
    Polls <- {p1}, Approvers <- {a1}, Device <- FALSE, Push <- TRUE,
    FaultKinds <- {"sign", "put", "revoke", "crash"}, MaxFaults <- 2,
    MaxPolls <- 2, MaxResets <- 1, MayExpire <- TRUE
Faulty == INSTANCE PollGrant WITH
    grant <- given, proc <- poller, faults <- failed, issued <- tokens,
    Polls <- {p1}, Approvers <- {a1}, Device <- TRUE, Push <- FALSE,
    FaultKinds <- {"sign", "put", "revoke", "crash", "resend"}, MaxFaults <- 2,
    MaxPolls <- 2, MaxResets <- 1, MayExpire <- TRUE

ASSUME
    /\ ExchangeAssumption /\ Retried!ExchangeAssumption
    /\ ByDevice!PollAssumption /\ ByPush!PollAssumption /\ Faulty!PollAssumption

pollVars == <<req, replica, expired, rested, pw, active, given, poller, resent,
              failed, tokens, outdated>>
OnlyCode ==
    /\ req = NotUsed /\ replica = NotUsed /\ expired = NotUsed /\ rested = NotUsed /\ pw = NotUsed
    /\ active = NotUsed /\ given = NotUsed /\ poller = NotUsed /\ resent = NotUsed
    /\ failed = NotUsed /\ tokens = NotUsed /\ outdated = NotUsed
OnlyPoll == Init /\ flavor = "plain"

AllInit ==
    \/ instance = "code" /\ Init /\ OnlyCode
    \/ instance = "code_faults" /\ Init /\ flavor = "plain" /\ OnlyCode
    \/ instance = "device" /\ ByDevice!Init /\ OnlyPoll
    \/ instance = "push" /\ ByPush!Init /\ OnlyPoll
    \/ instance = "device_faults" /\ Faulty!Init /\ OnlyPoll

AllNext ==
    /\ UNCHANGED instance
    /\ \/ instance = "code" /\ Next /\ UNCHANGED pollVars
       \/ instance = "code_faults" /\ Retried!Next /\ UNCHANGED pollVars
       \/ instance = "device" /\ ByDevice!Next /\ UNCHANGED vars
       \/ instance = "push" /\ ByPush!Next /\ UNCHANGED vars
       \/ instance = "device_faults" /\ Faulty!Next /\ UNCHANGED vars

AllSpec == AllInit /\ [][AllNext]_<<instance, vars, pollVars>>

-----------------------------------------------------------------------------
\* One device or CIBA request yields one token at most, however polls, pushes and
\* releases interleave, and leaves an active Grant only while it runs or because its
\* token was issued (consume and release_consume of both request stores).  The
\* decision of the user is final and only an approval issues tokens (decide of both
\* stores); it has to be current when the record is consumed: a password reset or a
\* disabling before that is noticed by the checks after the Grant.
DecisionStands ==
    /\ instance = "device" => ByDevice!OneToken
    /\ instance = "push" => ByPush!OneToken
    /\ instance = "device" => ByDevice!NoStrandedGrant
    /\ instance = "device" => ByDevice!DecisionStands
    /\ instance = "device_faults" => Faulty!ApprovalCurrent
=============================================================================
