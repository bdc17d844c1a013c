----------------------------- MODULE MCRegion -------------------------------
(***************************************************************************)
(* The handover between the Regions in small instances: the component with *)
(* late calls and a fault, two interfering runs of the script, the codes   *)
(* of earlier activations, and a client assertion replayed across Regions. *)
(* Each behaviour is one of a single instance, named by the variable       *)
(* instance; the instances have the Regions and the runtimes in common, so *)
(* the component's invariants speak of each of them.                       *)
(***************************************************************************)
EXTENDS RegionFailover, TLC

CONSTANTS p1, s1, o1, o2, o3

VARIABLE instance

\* A runtime of each Region.
ServerHome == p1 :> Primary @@ s1 :> Standby

TwoRuns == INSTANCE RegionFailover WITH
    Workers <- {p1}, Operators <- {o1, o2}, Quiescence <- 3, ApiLimit <- 1,
    WorkerLimit <- 2, Lifetime <- 0, Skew <- 0, ClockError <- 0, Follow <- {},
    LateCalls <- FALSE, MaxFaults <- 0
Artifacts == INSTANCE RegionFailover WITH
    Workers <- {}, Operators <- {o3}, Quiescence <- 3, ApiLimit <- 1,
    WorkerLimit <- 2, Lifetime <- 0, Skew <- 0, ClockError <- 0,
    Follow <- {"codes"}, LateCalls <- FALSE, MaxFaults <- 0
Replay == INSTANCE RegionFailover WITH
    Workers <- {}, Operators <- {o3}, Quiescence <- 4, ApiLimit <- 1,
    WorkerLimit <- 3, Lifetime <- 1, Skew <- 1, ClockError <- 1,
    Follow <- {"assertion"}, LateCalls <- FALSE, MaxFaults <- 0

ASSUME
    /\ TimesAssumption /\ InstancesAssumption
    /\ TwoRuns!TimesAssumption /\ TwoRuns!InstancesAssumption
    /\ Artifacts!TimesAssumption /\ Artifacts!InstancesAssumption
    /\ Replay!TimesAssumption /\ Replay!InstancesAssumption

AllInit ==
    \/ instance = "handover" /\ Init
    \/ instance = "two_runs" /\ TwoRuns!Init
    \/ instance = "artifacts" /\ Artifacts!Init
    \/ instance = "replay" /\ Replay!Init

AllNext ==
    /\ UNCHANGED instance
    /\ \/ instance = "handover" /\ Next
       \/ instance = "two_runs" /\ TwoRuns!Next
       \/ instance = "artifacts" /\ Artifacts!Next
       \/ instance = "replay" /\ Replay!Next

allVars == <<instance, vars>>
AllSpec == AllInit /\ [][AllNext]_allVars

Symmetry == Permutations({o1, o2})
=============================================================================
