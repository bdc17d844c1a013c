-------------------------- MODULE MCRefreshFamily --------------------------
(***************************************************************************)
(* Two small instances of RefreshFamily in one run, told apart by the      *)
(* variable instance: requests that race, and one request id with a fault. *)
(***************************************************************************)
EXTENDS RefreshFamily, TLC

CONSTANT r1

VARIABLE instance

Faulty == INSTANCE RefreshFamily WITH Requests <- {r1}, MaxFaults <- 1

BothInit == instance \in {"race", "faulty"} /\ Faulty!Init

BothNext ==
    /\ UNCHANGED instance
    /\ \/ instance = "race" /\ Next
       \/ instance = "faulty" /\ Faulty!Next

BothSpec == BothInit /\ [][BothNext]_<<vars, instance>>

Symmetry == Permutations(Procs) \cup Permutations(Owners)
=============================================================================
