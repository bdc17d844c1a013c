----------------------------- MODULE MCPayment -----------------------------
(***************************************************************************)
(* Three small instances of Payment in one run, told apart by the variable *)
(* instance: two intents for one order, where one call may fail; a single  *)
(* intent with more time, in which the channel forgets the key; and one    *)
(* with a channel that contradicts itself and sends callbacks.             *)
(***************************************************************************)
EXTENDS Payment, TLC

CONSTANTS i1, i2, i3, i4

VARIABLE instance

Race == INSTANCE Payment WITH
    Intents <- {i1, i2}, MaxTime <- 2, MaxVersion <- 1, MaxCallbacks <- 0

Retried == INSTANCE Payment WITH Intents <- {i4}, MaxVersion <- 1, MaxCallbacks <- 0

Contradicting == INSTANCE Payment WITH
    Intents <- {i3}, InitialStates <- {"pending"}, MaxTime <- 1, MaxFaults <- 0

AllInit == instance \in {"race", "retried", "contradicting"} /\ Init

AllNext ==
    /\ UNCHANGED instance
    /\ \/ instance = "race" /\ Race!Next
       \/ instance = "retried" /\ Retried!Next
       \/ instance = "contradicting" /\ Contradicting!Next

AllSpec == AllInit /\ [][AllNext]_<<vars, instance>>

Symmetry == Permutations(Procs) \cup Permutations({i1, i2})
=============================================================================
