------------------------------ MODULE MCWorldStep ------------------------------
(* A drone ready on the pad, told to climb to one of a few heights. *)
EXTENDS WorldStep

Drone(z) ==
    [domain |-> "aerial", z |-> z, v |-> 0, command |-> Unset, hold |-> Unset,
     granted |-> TRUE, charge |-> 20000000, radius |-> 3500, mass |-> 15,
     drag |-> 392, lift |-> 0]

HoldBound == {-10000 * n : n \in 1..6}
SceneBound == {<<set_position_hold(Drone(0), p)>> : p \in HoldBound}
=============================================================================
