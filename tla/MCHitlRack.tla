------------------------------ MODULE MCHitlRack ------------------------------
(* HitlRack over small fleets, with a period that divides the second, one    *)
(* that does not, and one below its budget.                                  *)
EXTENDS HitlRack

CatalogsBound == {inland, {"drone", "skiff"}}
SpecsBound ==
    {[period |-> 2, budget |-> 1], [period |-> 30, budget |-> 24], [period |-> 1, budget |-> 2]}
CommandsBound ==
    {Idle, [id \in Id |-> "velocity"], [Idle EXCEPT !["drone"] = "nan", !["rover"] = "velocity"]}
DatagramsBound ==
    {[slot |-> "drone", apply |-> TRUE, velocity |-> "velocity"],
     [slot |-> "drone", apply |-> FALSE, velocity |-> "velocity"],
     [slot |-> "skiff", apply |-> TRUE, velocity |-> "velocity"]}
RevokesBound == {"TriggerFailsafe", "Disarm", "Disconnect"}
=============================================================================
