------------------------------ MODULE MCPlants -------------------------------
(* Plants over every catalog a fleet is built for, but for its second world  *)
(* with all four bodies.                                                     *)
EXTENDS Plants

PlantBound ==
    {[kind |-> "world_plant", bodies |-> {"drone"}], [kind |-> "plant_node", bodies |-> {"drone"}],
     [kind |-> "fleet", bodies |-> coastal], [kind |-> "fleet", bodies |-> inland], [kind |-> "fleet", bodies |-> open_water]}
RevokesBound == {"TriggerFailsafe", "Disarm", "Disconnect"}
=============================================================================
