------------------------------ MODULE MCConsole ------------------------------
(* Console: two scenarios of one body each, and two requests.             *)
EXTENDS Console, TLC

CatalogBound == [coastal |-> {"rover"}, open_water |-> {"skiff"}]
ButtonsBound == [rover |-> {"Estop", "Park"}, skiff |-> {"Station"}]
WritesBound ==
    {Request("rover", "Drive", "within"), Request("rover", "Drive", "large"),
     Request("skiff", "Hold", "within")}
=============================================================================
