------------------------------ MODULE MCScenarios ------------------------------
(* Scenarios of up to two faults, with delays at and around the deadline, on  *)
(* worlds that step on beyond it.                                             *)
EXTENDS Scenarios

FaultBound ==
    [kind : {"GpsDropout", "HeartbeatStale", "Failsafe", "ImuUnhealthy", "Gust"},
     at : {0, 100, 200, 300}, delay : {0}]
    \cup [kind : {"ImuDelay"}, at : {0, 100, 200, 300}, delay : {150, 249, 250}]

ScenarioBound ==
    {<<>>} \cup [{1} -> FaultBound] \cup [{1, 2} -> FaultBound]
=============================================================================
