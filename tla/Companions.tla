------------------------------ MODULE Companions ------------------------------
(***************************************************************************)
(* The two companions: Px4Backend in offboard and ArduPilotBackend in      *)
(* GUIDED.  ArduPilot's is the same machine, written a second time; it     *)
(* differs in the heartbeats it takes for its vehicle's, in those by which *)
(* the vehicle fails safe, and in how long it streams before the mode.     *)
(***************************************************************************)
EXTENDS Companion

\* ------------------------------------------------------- ArduPilotBackend
\* Its ages and its estimate, its pump and its heartbeats are Px4Backend's, line
\* by line; the calls below are made of them.
ArduPilot(action) == autopilot = "ardupilot" /\ action

ardupilot_inbox == ArduPilot(ingest_inbox)
wait_inbox == ArduPilot(Round)
connect == ArduPilot(Connect \/ ConnectReturns)
preflight == ArduPilot(Preflight \/ PreflightReturns)
arm == ArduPilot(Arm \/ ArmReturns)
disarm == ArduPilot(Disarm)
enter_offboard == ArduPilot(EnterOffboard \/ EnterOffboardReturns)
command_velocity == ArduPilot(SetVelocity \/ SetVelocityReturns)
command_position == ArduPilot(SetPosition \/ SetPositionReturns)
hold_now == ArduPilot(Hold \/ HoldReturns)
tick == ArduPilot(Tick \/ TickReturns)
takeoff_now == ArduPilot(Climb)
land_now == ArduPilot(Land)
ardupilot_failsafe == ArduPilot(Failsafe)
ardupilot_revoke == ArduPilot(inject_revoke)

ArduPilotNext ==
    \/ ardupilot_inbox \/ wait_inbox \/ connect \/ preflight \/ arm \/ disarm
    \/ enter_offboard \/ command_velocity \/ command_position \/ hold_now \/ tick
    \/ takeoff_now \/ land_now \/ ardupilot_failsafe \/ ardupilot_revoke
    \/ ArduPilot(Touchdown \/ Recover \/ Rebind \/ Environment)

Next ==
    /\ UNCHANGED autopilot
    /\ \/ autopilot = "px4" /\ Acts
       \/ ArduPilotNext

\* The thread runs; whoever flies offboard ticks; heartbeats are lost, but not
\* all of them.
Steps(action) == UNCHANGED autopilot /\ action
Fairness ==
    /\ WF_vars(Steps(Proceeds))
    /\ WF_vars(Steps(Tick))
    /\ SF_vars(Steps(SendsHeartbeat))

Spec == Init /\ [][Next]_vars /\ Fairness

\* A vehicle that has disarmed or failed safe, and stays so, does not keep a
\* live handle for ever.
LossNoticed ==
    []<>~(HandleLive /\ link /\ (~vehicle_armed \/ vehicle_shape # Flying))
=============================================================================
