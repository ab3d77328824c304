---------------------------- MODULE AerialKernel ----------------------------
(***************************************************************************)
(* The aerial safety kernel of flight-core: the pure function              *)
(* step : (SafetyState, Event) -> Result<SafetyState, Reject>, the         *)
(* predicate check_invariants, the revoke table, and the typestate kind a  *)
(* plant state is wrapped as.  No state of its own: AerialMachine runs it, *)
(* AerialSession shares one instance of it between several handles.        *)
(*                                                                         *)
(* step is written as Admits (its guards, all of which return before the   *)
(* copy n is used) and After (what it assigns to n).  Which Reject is      *)
(* returned is left out; that one is returned is ~Admits.                  *)
(*                                                                         *)
(* Definitions marked "Fault" are plausible mistakes in the one below      *)
(* them; no specification uses them.  Substituting one shows which         *)
(* property notices.                                                       *)
(***************************************************************************)

Phase == {"Disconnected", "Connected", "Initializing", "Preflight", "Ready",
          "Armed", "Takeoff", "Airborne", "Landing", "Failsafe", "Recovery"}

Event == {"Connect", "Disconnect", "InitComplete", "Initialized",
          "PreflightPassed", "PreflightFailed", "ImuHealthy", "ImuUnhealthy",
          "EstimatorValid", "EstimatorInvalid", "Arm", "Disarm",
          "EnterOffboard", "HeartbeatFresh", "HeartbeatStale",
          "EnableActuators", "DisableActuators", "Takeoff", "ReachedAltitude",
          "Land", "Touchdown", "MissionCommand", "TriggerFailsafe", "Recover"}

SafetyState ==
    [phase : Phase, armed : BOOLEAN, actuators_enabled : BOOLEAN,
     imu_healthy : BOOLEAN, estimator_valid : BOOLEAN,
     offboard_heartbeat_fresh : BOOLEAN, offboard : BOOLEAN,
     failsafe : BOOLEAN]

Disconnected ==
    [phase |-> "Disconnected", armed |-> FALSE, actuators_enabled |-> FALSE,
     imu_healthy |-> FALSE, estimator_valid |-> FALSE,
     offboard_heartbeat_fresh |-> FALSE, offboard |-> FALSE,
     failsafe |-> FALSE]

InFlight == {"Takeoff", "Airborne", "Landing"}

-----------------------------------------------------------------------------
(* The guards of step. *)

\* Fault: motors may be enabled behind a latched failsafe.
LatchedNoEnable(e) == e \in {"MissionCommand", "Arm", "Takeoff", "EnterOffboard", "Land",
                             "PreflightPassed", "ReachedAltitude"}

\* The events a latched failsafe refuses.
Latched(e) == e \in {"MissionCommand", "Arm", "Takeoff", "EnterOffboard", "Land",
                     "EnableActuators", "PreflightPassed", "ReachedAltitude"}

\* The phases each event may be taken in.
LegalIn(e) ==
    CASE e = "Connect"          -> {"Disconnected"}
      [] e = "InitComplete"     -> {"Connected"}
      [] e = "Initialized"      -> {"Initializing"}
      [] e \in {"PreflightPassed", "PreflightFailed"} -> {"Preflight"}
      [] e = "Arm"              -> {"Ready"}
      [] e = "Disarm"           -> Phase \ {"Disconnected"}
      [] e = "EnterOffboard"    -> InFlight \cup {"Armed"}
      [] e = "DisableActuators" -> Phase \ InFlight
      [] e = "Takeoff"          -> {"Armed"}
      [] e = "ReachedAltitude"  -> {"Takeoff"}
      [] e = "Land"             -> {"Airborne", "Takeoff"}
      [] e = "Touchdown"        -> {"Landing", "Failsafe"}
      [] e = "Recover"          -> {"Recovery"}
      [] OTHER                  -> Phase

NeedsSensors(e) == e \in {"PreflightPassed", "Arm"}
NeedsArmed(e)   == e \in {"EnterOffboard", "EnableActuators", "Takeoff", "MissionCommand"}

Admits(s, e) ==
    /\ s.failsafe => ~Latched(e)
    /\ s.phase \in LegalIn(e)
    /\ NeedsSensors(e) => s.imu_healthy /\ s.estimator_valid
    /\ NeedsArmed(e) => s.armed
    /\ e = "Recover" => ~s.armed
    /\ e = "MissionCommand" => s.actuators_enabled
    /\ e = "EnterOffboard" \/ (e = "MissionCommand" /\ s.offboard)
          => s.offboard_heartbeat_fresh

-----------------------------------------------------------------------------
(* The effects of step. *)

\* Fault: the phase changes but does not latch.
EnterFailsafeNoLatch(s) == [s EXCEPT !.phase = "Failsafe", !.offboard = FALSE]

EnterFailsafe(s) ==
    [s EXCEPT !.failsafe = TRUE, !.phase = "Failsafe", !.offboard = FALSE]

\* Fault: sensor or heartbeat loss only clears its bit.
FailsafeNever(cond, s) == s

FailsafeIf(cond, s) == IF cond THEN EnterFailsafe(s) ELSE s

\* Fault: a disarm that leaves the motors on.
GroundedMotorsOn(s, p) ==
    [s EXCEPT !.phase = p, !.armed = FALSE, !.offboard = FALSE]

\* Disarmed, motors off and not in offboard, on the ground in phase p.
Grounded(s, p) ==
    [s EXCEPT !.phase = p, !.armed = FALSE, !.actuators_enabled = FALSE,
              !.offboard = FALSE]

After(s, e) ==
    CASE e = "Connect"          -> [s EXCEPT !.phase = "Connected"]
      [] e = "Disconnect"       -> [Grounded(s, "Disconnected") EXCEPT !.failsafe = FALSE]
      [] e = "InitComplete"     -> [s EXCEPT !.phase = "Initializing"]
      [] e = "Initialized"      -> [s EXCEPT !.phase = "Preflight"]
      [] e = "PreflightPassed"  -> [s EXCEPT !.phase = "Ready"]
      [] e = "ImuHealthy"       -> [s EXCEPT !.imu_healthy = TRUE]
      [] e = "ImuUnhealthy"     -> [FailsafeIf(s.armed, s) EXCEPT !.imu_healthy = FALSE]
      [] e = "EstimatorValid"   -> [s EXCEPT !.estimator_valid = TRUE]
      [] e = "EstimatorInvalid" -> [FailsafeIf(s.armed, s) EXCEPT !.estimator_valid = FALSE]
      [] e = "Arm"              -> [s EXCEPT !.armed = TRUE, !.phase = "Armed"]
      [] e = "Disarm"           -> Grounded(s, IF s.failsafe THEN "Recovery" ELSE "Ready")
      [] e = "EnterOffboard"    -> [s EXCEPT !.offboard = TRUE]
      [] e = "HeartbeatFresh"   -> [s EXCEPT !.offboard_heartbeat_fresh = TRUE]
      [] e = "HeartbeatStale"   ->
            FailsafeIf(s.offboard, [s EXCEPT !.offboard_heartbeat_fresh = FALSE])
      [] e = "EnableActuators"  -> [s EXCEPT !.actuators_enabled = TRUE]
      [] e = "DisableActuators" -> [s EXCEPT !.actuators_enabled = FALSE]
      [] e = "Takeoff"          -> [s EXCEPT !.actuators_enabled = TRUE, !.phase = "Takeoff"]
      [] e = "ReachedAltitude"  -> [s EXCEPT !.phase = "Airborne"]
      [] e = "Land"             -> [s EXCEPT !.phase = "Landing"]
      [] e = "Touchdown"        -> [Grounded(s, "Ready") EXCEPT !.failsafe = FALSE]
      [] e = "TriggerFailsafe"  -> EnterFailsafe(s)
      [] e = "Recover"          -> [s EXCEPT !.failsafe = FALSE, !.phase = "Ready"]
      [] e \in {"PreflightFailed", "MissionCommand"} -> s

-----------------------------------------------------------------------------
(* The revoke table and the predicates callers use. *)

event_revokes_authority(e) ==
    e \in {"TriggerFailsafe", "Disarm", "Disconnect", "HeartbeatStale",
           "EstimatorInvalid", "ImuUnhealthy"}

\* check_invariants: what every Ok result of step must satisfy.
CheckInvariants(s) ==
    /\ s.actuators_enabled => s.armed
    /\ s.offboard => s.armed
    /\ s.phase = "Failsafe" => s.failsafe
    /\ s.failsafe => s.phase \in {"Failsafe", "Recovery"}
    /\ s.phase = "Disconnected" =>
          ~s.armed /\ ~s.actuators_enabled /\ ~s.failsafe /\ ~s.offboard
    /\ s.phase \in InFlight \cup {"Armed"} => s.armed
    /\ s.phase \in InFlight => s.actuators_enabled
    /\ s.armed /\ ~s.failsafe => s.imu_healthy /\ s.estimator_valid

\* The typestate a handle gets when it attaches to a plant in state s.
aerial_kind(s) ==
    CASE s.phase = "Recovery" -> "Recovery"
      [] s.phase # "Recovery" /\ s.failsafe -> "Failsafe"
      [] ~s.failsafe /\ s.phase \in {"Connected", "Initializing", "Preflight"} -> "Disarmed"
      [] ~s.failsafe /\ s.phase = "Ready" -> "PreflightReady"
      [] ~s.failsafe /\ s.phase = "Armed" /\ s.offboard -> "Offboard"
      [] OTHER -> s.phase

\* The kinds an attached handle receives a permit for.
grants_actuation(kind) ==
    kind \in {"Armed", "Offboard", "Takeoff", "Airborne", "Landing"}
=============================================================================
