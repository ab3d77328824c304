----------------------------- MODULE WorldSession -----------------------------
(***************************************************************************)
(* The walks of flight-sim's WorldSession: attach to a body as it is, take *)
(* the typed handle through its calls, and give back the backend.  Racks,  *)
(* plants and labs move the bodies of a world by these.                    *)
(*                                                                         *)
(* A walk binds a fresh handle, so the handle agrees with its body and its *)
(* permit is current: what can refuse it is the state of the body.  The    *)
(* epoch, which the handles that stay bound depend on, is AerialCalls' and *)
(* Permits' subject.  A body is its kernel's state and what commands it.   *)
(***************************************************************************)
EXTENDS Naturals, Sequences

Air  == INSTANCE AerialKernel
Land == INSTANCE GroundKernel
Sea  == INSTANCE MarineKernel

\* The slots of a fleet, in the order everything visits them.
Slots == <<"drone", "rover", "skiff", "surveyor">>
Id == {Slots[i] : i \in 1..4}
Domain(id) == CASE id = "drone" -> "aerial" [] id = "rover" -> "ground" [] OTHER -> "marine"

coastal    == Id
inland     == {"drone", "rover"}
open_water == {"drone", "skiff", "surveyor"}

\* What a backend has staged, and what a body is commanded: a velocity, the
\* velocity zero, a pose to hold, or nothing.
Setpoint == {"none", "zero", "velocity", "hold"}

SafetyState(id) ==
    CASE Domain(id) = "aerial" -> Air!SafetyState
      [] Domain(id) = "ground" -> Land!GroundState
      [] Domain(id) = "marine" -> Sea!MarineState

Body(id) == [id : {id}, safety : SafetyState(id), command : Setpoint]

Ready == [Air!Disconnected EXCEPT !.phase = "Ready", !.imu_healthy = TRUE,
                                  !.estimator_valid = TRUE]

\* A body of a scene: ready, parked or docked.
Spawned(id) ==
    [id |-> id, command |-> "none",
     safety |-> CASE Domain(id) = "aerial" -> Ready
                  [] Domain(id) = "ground" -> Land!parked
                  [] Domain(id) = "marine" -> Sea!docked]

Kind(b) ==
    CASE Domain(b.id) = "aerial" -> Air!aerial_kind(b.safety)
      [] Domain(b.id) = "ground" -> Land!ground_kind(b.safety)
      [] Domain(b.id) = "marine" -> Sea!marine_kind(b.safety)

Admits(b, e) ==
    CASE Domain(b.id) = "aerial" -> Air!Admits(b.safety, e)
      [] Domain(b.id) = "ground" -> Land!Admits(b.safety, e)
      [] Domain(b.id) = "marine" -> Sea!Admits(b.safety, e)

After(b, e) ==
    CASE Domain(b.id) = "aerial" -> Air!After(b.safety, e)
      [] Domain(b.id) = "ground" -> Land!After(b.safety, e)
      [] Domain(b.id) = "marine" -> Sea!After(b.safety, e)

\* The propulsion of a body is live.
actuators_granted(b) ==
    CASE Domain(b.id) = "aerial" ->
            b.safety.actuators_enabled /\ b.safety.armed /\ ~b.safety.failsafe
      [] Domain(b.id) = "ground" -> b.safety.drive_enabled /\ ~b.safety.estop
      [] Domain(b.id) = "marine" -> b.safety.thrust_enabled /\ ~b.safety.failsafe

\* Failsafe or E-stop is latched.
Tripped(b) == IF Domain(b.id) = "ground" THEN b.safety.estop ELSE b.safety.failsafe

\* Fault: a body that fails safe keeps its command.
CutsOnLanding(b, e) == e \in {"Touchdown", "Recover", "Halt"}

\* aerial_event, ground_event, marine_event, and the sync of a handle's state:
\* the events after which nothing commands the body.
Cuts(b, e) ==
    \/ e \in {"Touchdown", "Recover", "Halt"}
    \/ Domain(b.id) = "aerial" /\ After(b, e).failsafe
    \/ Domain(b.id) = "ground" /\ ~After(b, e).drive_enabled
    \/ Domain(b.id) = "marine" /\ ~After(b, e).thrust_enabled

Post(b, e) == [b EXCEPT !.safety = After(b, e),
                        !.command = IF Cuts(b, e) THEN "none" ELSE @]

\* apply_setpoint: nothing staged leaves the body's command alone.
Flushed(b, setpoint) == IF setpoint = "none" THEN b ELSE [b EXCEPT !.command = setpoint]

\* World::try_step keeps the command of a body whose propulsion is live and is
\* not cut (its battery, its wet rotors), and drops it otherwise.
Stepped(b, cut) ==
    IF actuators_granted(b) /\ ~cut THEN b ELSE [b EXCEPT !.command = "none"]

-----------------------------------------------------------------------------
(* The walks: the kinds attach must bind, the events the calls post in     *)
(* turn, and what the returned backend has staged.  A walk with live set   *)
(* shows its permit to require_live_permit first, which asks the body for  *)
(* a fresh heartbeat.                                                      *)

Walk(from, live, posts, stages) ==
    [from |-> from, live |-> live, posts |-> posts, stages |-> stages]

OffboardControl == {"Offboard", "Takeoff", "Airborne", "Landing"}
\* Fault: a vehicle that lands cannot be failed safe or disarmed by its handle.
CanTripAloft == {"Offboard", "Takeoff", "Airborne", "PreflightReady", "Armed"}
CanTripFailsafe == OffboardControl \cup {"PreflightReady", "Armed"}

arm_and_enter == <<"Arm", "HeartbeatFresh", "EnterOffboard", "EnableActuators">>

attach_offboard == Walk({"PreflightReady"}, FALSE, arm_and_enter, "zero")
attach_takeoff ==
    Walk({"PreflightReady"}, FALSE, arm_and_enter \o <<"Takeoff", "EnableActuators">>, "zero")
attach_start_takeoff == Walk({"Offboard"}, TRUE, <<"Takeoff", "EnableActuators">>, "none")
attach_airborne  == Walk({"Takeoff"}, TRUE, <<"ReachedAltitude">>, "none")
attach_land      == Walk({"Takeoff", "Airborne"}, TRUE, <<"Land">>, "none")
attach_touchdown == Walk({"Landing", "Failsafe"}, FALSE, <<"Touchdown">>, "none")
attach_failsafe  == Walk(CanTripFailsafe, FALSE, <<"TriggerFailsafe">>, "none")
attach_disarm    == Walk(CanTripFailsafe, FALSE, <<"Disarm">>, "none")
attach_hold      == Walk(OffboardControl, TRUE, <<"HeartbeatFresh", "MissionCommand">>, "hold")
attach_recover_ready(b) ==
    Walk({"Failsafe", "Recovery"}, FALSE,
         IF Kind(b) = "Failsafe" THEN <<"Disarm", "Recover">> ELSE <<"Recover">>, "none")

attach_drive       == Walk({"Parked"}, FALSE, <<"Release">>, "none")
attach_park        == Walk({"Moving"}, FALSE, <<"Halt">>, "none")
attach_estop       == Walk({"Parked", "Moving"}, FALSE, <<"EStop">>, "none")
attach_reset       == Walk({"EStopped"}, FALSE, <<"ClearEstop">>, "none")
attach_ground_hold == Walk({"Moving"}, FALSE, <<"DriveCommand">>, "hold")

attach_undock  == Walk({"Docked"}, FALSE, <<"Undock">>, "none")
attach_station == Walk({"Underway"}, FALSE, <<"Station">>, "none")
attach_resume  == Walk({"StationKeep"}, FALSE, <<"Resume">>, "none")
attach_dock    == Walk({"Underway", "StationKeep"}, FALSE, <<"Dock">>, "none")
attach_marine_failsafe == Walk({"Underway", "StationKeep"}, FALSE, <<"Failsafe">>, "none")
attach_recover == Walk({"Failsafe"}, FALSE, <<"Recover">>, "none")
attach_marine_hold ==
    Walk({"Underway", "StationKeep"}, FALSE, <<"ThrustCommand">>, "hold")

\* A velocity or a position set on a backend, without a handle.
Command(b) ==
    Walk({Kind(b)}, FALSE,
         CASE Domain(b.id) = "aerial" -> <<"HeartbeatFresh", "MissionCommand">>
           [] Domain(b.id) = "ground" -> <<"DriveCommand">>
           [] Domain(b.id) = "marine" -> <<"ThrustCommand">>, "velocity")

\* The events of a walk up to the first the kernel refuses.  (There is one
\* outcome; a set holds it for each step of it to be computed once.)
Given(r, e) ==
    CASE r.error # "none" -> r
      [] r.error = "none" /\ Admits(r.body, e) -> [r EXCEPT !.body = Post(@, e)]
      [] OTHER -> [r EXCEPT !.error = "Rejected"]

Posted(b, posts) ==
    LET after[i \in 0..Len(posts)] ==
            IF i = 0 THEN {[body |-> b, error |-> "none"]}
                     ELSE {Given(r, posts[i]) : r \in after[i - 1]}
    IN  CHOOSE r \in after[Len(posts)] : TRUE

\* Fault: a disarm leaves the body its command.
HoldSettled(b, w) == IF w.stages = "hold" THEN [b EXCEPT !.command = "hold"] ELSE b

\* A hold is flushed by its walk, and a disarm clears the command.
Settled(b, w) ==
    CASE w.stages = "hold" -> [b EXCEPT !.command = "hold"]
      [] w.posts = <<"Disarm">> -> [b EXCEPT !.command = "none"]
      [] OTHER -> b

Attach(b, w) ==
    CASE Kind(b) \notin w.from -> [body |-> b, error |-> "Protocol"]
      [] Kind(b) \in w.from /\ w.live /\ ~b.safety.offboard_heartbeat_fresh ->
            [body |-> b, error |-> "Rejected"]
      [] OTHER -> LET r == Posted(b, w.posts) IN
                  IF r.error = "none" THEN [r EXCEPT !.body = Settled(@, w)] ELSE r

-----------------------------------------------------------------------------
(* Legs: walks of several bodies in turn, each replacing the backend that  *)
(* is kept for its body.  The first refusal is returned, and what was done *)
(* before it stays done.                                                   *)

Leg(id, walk) == <<[id |-> id, walk |-> walk]>>

Walked(w, leg) ==
    LET r == Attach(w.body[leg.id], leg.walk) IN
    [body     |-> [w.body EXCEPT ![leg.id] = r.body],
     setpoint |-> IF r.error = "none" THEN [w.setpoint EXCEPT ![leg.id] = leg.walk.stages]
                                      ELSE w.setpoint,
     error    |-> r.error]

\* The bodies and their backends after the legs, from w.
Follow(w, legs) ==
    LET after[i \in 0..Len(legs)] ==
            IF i = 0 THEN {w}
            ELSE {IF v.error = "none" THEN Walked(v, legs[i]) ELSE v : v \in after[i - 1]}
    IN  CHOOSE v \in after[Len(legs)] : TRUE

\* inject_revoke: an event that revokes, posted to an aerial body.
inject_revoke(b, e) ==
    IF Air!event_revokes_authority(e) THEN Posted(b, <<e>>)
                                      ELSE [body |-> b, error |-> "Rejected"]
=============================================================================
