------------------------------- MODULE Harnesses -------------------------------
(***************************************************************************)
(* The Kani harnesses of flight-verify, one definition each: what each     *)
(* assumes of its inputs, and what it asserts of every outcome.  A harness *)
(* of numbers draws a few of them; here they are all integers, lengths and *)
(* speeds on the line that the two bodies share.  The harnesses about      *)
(* quaternions are left out.                                               *)
(***************************************************************************)
EXTENDS AerialKernel, Mech

Ground == INSTANCE GroundKernel
Marine == INSTANCE MarineKernel

-----------------------------------------------------------------------------
(* The aerial kernel. *)

\* unpack of any word, when check_invariants accepts what it gives.
Legal == {s \in SafetyState : CheckInvariants(s)}

\* inductive_step, and actuators_require_arm of every event.
Inductive(s, e) ==
    Admits(s, e) =>
        /\ CheckInvariants(After(s, e))
        /\ After(s, e).actuators_enabled => After(s, e).armed
actuators_require_arm ==
    \A s \in Legal, e \in Event :
        /\ Inductive(s, e)
        /\ Admits(s, e) /\ After(s, e).phase \in {"Takeoff", "Airborne"} =>
              After(s, e).actuators_enabled /\ After(s, e).armed

failsafe_blocks_mission_commands ==
    \A s \in Legal, e \in {"MissionCommand", "Arm", "Takeoff", "Land", "EnterOffboard"} :
        s.failsafe => ~Admits(s, e)

arm_requires_sensors ==
    \A s \in Legal :
        LET r == [Grounded(s, "Ready") EXCEPT !.failsafe = FALSE] IN
        CheckInvariants(r) /\ ~(r.imu_healthy /\ r.estimator_valid) => ~Admits(r, "Arm")

land_only_from_flight_touchdown_returns_ready ==
    \A s \in Legal :
        /\ Admits(s, "Land") <=> ~s.failsafe /\ s.phase \in {"Takeoff", "Airborne"}
        /\ Admits(s, "Land") =>
              LET n == After(s, "Land") IN
              n.phase = "Landing" /\ n.armed /\ n.actuators_enabled /\ CheckInvariants(n)
        /\ Admits(s, "Touchdown") <=> s.phase \in {"Landing", "Failsafe"}
        /\ Admits(s, "Touchdown") =>
              LET n == After(s, "Touchdown") IN
              /\ n.phase = "Ready" /\ CheckInvariants(n)
              /\ ~(n.armed \/ n.actuators_enabled \/ n.offboard \/ n.failsafe)

takeoff_only_from_armed_reached_altitude_only_from_takeoff ==
    \A s \in Legal :
        /\ Admits(s, "Takeoff") <=> ~s.failsafe /\ s.phase = "Armed" /\ s.armed
        /\ Admits(s, "Takeoff") =>
              LET n == After(s, "Takeoff") IN
              n.phase = "Takeoff" /\ n.armed /\ n.actuators_enabled /\ CheckInvariants(n)
        /\ Admits(s, "ReachedAltitude") <=> s.phase = "Takeoff"
        /\ Admits(s, "ReachedAltitude") =>
              LET n == After(s, "ReachedAltitude") IN
              n.phase = "Airborne" /\ CheckInvariants(n)

aerial_failsafe_always_returns_failsafe ==
    \A s \in Legal :
        LET n == After(s, "TriggerFailsafe") IN
        /\ Admits(s, "TriggerFailsafe")
        /\ n.phase = "Failsafe" /\ n.failsafe /\ ~n.offboard /\ CheckInvariants(n)

recover_only_from_recovery_returns_ready ==
    \A s \in Legal :
        /\ Admits(s, "Recover") <=> s.phase = "Recovery" /\ ~s.armed
        /\ Admits(s, "Recover") =>
              LET n == After(s, "Recover") IN
              n.phase = "Ready" /\ ~n.failsafe /\ CheckInvariants(n)

enter_offboard_only_from_flight_phases ==
    \A s \in Legal :
        /\ Admits(s, "EnterOffboard") <=>
              /\ ~s.failsafe /\ s.armed /\ s.offboard_heartbeat_fresh
              /\ s.phase \in {"Armed", "Takeoff", "Airborne", "Landing"}
        /\ Admits(s, "EnterOffboard") =>
              LET n == After(s, "EnterOffboard") IN
              n.offboard /\ n.phase = s.phase /\ CheckInvariants(n)

disarm_unarms_and_returns_ready_or_recovery ==
    \A s \in Legal :
        /\ Admits(s, "Disarm") <=> s.phase # "Disconnected"
        /\ Admits(s, "Disarm") =>
              LET n == After(s, "Disarm") IN
              /\ ~(n.armed \/ n.actuators_enabled \/ n.offboard) /\ CheckInvariants(n)
              /\ IF s.failsafe THEN n.phase = "Recovery" ELSE n.phase = "Ready" /\ ~n.failsafe

mission_command_requires_armed_actuators ==
    \A s \in Legal :
        /\ Admits(s, "MissionCommand") <=>
              /\ ~s.failsafe /\ s.armed /\ s.actuators_enabled
              /\ s.offboard => s.offboard_heartbeat_fresh
        /\ Admits(s, "MissionCommand") =>
              LET n == After(s, "MissionCommand") IN
              n.phase = s.phase /\ n.armed = s.armed /\ CheckInvariants(n)

attach_kind_maps_the_live_aerial_machine ==
    \A s \in SafetyState :
        LET k == aerial_kind(s) IN
        /\ s.phase = "Recovery" => k = "Recovery"
        /\ s.phase # "Recovery" /\ s.failsafe => k = "Failsafe"
        /\ ~s.failsafe =>
              /\ s.phase \in {"Disconnected", "Takeoff", "Airborne", "Landing", "Failsafe"} =>
                    k = s.phase
              /\ s.phase \in {"Connected", "Initializing", "Preflight"} => k = "Disarmed"
              /\ s.phase = "Ready" => k = "PreflightReady"
              /\ s.phase = "Armed" => k = IF s.offboard THEN "Offboard" ELSE "Armed"

AerialHarnesses ==
    /\ actuators_require_arm /\ failsafe_blocks_mission_commands /\ arm_requires_sensors
    /\ land_only_from_flight_touchdown_returns_ready
    /\ takeoff_only_from_armed_reached_altitude_only_from_takeoff
    /\ aerial_failsafe_always_returns_failsafe
    /\ recover_only_from_recovery_returns_ready
    /\ enter_offboard_only_from_flight_phases
    /\ disarm_unarms_and_returns_ready_or_recovery
    /\ mission_command_requires_armed_actuators
    /\ attach_kind_maps_the_live_aerial_machine

-----------------------------------------------------------------------------
(* The ground and the marine kernel. *)

ground_drive_requires_moving ==
    \A s \in Ground!GroundState, e \in Ground!GroundEvent :
        Ground!Admits(s, e) =>
            LET n == Ground!After(s, e) IN
            /\ Ground!ground_invariants(n)
            /\ n.drive_enabled => n.phase = "Moving" /\ ~n.estop

halt_only_from_moving_returns_parked ==
    \A s \in Ground!GroundState :
        /\ Ground!Admits(s, "Halt") <=> s.phase = "Moving"
        /\ Ground!Admits(s, "Halt") => Ground!After(s, "Halt") = Ground!parked

estop_always_returns_estopped ==
    \A s \in Ground!GroundState :
        Ground!Admits(s, "EStop") /\ Ground!After(s, "EStop") = Ground!stopped

clear_estop_only_from_estop_returns_parked ==
    \A s \in Ground!GroundState :
        /\ Ground!Admits(s, "ClearEstop") <=> s.phase = "EStop"
        /\ Ground!Admits(s, "ClearEstop") => Ground!After(s, "ClearEstop") = Ground!parked

release_only_from_parked_returns_moving ==
    \A s \in Ground!GroundState :
        /\ Ground!Admits(s, "Release") <=> s.phase = "Parked"
        /\ Ground!Admits(s, "Release") =>
              LET n == Ground!After(s, "Release") IN
              n.phase = "Moving" /\ n.drive_enabled /\ ~n.estop

drive_command_only_when_moving_and_enabled ==
    \A s \in Ground!GroundState :
        /\ Ground!Admits(s, "DriveCommand") <=>
              ~s.estop /\ s.phase = "Moving" /\ s.drive_enabled
        /\ Ground!Admits(s, "DriveCommand") =>
              LET n == Ground!After(s, "DriveCommand") IN
              n.phase = s.phase /\ n.drive_enabled /\ Ground!ground_invariants(n)

attach_kind_maps_the_live_ground_machine ==
    \A s \in [phase : Ground!GroundPhase, drive_enabled : BOOLEAN, estop : BOOLEAN] :
        Ground!ground_kind(s) =
            IF s.estop \/ s.phase = "EStop" THEN "EStopped" ELSE s.phase

GroundHarnesses ==
    /\ ground_drive_requires_moving
    /\ halt_only_from_moving_returns_parked
    /\ estop_always_returns_estopped
    /\ clear_estop_only_from_estop_returns_parked
    /\ release_only_from_parked_returns_moving
    /\ drive_command_only_when_moving_and_enabled
    /\ attach_kind_maps_the_live_ground_machine

marine_thrust_requires_grant ==
    \A s \in Marine!MarineState, e \in Marine!MarineEvent :
        Marine!Admits(s, e) =>
            LET n == Marine!After(s, e) IN
            /\ Marine!marine_invariants(n)
            /\ n.thrust_enabled => n.phase \in {"Underway", "StationKeep"}

dock_always_returns_docked ==
    \A s \in Marine!MarineState :
        Marine!Admits(s, "Dock") /\ Marine!After(s, "Dock") = Marine!docked

failsafe_always_returns_failsafe ==
    \A s \in Marine!MarineState :
        Marine!Admits(s, "Failsafe") /\ Marine!After(s, "Failsafe") = Marine!tripped

recover_only_from_failsafe_returns_docked ==
    \A s \in Marine!MarineState :
        /\ Marine!Admits(s, "Recover") <=> s.phase = "Failsafe"
        /\ Marine!Admits(s, "Recover") => Marine!After(s, "Recover") = Marine!docked

\* Undocking, keeping station and resuming: e is for the phase from, and gives to.
Moves(e, from, to) ==
    \A s \in Marine!MarineState :
        /\ Marine!Admits(s, e) <=> ~s.failsafe /\ s.phase = from
        /\ Marine!Admits(s, e) =>
              LET n == Marine!After(s, e) IN
              n.phase = to /\ n.thrust_enabled /\ Marine!marine_invariants(n)
undock_only_from_docked_returns_underway == Moves("Undock", "Docked", "Underway")
station_only_from_underway_returns_station_keep == Moves("Station", "Underway", "StationKeep")
resume_only_from_station_keep_returns_underway == Moves("Resume", "StationKeep", "Underway")

thrust_command_only_when_granted ==
    \A s \in Marine!MarineState :
        /\ Marine!Admits(s, "ThrustCommand") <=> ~s.failsafe /\ s.thrust_enabled
        /\ Marine!Admits(s, "ThrustCommand") =>
              LET n == Marine!After(s, "ThrustCommand") IN
              n.thrust_enabled /\ Marine!marine_invariants(n)

attach_kind_maps_the_live_marine_machine ==
    \A s \in [phase : Marine!MarinePhase, thrust_enabled : BOOLEAN, failsafe : BOOLEAN] :
        Marine!marine_kind(s) = IF s.failsafe THEN "Failsafe" ELSE s.phase

MarineHarnesses ==
    /\ marine_thrust_requires_grant
    /\ dock_always_returns_docked
    /\ failsafe_always_returns_failsafe
    /\ recover_only_from_failsafe_returns_docked
    /\ undock_only_from_docked_returns_underway
    /\ station_only_from_underway_returns_station_keep
    /\ resume_only_from_station_keep_returns_underway
    /\ thrust_command_only_when_granted
    /\ attach_kind_maps_the_live_marine_machine

\* Whatever state that its invariants allow a kernel is put in, not only those
\* it reaches from boot (a handle is built on the state that a plant reports):
\* each event is admitted from exactly the states its harness says, leaves what
\* the harness says, and never leaves the invariants.
KernelHarnesses == AerialHarnesses /\ GroundHarnesses /\ MarineHarnesses

-----------------------------------------------------------------------------
(* Mechanics. *)

contact_never_penetrates ==
    \A z, vz, terrain_z \in Int :
        LET before == [z |-> z, vz |-> vz, terrain_z |-> terrain_z, impulse |-> 0]
            after == resolve_vertical_contact(before) IN
        /\ contact_invariants(before, after)
        /\ on_plane(after) <=> before.z >= before.terrain_z

\* Two bodies of which one can be moved.
Meeting ==
    {c \in [a : SphereBody, b : SphereBody, impulse : {0}] : c.a.m > 0 \/ c.b.m > 0}

spheres_never_interpenetrate ==
    \A before \in Meeting :
        LET after == resolve_sphere_contact(before) IN
        sphere_contact_invariants(before, after)

sphere_friction_stays_in_cone ==
    \A vt, k, mu, jn \in Nat : friction_invariants(mu, jn, tangent_impulse(vt, k, mu, jn))

drag_never_adds_energy ==
    \A v \in Vector, speed \in Nat, coefficient \in Int :
        drag_opposes_flow(v, quadratic_drag(v, speed, coefficient))

buoyancy_zero_when_dry ==
    \A displaced, density, gravity \in Int :
        LET f == buoyancy_ned(displaced, density, gravity) IN
        /\ buoyancy_only_when_wet(displaced, f)
        /\ displaced > 0 /\ density > 0 /\ gravity > 0 => f < 0

\* A gate on thrust is closed to all thrust but none, and open to any.
Gates(G(_, _)) == \A open \in BOOLEAN, t \in Vector : G(open, t) <=> open \/ t = Zero3
thrust_zero_unless_granted == Gates(thrust_only_when_granted)
ground_thrust_zero_off_contact == Gates(ground_thrust_only_on_contact)
marine_thrust_zero_when_dry == Gates(marine_thrust_only_when_wet)
aerial_thrust_zero_when_wet == Gates(aerial_thrust_only_in_air)

empty_battery_zero_thrust ==
    \A charge, magnitude, dt, watts \in Int, t \in Vector :
        /\ battery_gates_thrust(charge, t) <=> charge > 0 \/ t = Zero3
        /\ drain_from_thrust(charge, magnitude, dt, watts) >= 0

\* Of two cells that lose no more than they hold.
shallow_water_two_cell_conserves_mass ==
    \A h1, h2 \in Nat, f01, f10 \in Int :
        Magnitude(f01 - f10) <= Least(h1, h2) =>
            LET h == two_cell_periodic_mass(<<h1, h2>>, f01, f10) IN
            h[1] >= 0 /\ h[2] >= 0 /\ h[1] + h[2] = h1 + h2

hold_velocity_restores_pose ==
    \A hold, position \in Vector, kp \in Int :
        LET cmd == hold_velocity_ned(hold, position, kp) IN
        /\ hold_restores_pose(hold, position, cmd)
        /\ kp = 0 => cmd = Zero3
        /\ \A i \in Axis : cmd[i] * (hold[i] - position[i]) >= 0

-----------------------------------------------------------------------------
(* The boundaries of the plant. *)

command_after_deadline(missed, next) == IF missed THEN Zero3 ELSE next

hitl_miss_applies_zero ==
    \A missed \in BOOLEAN, next \in Vector :
        command_after_deadline(missed, next) # Zero3 => ~missed

\* ActuationPermit::check: Ok or not; an empty lease bounds nothing.
check(permit, live_epoch, live_vehicle, now) ==
    /\ permit.vehicle = live_vehicle
    /\ permit.epoch = live_epoch
    /\ \A max_age \in permit.lease : now - permit.issued_at < max_age

permit_epoch_mismatch_is_stale ==
    \A live, issued, now \in Nat :
        check([vehicle |-> 1, epoch |-> issued, lease |-> {}, issued_at |-> 0], live, 1, now)
            <=> live = issued
=============================================================================
