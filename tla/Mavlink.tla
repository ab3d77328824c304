------------------------------- MODULE Mavlink -------------------------------
(***************************************************************************)
(* The MAVLink messages a companion and a vehicle exchange, as records of  *)
(* the fields either side reads.  A target's mask is the set of the axes   *)
(* that are live; a coordinate is the tag of the value it carries.         *)
(***************************************************************************)
LOCAL INSTANCE Naturals

Axis == {"position", "velocity"}

\* ------------------------------------------------------------ heartbeats
ARDUPILOT_COPTER_RTL == "copter_rtl"
PX4_AUTO_RTL == "px4_auto_rtl"
Mode == {"offboard", "guided", "land", PX4_AUTO_RTL, ARDUPILOT_COPTER_RTL}
Status == {"active", "critical", "emergency", "flight_termination"}

heartbeat(autopilot, mavtype, armed, mode, status) ==
    [type |-> "HEARTBEAT", autopilot |-> autopilot, mavtype |-> mavtype,
     armed |-> armed, mode |-> mode, status |-> status]

gcs_heartbeat == heartbeat("invalid", "onboard_controller", FALSE, "offboard", "active")

px4_vehicle_heartbeat_status(armed, mode, status) ==
    heartbeat("px4", "quadrotor", armed, mode, status)
px4_vehicle_heartbeat(armed, mode) == px4_vehicle_heartbeat_status(armed, mode, "active")

ardupilot_vehicle_heartbeat_status(armed, mode, status) ==
    heartbeat("ardupilotmega", "quadrotor", armed, mode, status)
ardupilot_vehicle_heartbeat(armed, mode) ==
    ardupilot_vehicle_heartbeat_status(armed, mode, "active")

heartbeat_reports_armed(h) == h.armed

Distress(h) == h.status \in {"critical", "emergency", "flight_termination"}

heartbeat_revokes_authority(h) == Distress(h) \/ h.mode = PX4_AUTO_RTL

\* Landing is not failsafe, nor is a mode number of the other autopilot.
ardupilot_heartbeat_revokes_authority(h) == Distress(h) \/ h.mode = ARDUPILOT_COPTER_RTL

\* -------------------------------------------------------------- commands
COMMAND_LONG(command, on) ==
    [type |-> "COMMAND_LONG", command |-> command, on |-> on]

arm_disarm(arm) == COMMAND_LONG("ARM_DISARM", arm)
set_offboard_mode == COMMAND_LONG("DO_SET_MODE", TRUE)
set_guided_mode == COMMAND_LONG("DO_SET_MODE", TRUE)
nav_takeoff == COMMAND_LONG("NAV_TAKEOFF", TRUE)
nav_land == COMMAND_LONG("NAV_LAND", TRUE)
nav_loiter_unlim == COMMAND_LONG("NAV_LOITER_UNLIM", TRUE)
flight_termination(terminate) == COMMAND_LONG("DO_FLIGHTTERMINATION", terminate)

\* ------------------------------------------------------ targets and poses
velocity_only_mask == {"velocity"}
position_only_mask == {"position"}

target(mask, value) ==
    [type |-> "SET_POSITION_TARGET_LOCAL_NED", mask |-> mask, value |-> value]

set_velocity_ned(v) == target(velocity_only_mask, v)
set_position_ned(p) == target(position_only_mask, p)

\* Some(value) when the mask leaves an axis live, None otherwise.
None == <<>>
ned_velocity_from_target(d) == IF "velocity" \in d.mask THEN <<d.value>> ELSE None
ned_position_from_target(d) == IF "position" \in d.mask THEN <<d.value>> ELSE None

local_position_ned == [type |-> "LOCAL_POSITION_NED"]
=============================================================================
