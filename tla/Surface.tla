------------------------------- MODULE Surface -------------------------------
(***************************************************************************)
(* flight-mhs: the machine-hardware surface of a lab.  It lists the bodies *)
(* as devices, with one for the environment and one for the lab itself;    *)
(* compiles a reference of each (what it measures, what it can ever be     *)
(* written, what is legal now, which limits the numbers of a write meet);  *)
(* reads a channel; and previews a write against an observation, in an     *)
(* order of refusals of its own.  None of it moves a body.                 *)
(*                                                                         *)
(* The tables of the reference and the matches of the driver are written   *)
(* by hand, apart.  The numbers of a write are within the limits, too fast *)
(* a turn, too large, or not finite.                                       *)
(***************************************************************************)
EXTENDS LabCommands

Devices(bodies) == DOMAIN bodies \cup {"env", "lab"}

Domain_of(device) ==
    CASE device = "env" -> "environment"
      [] device = "lab" -> "lab"
      [] OTHER -> Domain(device)

-----------------------------------------------------------------------------
(* The reference of a device. *)

\* LabCmd::ALL
LabCmds ==
    {"Arm", "Disarm", "Offboard", "EnableActuators", "Takeoff", "Airborne", "Land", "Touchdown",
     "Failsafe", "Velocity", "Position", "Hold", "Drive", "Thrust", "Release", "Halt", "Park",
     "Estop", "Clear", "Undock", "Dock", "Station", "Resume", "Recover", "SetCharge"} \cup ENV

\* Fault: a ground body's table keeps the name that is an alias.
WritesWithPark(domain) ==
    CASE domain = "aerial" ->
            {"Arm", "Disarm", "Offboard", "EnableActuators", "Takeoff", "Airborne", "Land",
             "Touchdown", "Failsafe", "Velocity", "Position", "Hold", "Recover", "SetCharge"}
      [] domain = "ground" ->
            {"Release", "Drive", "Park", "Hold", "Estop", "Clear", "SetCharge"}
      [] domain = "marine" ->
            {"Undock", "Thrust", "Hold", "Dock", "Station", "Resume", "Failsafe", "Recover",
             "SetCharge"}
      [] domain = "environment" -> ENV
      [] OTHER -> {}

\* The commands a domain can ever accept.
domain_writes(domain) ==
    CASE domain = "aerial" ->
            {"Arm", "Disarm", "Offboard", "EnableActuators", "Takeoff", "Airborne", "Land",
             "Touchdown", "Failsafe", "Velocity", "Position", "Hold", "Recover", "SetCharge"}
      [] domain = "ground" ->
            {"Release", "Drive", "Halt", "Hold", "Estop", "Clear", "SetCharge"}
      [] domain = "marine" ->
            {"Undock", "Thrust", "Hold", "Dock", "Station", "Resume", "Failsafe", "Recover",
             "SetCharge"}
      [] domain = "environment" -> ENV
      [] OTHER -> {}

needs_values(cmd) ==
    cmd \in {"Velocity", "Position", "Drive", "Thrust", "SetCharge"} \cup ENV

robot_measures ==
    {"identity", "pose.ned", "velocity.ned", "hold_ned", "charge", "legal_cmds", "machine"}
measures(domain) ==
    CASE domain = "aerial" -> robot_measures \cup {"imu"}
      [] domain \in {"ground", "marine"} -> robot_measures
      [] domain = "environment" -> {"identity", "wind.ned", "current.ned", "waves", "hydro"}
      [] domain = "lab" ->
            {"identity", "t", "all_hold", "broken", "properties", "certificates", "message"}

robot_safety == {"legal_cmds", "finite", "yaw_rate", "charge", "ned_speed"}
safety_limits(domain) ==
    CASE domain = "aerial" -> robot_safety \cup {"position", "takeoff_grant"}
      [] domain = "ground" -> robot_safety
      [] domain = "marine" -> robot_safety \cup {"docked_failsafe"}
      [] domain = "environment" -> {"wind", "current", "wave_amp"}
      [] domain = "lab" -> {"p12", "catalog"}

legal_now(bodies, device) ==
    CASE device = "env" -> ENV
      [] device = "lab" -> {}
      [] OTHER -> {cmd \in LabCmds : on_legal_list(bodies[device], cmd)}

-----------------------------------------------------------------------------
(* Reads. *)

Channels == UNION {measures(d) : d \in {"aerial", "ground", "marine", "environment", "lab"}}

\* read_lab, read_env, read_robot: the channels each answers.
answers(bodies, device) ==
    CASE device = "lab" ->
            {"identity", "t", "all_hold", "broken", "properties", "message", "certificates"}
      [] device = "env" -> {"identity", "wind.ned", "current.ned", "waves", "hydro"}
      [] OTHER ->
            {"identity", "pose.ned", "velocity.ned", "hold_ned", "charge", "legal_cmds", "machine"}
            \cup (IF Domain(device) = "aerial" THEN {"imu"} ELSE {})

read_channel(bodies, device, channel) ==
    CASE device \notin Devices(bodies) -> "unknown_device"
      [] device \in Devices(bodies) /\ channel \notin answers(bodies, device) -> "unknown_channel"
      [] OTHER -> "ok"

-----------------------------------------------------------------------------
(* Writes. *)

Request(device, channel, numbers) ==
    [device |-> device, channel |-> channel, numbers |-> numbers]

Turning == {"Velocity", "Drive", "Thrust", "Position", "Hold"}
size_limit(cmd) ==
    CASE cmd \in {"Velocity", "Drive", "Thrust"} -> "ned_speed"
      [] cmd = "Position" -> "position"
      [] cmd = "SetCharge" -> "charge"
      [] cmd = "SetWind" -> "wind"
      [] cmd = "SetCurrent" -> "current"
      [] cmd = "SetWaves" -> "wave_amp"
      [] OTHER -> "none"

numeric_limit(cmd, numbers) ==
    CASE cmd \in Turning /\ numbers = "fast_turn" -> "yaw_rate"
      [] numbers = "large" -> size_limit(cmd)
      [] OTHER -> "none"

\* Fault: the grant of a takeoff is forgotten.
NoGrant(bodies, device, cmd) == FALSE

takeoff_grant(bodies, device, cmd) ==
    /\ cmd = "Takeoff" /\ Domain(device) = "aerial"
    /\ Kind(bodies[device]) \in {"PreflightReady", "Armed", "Offboard"}

\* LegalTools::allows: the command is legal now.
allows(bodies, device, cmd) == on_legal_list(bodies[device], cmd)

\* What is refused first: the lab, the channel, the device, the numbers, the
\* command, and the limits of a command that is legal.
preview_write(bodies, req) ==
    LET device == req.device  cmd == req.channel  env == cmd \in ENV IN
    IF device = "lab" THEN "read_only"
    ELSE IF cmd \notin LabCmds \/ env # (device = "env") THEN "unknown_channel"
    ELSE IF device \notin Devices(bodies) THEN "unknown_device"
    ELSE IF req.numbers = "not finite" THEN "limit"
    ELSE IF ~(env \/ allows(bodies, device, cmd) \/ takeoff_grant(bodies, device, cmd))
         THEN "not_legal"
    ELSE IF numeric_limit(cmd, req.numbers) # "none" THEN "limit"
    ELSE "ok"

-----------------------------------------------------------------------------
\* The reference tells the truth about the driver: what is legal now is listed
\* as a write; what is listed as measured is what a read answers; every limit
\* the numbers of a listed write can meet is listed, and a write whose numbers
\* meet one by their size is said to need them (surface.rs robot_reference,
\* env_reference and lab_reference against read_channel and numeric_limit).
ReferenceTrueOf(bodies) ==
    \A device \in Devices(bodies) :
      LET domain == Domain_of(device) IN
      /\ legal_now(bodies, device) \subseteq domain_writes(domain)
      /\ measures(domain) = {c \in Channels : read_channel(bodies, device, c) = "ok"}
      /\ \A cmd \in domain_writes(domain) :
           /\ \A numbers \in {"fast_turn", "large"} :
                numeric_limit(cmd, numbers) \in safety_limits(domain) \cup {"none"}
           /\ needs_values(cmd) <=> numeric_limit(cmd, "large") # "none"

\* The surface is a preview of the lab's gate: of a write in good order it lets
\* through exactly what act_through_attach would not refuse as illegal
\* (preview_write and takeoff_grant against Lab::ensure_tool_or_attach_grant).
PreviewAgreesOf(bodies) ==
    \A device \in DOMAIN bodies, cmd \in LabCmds \ ENV :
        preview_write(bodies, Request(device, cmd, "within")) = "ok"
            <=> ensure_tool_or_attach_grant(bodies[device], cmd)
=============================================================================
