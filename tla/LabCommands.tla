------------------------------ MODULE LabCommands ------------------------------
(***************************************************************************)
(* The commands of robot-lab, by name: which of them a body is offered,    *)
(* the kernel events each stands for (apply.rs), and the walk of a typed   *)
(* handle that replaces the events where one binds (Lab::try_attach).  The *)
(* bodies are the catalogs' four, those that intern_robot knows: one of    *)
(* another id, in a custom scene, would have no walks.                     *)
(***************************************************************************)
EXTENDS WorldSession

-----------------------------------------------------------------------------
(* The commands, as kernel events. *)

ENV == {"SetWind", "SetWaves", "SetCurrent"}
\* Fault: a setpoint only freshens the heartbeat.
FreshOnly == <<"HeartbeatFresh">>
mission == <<"HeartbeatFresh", "MissionCommand">>

aerial_events(b) ==
    [Arm |-> <<"Arm">>, Disarm |-> <<"Disarm">>, EnableActuators |-> <<"EnableActuators">>,
     Offboard |-> <<"HeartbeatFresh", "EnterOffboard">>, Takeoff |-> <<"Takeoff">>,
     Airborne |-> <<"ReachedAltitude">>, Land |-> <<"Land">>, Touchdown |-> <<"Touchdown">>,
     Failsafe |-> <<"TriggerFailsafe">>, SetCharge |-> <<>>,
     Velocity |-> mission, Drive |-> mission, Thrust |-> mission, Position |-> mission,
     Hold |-> mission,
     Recover |-> IF Admits(b, "Recover") THEN <<"Recover">> ELSE <<"Disarm", "Recover">>]

ground_events ==
    [Failsafe |-> <<"EStop">>, Estop |-> <<"EStop">>, Release |-> <<"Release">>,
     Halt |-> <<"Halt">>, Park |-> <<"Halt">>, Clear |-> <<"ClearEstop">>, SetCharge |-> <<>>,
     Velocity |-> <<"DriveCommand">>, Drive |-> <<"DriveCommand">>,
     Thrust |-> <<"DriveCommand">>, Hold |-> <<"DriveCommand">>]

marine_events ==
    [Failsafe |-> <<"Failsafe">>, Undock |-> <<"Undock">>, Dock |-> <<"Dock">>,
     Station |-> <<"Station">>, Resume |-> <<"Resume">>, Recover |-> <<"Recover">>,
     SetCharge |-> <<>>,
     Velocity |-> <<"ThrustCommand">>, Drive |-> <<"ThrustCommand">>,
     Thrust |-> <<"ThrustCommand">>, Hold |-> <<"ThrustCommand">>]

events(b) ==
    CASE Domain(b.id) = "aerial" -> aerial_events(b)
      [] Domain(b.id) = "ground" -> ground_events
      [] Domain(b.id) = "marine" -> marine_events

accepted_by(b, cmd) == cmd \in DOMAIN events(b) /\ Posted(b, events(b)[cmd]).error = "none"

\* The names another name stands for are left off the list.
alias(b, cmd) ==
    \/ cmd = "Park"
    \/ cmd = "Failsafe" /\ Domain(b.id) = "ground"
    \/ cmd \in {"Velocity", "Position"} /\ Domain(b.id) # "aerial"
    \/ cmd = "Drive" /\ Domain(b.id) # "ground"
    \/ cmd = "Thrust" /\ Domain(b.id) # "marine"

on_legal_list(b, cmd) == accepted_by(b, cmd) /\ ~alias(b, cmd)

ensure_tool(b, cmd) == cmd \in ENV \/ on_legal_list(b, cmd)

attach_takeoff_grant(b, cmd) ==
    cmd = "Takeoff" /\ Domain(b.id) = "aerial"
    /\ Kind(b) \in {"PreflightReady", "Armed", "Offboard"}
ensure_tool_or_attach_grant(b, cmd) == ensure_tool(b, cmd) \/ attach_takeoff_grant(b, cmd)

Commanded(b, cmd) ==
    CASE cmd \in {"Velocity", "Drive", "Thrust"} -> [b EXCEPT !.command = "velocity"]
      [] cmd \in {"Position", "Hold"} -> [b EXCEPT !.command = "hold"]
      [] OTHER -> b

\* Fault: a recover that cannot be finished has disarmed the vehicle.
RecoverHalfway(b, cmd) ==
    CASE cmd \in ENV -> [body |-> b, error |-> "none"]
      [] cmd \notin ENV /\ cmd \notin DOMAIN events(b) -> [body |-> b, error |-> "WrongDomain"]
      [] OTHER ->
            LET r == Posted(b, events(b)[cmd]) IN
            IF r.error = "none" THEN [r EXCEPT !.body = Commanded(@, cmd)] ELSE r

\* apply_action_world.  A recover that cannot be finished posts nothing; the
\* other commands leave the events before the refused one posted.
apply_action(b, cmd) ==
    CASE cmd \in ENV -> [body |-> b, error |-> "none"]
      [] cmd \notin ENV /\ cmd \notin DOMAIN events(b) -> [body |-> b, error |-> "WrongDomain"]
      [] OTHER ->
            LET r == Posted(b, events(b)[cmd]) IN
            CASE r.error = "none" -> [r EXCEPT !.body = Commanded(@, cmd)]
              [] r.error # "none" /\ cmd = "Recover" -> [r EXCEPT !.body = b]
              [] OTHER -> r

-----------------------------------------------------------------------------
(* The commands, as walks of typed handles.  The backend a walk returns is *)
(* dropped: what it has staged and not flushed is lost with it.            *)

enter_offboard_now ==
    Walk({"Armed"}, FALSE, <<"HeartbeatFresh", "EnterOffboard", "EnableActuators">>, "zero")
velocity_now == Walk(OffboardControl, TRUE, mission, "velocity")

aerial_walks(b) ==
    [Arm |-> <<Walk({"PreflightReady"}, FALSE, <<"Arm">>, "none")>>,
     Offboard |-> <<enter_offboard_now>>,
     EnableActuators |->
        <<Walk(OffboardControl \cup {"Armed"}, FALSE, <<"EnableActuators">>, "none")>>,
     Takeoff |-> <<attach_takeoff, attach_start_takeoff>>,
     Airborne |-> <<attach_airborne>>, Land |-> <<attach_land>>,
     Touchdown |-> <<attach_touchdown>>, Failsafe |-> <<attach_failsafe>>,
     Disarm |-> <<attach_disarm>>, Recover |-> <<attach_recover_ready(b)>>,
     Hold |-> <<attach_hold>>, Position |-> <<attach_hold>>, Velocity |-> <<velocity_now>>]

ground_walks ==
    [Failsafe |-> <<attach_estop>>, Estop |-> <<attach_estop>>, Release |-> <<attach_drive>>,
     Halt |-> <<attach_park>>, Park |-> <<attach_park>>, Clear |-> <<attach_reset>>,
     Hold |-> <<attach_ground_hold>>,
     Drive |-> <<Walk({"Moving"}, FALSE, <<"DriveCommand">>, "velocity")>>]

marine_walks ==
    [Failsafe |-> <<attach_marine_failsafe>>, Undock |-> <<attach_undock>>,
     Dock |-> <<attach_dock>>, Station |-> <<attach_station>>, Resume |-> <<attach_resume>>,
     Recover |-> <<attach_recover>>, Hold |-> <<attach_marine_hold>>,
     Thrust |-> <<Walk({"Underway", "StationKeep"}, FALSE, <<"ThrustCommand">>, "velocity")>>]

walks(b, cmd) ==
    LET by == CASE Domain(b.id) = "aerial" -> aerial_walks(b)
                [] Domain(b.id) = "ground" -> ground_walks
                [] Domain(b.id) = "marine" -> marine_walks
    IN  IF cmd \in DOMAIN by THEN by[cmd] ELSE <<>>

\* A velocity that is set is flushed by the same call.
Taken(b, w) ==
    LET r == Attach(b, w) IN
    IF r.error = "none" /\ w.stages = "velocity" THEN [r EXCEPT !.body.command = "velocity"]
                                                 ELSE r

\* try_attach: the first walk that binds; Protocol if none does.
Binding(b, ws) == {i \in DOMAIN ws : Kind(b) \in ws[i].from}
Bound(b, ws) == ws[CHOOSE i \in Binding(b, ws) : \A j \in Binding(b, ws) : i <= j]
try_attach(b, ws) ==
    IF Binding(b, ws) = {} THEN [body |-> b, error |-> "Protocol"] ELSE Taken(b, Bound(b, ws))

\* What a command that was walked is logged as.
logs(b, cmd) ==
    CASE cmd = "Takeoff" /\ Kind(b) = "PreflightReady" ->
            <<"Arm", "Offboard", "EnableActuators", "Takeoff">>
      [] cmd = "Recover" /\ Domain(b.id) = "aerial" /\ Kind(b) = "Failsafe" ->
            <<"Disarm", "Recover">>
      [] OTHER -> <<cmd>>

-----------------------------------------------------------------------------
(* A command given to act_through_attach, past its gate. *)

\* Fault: a replay posts the events of what was walked.
ThroughEvents(b, cmd) == apply_action(b, cmd)

Through(b, cmd) ==
    LET r == try_attach(b, walks(b, cmd)) IN
    IF r.error = "Protocol" THEN apply_action(b, cmd) ELSE r

-----------------------------------------------------------------------------
(* The calls of typed handles that agents and the script make. *)

grant_drone_attached ==
    <<attach_takeoff, attach_start_takeoff,
      Walk({"Armed"}, FALSE,
           <<"HeartbeatFresh", "EnterOffboard", "EnableActuators", "Takeoff", "EnableActuators">>,
           "zero")>>

\* The walks of the agents' typed calls.
agent_walks(b, cmd) ==
    CASE cmd = "Grant" -> grant_drone_attached
      [] cmd = "Takeoff" -> <<attach_takeoff>>
      [] cmd = "Fly" -> <<Walk({"Offboard", "Takeoff", "Airborne"}, TRUE, mission, "velocity")>>
      [] cmd = "Thrust" -> <<Walk({"Underway"}, FALSE, <<"ThrustCommand">>, "velocity")>>
      [] cmd = "Keep" -> walks(b, "Thrust")
      [] OTHER -> walks(b, cmd)

If(condition, seq) == IF condition THEN seq ELSE <<>>

\* script_drone, script_rover, script_skiff: what the script calls by the kind of
\* the handle.
script(b, late, high) ==
    CASE Kind(b) = "PreflightReady" -> <<"Takeoff">>
      [] Kind(b) \in {"Armed", "Offboard"} -> <<"Grant">>
      [] Kind(b) = "Takeoff" -> <<"Velocity">> \o If(high, <<"Airborne">>)
      [] Kind(b) = "Airborne" -> IF late THEN <<"Land">> ELSE <<"Velocity">>
      [] Kind(b) = "Landing" -> <<"Velocity">> \o If(~high, <<"Touchdown">>)
      [] Kind(b) = "Parked" -> <<"Release">>
      [] Kind(b) = "Moving" -> <<"Drive">>
      [] Kind(b) = "Docked" -> <<"Undock">>
      [] Kind(b) = "Underway" -> IF b.id = "skiff" /\ late THEN <<"Station">> ELSE <<"Thrust">>
      [] Kind(b) = "StationKeep" -> If(b.id = "skiff", <<"Keep">>)
      [] OTHER -> <<>>
=============================================================================
