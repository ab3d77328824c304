------------------------------ MODULE Research ------------------------------
(***************************************************************************)
(* Lab::research: an agent observes the lab, makes typed calls and returns *)
(* commands; the commands are applied through attach in order, and one     *)
(* step is taken.  The typed calls are logged by the agent itself.  With   *)
(* it research_probe, whose commands are fixed beforehand, and the script. *)
(*                                                                         *)
(* What an agent sees that is not a kernel's state, its altitude, what it  *)
(* touches and how far it has come, may be anything when it looks.  Hulls  *)
(* float.  Somebody else moves a body at most once in an experiment, at    *)
(* any point of the loop.                                                  *)
(***************************************************************************)
EXTENDS Lab, TLC

CONSTANTS
    Experiments,    \* the scenes and the agents run on them; "none" for a bare lab
    Chains,         \* the chains of operations given to a machine-hardware driver
    WAY             \* the ticks a hull makes way before it stations or docks

VARIABLES
    agent,          \* the agent of the experiment
    loop            \* the loop: where it is, what the agent saw, remembers, returned

rvars == <<vars, agent, loop>>

NoMemory == [probed |-> FALSE, stage |-> 0, way |-> 0, done |-> {}]
Start == [at |-> "idle", seen |-> <<>>, calls |-> <<>>, ends |-> {}, queue |-> <<>>,
          memory |-> NoMemory, disturbed |-> FALSE]

-----------------------------------------------------------------------------
(* What an agent decides: the typed calls it makes, those of them that end *)
(* its experiment if they succeed, whether it logs them, the commands it   *)
(* returns, and what it remembers.                                         *)

Idle(m) ==
    [calls |-> <<>>, ends |-> {}, logged |-> TRUE, returns |-> <<>>, memory |-> m]
Call_(id, cmd) == [id |-> id, cmd |-> cmd]
Calls(m, calls) == [Idle(m) EXCEPT !.calls = calls]
Returns(m, cmds) == [Idle(m) EXCEPT !.returns = cmds]

Probed(m) == [m EXCEPT !.probed = TRUE]
On(kinds, cmd) == [k \in kinds |-> cmd]
\* TLC's @@, written out for the proofs.
Also(on, more) ==
    [k \in DOMAIN on \cup DOMAIN more |-> IF k \in DOMAIN on THEN on[k] ELSE more[k]]

flying == OffboardControl
pad == {"PreflightReady", "Armed"}
Resting(b) == Kind(b) \in {"PreflightReady", "Parked", "Docked"}

\* The command a body at rest has to refuse.
Probe(id) ==
    CASE Domain(id) = "aerial" -> "Velocity"
      [] Domain(id) = "ground" -> "Drive"
      [] Domain(id) = "marine" -> "Thrust"

-----------------------------------------------------------------------------
(* The agents of one body: probe it at rest, then call what the kind of    *)
(* its handle asks for, until the call that ends it succeeds.              *)

Policy(robot, blind, on, end) ==
    [robot |-> robot, blind |-> blind, on |-> on, end |-> end, way |-> "none"]

granting == On(pad, "Grant")
\* Fault: an agent waits for Recovery, which a handle only passes through.
RearmRecovering == [Recovery |-> "Recover"]
rearm == On({"Failsafe", "Recovery"}, "Recover")

TypedAerialFailsafe ==
    Policy("drone", {}, Also(On(flying, "Failsafe"), Also(rearm, granting)), "Recover")
TypedAerialDisarm == Policy("drone", {}, Also(On(flying, "Disarm"), granting), "Disarm")
TypedAerialAirborne ==
    Policy("drone", {}, Also([Airborne |-> "Land", Takeoff |-> "Airborne"], granting), "Land")
TypedPositionHold == Policy("drone", {}, Also(On(flying, "Position"), granting), "Position")
TypedHold == Policy("drone", {}, Also(On(flying, "Hold"), granting), "Hold")
\* Its waypoints are reached or not: it never ends here.
TypedPathFollow == Policy("drone", {"Failsafe"}, Also(On(flying, "Position"), granting), "none")
TypedPadDisarm == Policy("drone", {}, On(pad, "Disarm"), "Disarm")
TypedPadFailsafe == Policy("drone", {}, Also(On(pad, "Failsafe"), rearm), "Recover")
TypedFailsafeTouchdown ==
    Policy("drone", {}, Also(On(pad, "Failsafe"), [Failsafe |-> "Touchdown"]), "Touchdown")

TypedGroundEstop ==
    Policy("rover", {}, Also(On({"Parked", "Moving"}, "Estop"), [EStopped |-> "Clear"]), "Clear")
TypedGroundHalt == Policy("rover", {}, [Moving |-> "Halt", Parked |-> "Release"], "Halt")
TypedGroundHold == Policy("rover", {}, [Moving |-> "Hold", Parked |-> "Release"], "Hold")

Way(id, then, on, end) == [Policy(id, {"Failsafe"}, on, end) EXCEPT !.way = then]
TypedStationDock ==
    Way("skiff", "Station",
        [StationKeep |-> "Dock", Docked |-> "Undock", Underway |-> "Thrust"], "Dock")
TypedHullDock == Way("skiff", "Dock", [Docked |-> "Undock", Underway |-> "Thrust"], "Dock")
TypedStationResume ==
    Policy("skiff", {"Failsafe"},
           [Docked |-> "Undock", Underway |-> "Station", StationKeep |-> "Resume"], "Resume")
TypedHullFailsafe ==
    Policy("skiff", {}, Also(On({"Underway", "StationKeep"}, "Failsafe"),
                             [Failsafe |-> "Recover", Docked |-> "Undock"]), "Recover")
TypedStationFailsafe ==
    Policy("skiff", {}, [Failsafe |-> "Recover", Docked |-> "Undock", Underway |-> "Station",
                         StationKeep |-> "Failsafe"], "Recover")

Surveyor(policy) == [policy EXCEPT !.robot = "surveyor"]
TypedSurveyorFailsafe == Surveyor(TypedHullFailsafe)
TypedSurveyorStationFailsafe == Surveyor(TypedStationFailsafe)
TypedSurveyorStationDock == Surveyor(TypedStationDock)
TypedSurveyorDock == Surveyor(TypedHullDock)
TypedSurveyorStationResume == Surveyor(TypedStationResume)

policies ==
    [TypedAerialFailsafe |-> TypedAerialFailsafe, TypedAerialDisarm |-> TypedAerialDisarm,
     TypedAerialAirborne |-> TypedAerialAirborne, TypedPositionHold |-> TypedPositionHold,
     TypedHold |-> TypedHold, TypedPathFollow |-> TypedPathFollow,
     TypedPadDisarm |-> TypedPadDisarm, TypedPadFailsafe |-> TypedPadFailsafe,
     TypedFailsafeTouchdown |-> TypedFailsafeTouchdown, TypedGroundEstop |-> TypedGroundEstop,
     TypedGroundHalt |-> TypedGroundHalt, TypedGroundHold |-> TypedGroundHold,
     TypedStationDock |-> TypedStationDock, TypedHullDock |-> TypedHullDock,
     TypedStationResume |-> TypedStationResume, TypedHullFailsafe |-> TypedHullFailsafe,
     TypedStationFailsafe |-> TypedStationFailsafe,
     TypedSurveyorFailsafe |-> TypedSurveyorFailsafe,
     TypedSurveyorStationFailsafe |-> TypedSurveyorStationFailsafe,
     TypedSurveyorStationDock |-> TypedSurveyorStationDock,
     TypedSurveyorDock |-> TypedSurveyorDock,
     TypedSurveyorStationResume |-> TypedSurveyorStationResume]

\* A body that was seen holding needs no call.
Followed(p, m, b) ==
    LET cmd  == p.on[Kind(b)]
        ways == IF m.way < WAY THEN m.way + 1 ELSE WAY
    IN  CASE cmd = "Hold" /\ Domain(p.robot) = "ground" /\ b.command = "hold" ->
                Idle([m EXCEPT !.done = @ \cup {p.robot}])
          [] cmd = "Thrust" ->
                LET turn == IF ways = WAY THEN p.way ELSE "Thrust" IN
                [Calls([m EXCEPT !.way = ways], <<Call_(p.robot, turn)>>)
                    EXCEPT !.ends = IF turn = p.end THEN {Call_(p.robot, turn)} ELSE {}]
          [] OTHER -> [Calls(m, <<Call_(p.robot, cmd)>>)
                          EXCEPT !.ends = IF cmd = p.end THEN {Call_(p.robot, cmd)} ELSE {}]

Follows(p, m, seen) ==
    LET b == seen[p.robot] IN
    CASE p.robot \notin DOMAIN seen -> Idle(m)
      [] p.robot \in DOMAIN seen /\ (p.robot \in m.done \/ Kind(b) \in p.blind) -> Idle(m)
      [] OTHER ->
            CASE ~m.probed /\ Resting(b) ->
                    Returns(Probed(m), <<Call_(p.robot, Probe(p.robot))>>)
              [] ~(~m.probed /\ Resting(b)) /\ Kind(b) \in DOMAIN p.on ->
                    Followed(p, Probed(m), b)
              [] OTHER -> Idle(Probed(m))

-----------------------------------------------------------------------------
(* The agents of fleets. *)

\* What is asked of the bodies an observation has, in this order, of four at most.
Over(ids, seen, Asked(_)) ==
    LET of(i) == IF i \in DOMAIN ids /\ ids[i] \in DOMAIN seen THEN Asked(seen[ids[i]]) ELSE <<>>
    IN  of(1) \o of(2) \o of(3) \o of(4)
catalog == <<"rover", "skiff", "surveyor", "drone">>

Ungranted(b) ==
    CASE Domain(b.id) = "aerial" -> ~b.safety.armed
      [] Domain(b.id) = "ground" -> ~b.safety.drive_enabled /\ ~b.safety.estop
      [] Domain(b.id) = "marine" -> ~b.safety.thrust_enabled /\ ~b.safety.failsafe

probes(seen) ==
    LET probe(b) == If(Ungranted(b), <<Call_(b.id, Probe(b.id))>>) IN Over(catalog, seen, probe)

grant_attached(seen) ==
    LET grant(b) == <<Call_(b.id, CASE Domain(b.id) = "aerial" -> "Takeoff"
                                    [] Domain(b.id) = "ground" -> "Release"
                                    [] Domain(b.id) = "marine" -> "Undock")>>
    IN  Over(Slots, seen, grant)

return_attached(seen) ==
    LET return(b) ==
            CASE Domain(b.id) = "aerial" -> <<Call_(b.id, "Land"), Call_(b.id, "Touchdown")>>
              [] Domain(b.id) = "ground" -> <<Call_(b.id, "Halt")>>
              [] Domain(b.id) = "marine" -> <<Call_(b.id, "Dock")>>
    IN  Over(Slots, seen, return)

drive_attached(seen, contact) ==
    LET drive(b) ==
            CASE Domain(b.id) = "aerial" -> If(actuators_granted(b), <<Call_(b.id, "Fly")>>)
              [] Domain(b.id) = "ground" ->
                    If(b.safety.drive_enabled /\ contact, <<Call_(b.id, "Drive")>>)
              [] Domain(b.id) = "marine" ->
                    If(b.safety.thrust_enabled, <<Call_(b.id, "Thrust")>>)
    IN  Over(Slots, seen, drive)

\* TypedFleet, TypedAttachFleet
TypedFleet(m, seen, contact) ==
    CASE ~m.probed -> Returns(Probed(m), probes(seen))
      [] m.probed /\ m.stage = 0 -> Calls([m EXCEPT !.stage = 1], grant_attached(seen))
      [] OTHER -> Calls(m, drive_attached(seen, contact))

TypedFleetReturn(m, seen) ==
    CASE m.done = Id -> Idle(m)
      [] m.done # Id /\ (~m.probed \/ m.stage = 0) -> TypedFleet(m, seen, FALSE)
      [] OTHER -> Calls([m EXCEPT !.done = Id], return_attached(seen))

TypedFleetHold(m, seen) ==
    LET absent == {"drone", "skiff"} \ DOMAIN seen
        todo   == DOMAIN seen \ m.done
        calls  == If("drone" \in todo, <<Call_("drone", "Hold")>>)
                  \o If("skiff" \in todo, <<Call_("skiff", "Station")>>)
    IN  IF ~m.probed \/ m.stage = 0 THEN TypedFleet(m, seen, FALSE)
        ELSE [Calls([m EXCEPT !.done = @ \cup absent], calls)
                 EXCEPT !.ends = {calls[i] : i \in DOMAIN calls}]

\* TypedMarineHold, grant_hull_hold
TypedMarineHold(m, seen) ==
    LET hulls == <<"skiff", "surveyor">>
        docked(b) == If(Kind(b) = "Docked", <<Call_(b.id, "Thrust")>>)
        first == Over(hulls, seen, docked)
        ask(b) == CASE b.id \in m.done \/ Kind(b) = "Failsafe" -> <<>>
                    [] ~(b.id \in m.done \/ Kind(b) = "Failsafe") /\ Kind(b) = "Docked" ->
                            <<Call_(b.id, "Undock")>>
                    [] OTHER -> If(b.command # "hold", <<Call_(b.id, "Hold")>>)
        holding == {id \in {"skiff", "surveyor"} \cap DOMAIN seen :
                        Kind(seen[id]) \in {"Underway", "StationKeep"}
                        /\ seen[id].command = "hold"}
    IN  IF ~m.probed /\ first # <<>> THEN Returns(Probed(m), <<first[1]>>)
        ELSE [Calls([Probed(m) EXCEPT !.done = @ \cup holding], Over(hulls, seen, ask))
                 EXCEPT !.ends = {Call_(id, "Hold") : id \in {"skiff", "surveyor"}}]

drone_grant_chain(b) ==
    IF b.safety.failsafe THEN <<>>
    ELSE If(~b.safety.armed, <<"Arm">>)
         \o If(~b.safety.armed \/ ~b.safety.offboard, <<"Offboard">>)
         \o If(~b.safety.armed \/ ~b.safety.offboard \/ ~b.safety.actuators_enabled,
               <<"EnableActuators">>)
         \o If(Kind(b) \in pad \cup {"Offboard"}, <<"Takeoff">>)
Asking(id, cmds) == [i \in DOMAIN cmds |-> Call_(id, cmds[i])]

grants_for(seen) ==
    LET grant(b) ==
            CASE Domain(b.id) = "aerial" -> Asking(b.id, drone_grant_chain(b))
              [] Domain(b.id) = "ground" -> If(Ungranted(b), <<Call_(b.id, "Release")>>)
              [] Domain(b.id) = "marine" -> If(Kind(b) = "Docked", <<Call_(b.id, "Undock")>>)
    IN  Over(catalog, seen, grant)

motions_for(seen, contact) ==
    LET motion(b) ==
            If(actuators_granted(b) /\ (Domain(b.id) # "ground" \/ contact),
               <<Call_(b.id, Probe(b.id))>>)
    IN  Over(catalog, seen, motion)

CoastalFleet(m, seen, contact) ==
    CASE ~m.probed -> Returns(Probed(m), probes(seen))
      [] m.probed /\ grants_for(seen) # <<>> -> Returns(m, grants_for(seen))
      [] OTHER -> Returns(m, motions_for(seen, contact))

RoverProbe(m, b, contact) ==
    CASE Ungranted(b) /\ ~m.probed -> Returns(Probed(m), <<Call_("rover", "Drive")>>)
      [] Ungranted(b) /\ m.probed -> Returns(m, <<Call_("rover", "Release")>>)
      [] OTHER -> Returns(m, If(b.safety.drive_enabled /\ contact, <<Call_("rover", "Drive")>>))

\* stage 1: the rover and the drone have touched
CollisionSweep(m, seen, contact, hit) ==
    LET b == seen["rover"] IN
    CASE ~({"rover", "drone"} \subseteq DOMAIN seen) -> Idle(m)
      [] {"rover", "drone"} \subseteq DOMAIN seen /\ hit ->
            Returns([m EXCEPT !.stage = 1],
                    If(b.safety.drive_enabled, <<Call_("rover", "Halt")>>))
      [] {"rover", "drone"} \subseteq DOMAIN seen /\ ~hit /\ (m.stage = 1 \/ b.safety.estop) ->
            Idle(m)
      [] OTHER -> RoverProbe(m, b, contact)

TypedCollisionSweep(m, seen, contact, hit) ==
    LET b == seen["rover"]
        both == {"rover", "drone"} \subseteq DOMAIN seen
    IN  CASE ~both -> Idle(m)
          [] both /\ hit -> Calls([m EXCEPT !.stage = 1],
                                  If(b.safety.drive_enabled, <<Call_("rover", "Halt")>>))
          [] both /\ ~hit /\ (m.stage = 1 \/ Kind(b) = "EStopped") -> Idle(m)
          [] both /\ ~hit /\ m.stage = 0 /\ ~m.probed /\ Kind(b) = "Parked" ->
                Returns(Probed(m), <<Call_("rover", "Drive")>>)
          [] OTHER -> Calls(Probed(m), CASE Kind(b) = "Parked" -> <<Call_("rover", "Release")>>
                                         [] Kind(b) = "Moving" ->
                                                If(contact, <<Call_("rover", "Drive")>>)
                                         [] OTHER -> <<>>)

\* The pad: stage 1, it was seen on one; stage 2, it has left it.
Aloft(m) == [m EXCEPT !.stage = IF @ = 0 THEN 0 ELSE 2]
OnPad(m) == [m EXCEPT !.stage = IF @ = 2 THEN 2 ELSE 1]

PadLanding(m, b, contact, low) ==
    LET fly == If(b.safety.armed /\ b.safety.actuators_enabled, <<"Velocity">>)
        high == If(Kind(b) = "Takeoff", <<"Airborne">>) \o If(Kind(b) = "Airborne", <<"Land">>)
        pads == IF m.stage = 2 THEN If(Kind(b) = "Landing", <<"Touchdown">>)
                ELSE IF drone_grant_chain(b) # <<>> THEN drone_grant_chain(b) ELSE fly
        air == CASE Kind(b) = "Landing" -> fly
                 [] Kind(b) # "Landing" /\ low -> <<"Velocity">>
                 [] OTHER -> high \o fly
    IN  CASE b.safety.failsafe -> Idle(m)
          [] ~b.safety.failsafe /\ contact -> Returns(OnPad(m), Asking("drone", pads))
          [] OTHER -> Returns(Aloft(m), If(m.stage > 0, Asking("drone", air)))

TypedPadLanding(m, b, contact, low) ==
    LET fly == If(b.safety.armed /\ b.safety.actuators_enabled, <<"Velocity">>)
        grounded == pad \cup {"Offboard", "Disarmed", "Disconnected"}
        pads == CASE m.stage = 2 -> If(Kind(b) = "Landing", <<"Touchdown">>)
                  [] m.stage # 2 /\ Kind(b) \in grounded -> <<"Grant">>
                  [] OTHER -> fly
        air == CASE Kind(b) = "Landing" -> fly
                 [] Kind(b) # "Landing" /\ low -> <<"Velocity">>
                 [] Kind(b) = "Takeoff" /\ ~low -> <<"Airborne">>
                 [] OTHER -> If(Kind(b) = "Airborne", <<"Land">>) \o fly
    IN  CASE b.safety.failsafe -> Idle(m)
          [] ~b.safety.failsafe /\ ~m.probed /\ ~b.safety.armed ->
                Returns(Probed(m), <<Call_("drone", "Velocity")>>)
          [] ~b.safety.failsafe /\ (m.probed \/ b.safety.armed) /\ contact ->
                Calls(OnPad(Probed(m)), Asking("drone", pads))
          [] OTHER -> Calls(Aloft(Probed(m)), If(m.stage > 0, Asking("drone", air)))

\* apply_script, its clock late and the drone high or not.  Nothing is logged.
script_tick(bodies, late, high) ==
    LET do(b) == Asking(b.id, script(b, late, high))
    IN  [Idle(NoMemory) EXCEPT !.calls = Over(Slots, bodies, do), !.logged = FALSE]

-----------------------------------------------------------------------------
(* research_probe: commands that no body at rest takes, given to act, and  *)
(* then a sequence that is legal, given to act_through_attach.  Of the     *)
(* latter the three to the environment are left out: they move no body.    *)

illegal_catalog ==
    <<Call_("rover", "Drive"), Call_("skiff", "Thrust"), Call_("surveyor", "Thrust")>>
    \o Asking("drone", <<"Velocity", "Hold", "Takeoff">>)
    \o <<Call_("rover", "Hold"), Call_("skiff", "Hold"), Call_("surveyor", "Hold")>>
    \o Asking("drone", <<"Position", "Airborne">>)
    \o <<Call_("skiff", "Station"), Call_("rover", "Halt")>>

legal_abuse ==
    Asking("rover", <<"Release", "Drive", "Hold">>)
    \o Asking("skiff", <<"Undock", "Thrust", "Hold">>)
    \o Asking("surveyor", <<"Undock", "Thrust", "Hold">>)
    \o Asking("drone", <<"Arm", "Offboard", "EnableActuators", "Takeoff", "Position",
                         "Position", "Hold", "Velocity", "SetCharge", "Velocity">>)
    \o Asking("rover", <<"Estop", "Drive">>)

-----------------------------------------------------------------------------
(* The loop. *)

Decisions(m, seen) ==
    CASE agent \in DOMAIN policies -> {Follows(policies[agent], m, seen)}
      [] agent = "TypedFleet" -> {TypedFleet(m, seen, c) : c \in BOOLEAN}
      [] agent = "TypedFleetReturn" -> {TypedFleetReturn(m, seen)}
      [] agent = "TypedFleetHold" -> {TypedFleetHold(m, seen)}
      [] agent = "TypedMarineHold" -> {TypedMarineHold(m, seen)}
      [] agent = "CoastalFleet" -> {CoastalFleet(m, seen, c) : c \in BOOLEAN}
      [] agent = "RoverProbe" ->
            IF "rover" \in DOMAIN seen THEN {RoverProbe(m, seen["rover"], c) : c \in BOOLEAN}
                                       ELSE {Idle(m)}
      [] agent = "CollisionSweep" ->
            {CollisionSweep(m, seen, c, h) : c \in BOOLEAN, h \in BOOLEAN}
      [] agent = "TypedCollisionSweep" ->
            {TypedCollisionSweep(m, seen, c, h) : c \in BOOLEAN, h \in BOOLEAN}
      [] agent = "PadLanding" ->
            IF "drone" \in DOMAIN seen
            THEN {PadLanding(m, seen["drone"], c, l) : c \in BOOLEAN, l \in BOOLEAN}
            ELSE {Idle(m)}
      [] agent = "TypedPadLanding" ->
            IF "drone" \in DOMAIN seen
            THEN {TypedPadLanding(m, seen["drone"], c, l) : c \in BOOLEAN, l \in BOOLEAN}
            ELSE {Idle(m)}
      [] agent = "ScriptedCoastal" -> {script_tick(body, l, h) : l \in BOOLEAN, h \in BOOLEAN}
      [] agent \in {"research_probe", "mhs_chain"} -> {Idle(m)}

\* What an agent notes of a typed call that succeeded.
note(b, cmd) ==
    CASE cmd = "Grant" /\ Kind(b) = "Armed" -> <<"Offboard", "EnableActuators", "Takeoff">>
      [] cmd = "Grant" /\ Kind(b) # "Armed" -> logs(b, "Takeoff")
      [] cmd = "Fly" -> <<"Velocity">>
      [] OTHER -> logs(b, cmd)

observe ==
    /\ loop.at = "idle"
    /\ loop' = [loop EXCEPT !.at = "seen", !.seen = body]
    /\ report' = "none"
    /\ UNCHANGED <<body, leftover, pending, replay, agent>>

decide ==
    /\ loop.at = "seen"
    /\ \E d \in Decisions(loop.memory, loop.seen) :
         /\ loop' = [loop EXCEPT !.at = "calling", !.seen = <<>>, !.calls = d.calls,
                              !.ends = d.ends, !.queue = d.returns, !.memory = d.memory]
         /\ replay' = IF d.logged THEN replay ELSE Unlogged
    /\ report' = "none"
    /\ UNCHANGED <<body, leftover, pending, agent>>

call ==
    /\ loop.at = "calling" /\ loop.calls # <<>>
    /\ LET c == Head(loop.calls) IN
         /\ walk(c.id, agent_walks(body[c.id], c.cmd), note(body[c.id], c.cmd))
         /\ loop' = [loop EXCEPT !.calls = Tail(@),
                !.memory.done = IF c \in loop.ends
                                   /\ try_attach(body[c.id], agent_walks(body[c.id], c.cmd)).error
                                      = "none"
                                THEN @ \cup {c.id} ELSE @]
    /\ report' = "none"
    /\ UNCHANGED <<pending, agent>>

return ==
    /\ loop.at = "calling" /\ loop.calls = <<>>
    /\ loop' = [loop EXCEPT !.at = "returned", !.ends = {}]
    /\ report' = "none"
    /\ UNCHANGED <<body, leftover, pending, replay, agent>>

\* The next command, to act_through_attach; the illegal ones, to act.
give ==
    /\ loop.at \in {"returned", "illegal"} /\ loop.queue # <<>>
    /\ begin(IF loop.at = "illegal" THEN "act" ELSE "attach",
             Head(loop.queue).id, Head(loop.queue).cmd)
    /\ loop' = [loop EXCEPT !.queue = Tail(@)]
    /\ UNCHANGED agent

Op(op, device, channel, numbers) == [op |-> op] @@ Request(device, channel, numbers)
NextOp(op) ==
    /\ loop.at = "chain" /\ pending = NoCall
    /\ loop.queue # <<>> /\ Head(loop.queue).op = op
Continue(ok) == loop' = [loop EXCEPT !.queue = IF ok THEN Tail(@) ELSE <<>>]

\* What a write or a command does; a chain stops at a write that is refused.
applied ==
    /\ called
    /\ IF loop.at = "chain" /\ report' = "refused" THEN Continue(FALSE) ELSE UNCHANGED loop
    /\ UNCHANGED agent

\* A command given to act by one who is alone with the lab.
acting(b, cmd) ==
    IF ensure_tool(b, cmd) THEN apply_action(b, cmd) ELSE [body |-> b, error |-> "NotLegal"]

\* Failsafe and then a hold, on a copy of the lab; its bodies stay as they are.
probe_failsafe_hold ==
    /\ loop.at = "illegal" /\ loop.queue = <<>> /\ pending = NoCall
    /\ loop' = [loop EXCEPT !.at = "probed"]
    /\ report' =
         IF "drone" \notin Present \/ acting(body["drone"], "Failsafe").error # "none" THEN "none"
         ELSE IF acting(acting(body["drone"], "Failsafe").body, "Hold").error = "none" THEN "ok"
         ELSE "refused"
    /\ UNCHANGED <<body, leftover, pending, replay, agent>>

abuse ==
    /\ loop.at = "probed"
    /\ loop' = [loop EXCEPT !.at = "returned", !.queue = legal_abuse]
    /\ report' = "none"
    /\ UNCHANGED <<body, leftover, pending, replay, agent>>

\* run_chain: the operations in turn, up to the first that fails; then the driver
\* may be given another chain, or be replaced by one on a fresh lab (mcp.rs).
run_chain ==
    /\ loop.at = "chain" /\ loop.queue = <<>> /\ pending = NoCall
    /\ \E ops \in Chains :
         /\ \A i \in DOMAIN ops : ops[i].device \in Devices(body)
         /\ loop' = [loop EXCEPT !.queue = ops]
    /\ report' = "none"
    /\ UNCHANGED <<body, leftover, pending, replay, agent>>
chain_write ==
    /\ NextOp("write")
    /\ preview(Head(loop.queue))
    /\ Continue(pending' # NoCall)
    /\ UNCHANGED agent
chain_read ==
    /\ NextOp("read")
    /\ LET r == Head(loop.queue) IN Continue(read_channel(body, r.device, r.channel) = "ok")
    /\ report' = "none"
    /\ UNCHANGED <<body, leftover, pending, replay, agent>>
chain_step == NextOp("step") /\ step /\ Continue(TRUE) /\ UNCHANGED agent
mhs_open ==
    /\ loop.at = "chain" /\ loop.queue = <<>> /\ pending = NoCall
    /\ body' = [id \in Present |-> Spawned(id)] /\ replay' = body'
    /\ leftover' = [id \in Present |-> "none"]
    /\ loop' = [loop EXCEPT !.disturbed = FALSE]
    /\ report' = "none"
    /\ UNCHANGED <<pending, agent>>
mhs_tool == run_chain \/ chain_write \/ chain_read \/ chain_step \/ mhs_open

research_step ==
    /\ loop.at = "returned" /\ loop.queue = <<>>
    /\ step
    /\ loop' = [loop EXCEPT !.at = "idle"]
    /\ UNCHANGED agent

\* The world refuses the step, and the experiment ends.
broken ==
    /\ loop.at = "returned" /\ loop.queue = <<>> /\ pending = NoCall
    /\ loop' = [loop EXCEPT !.at = "broken"]
    /\ report' = "none"
    /\ UNCHANGED <<body, leftover, pending, replay, agent>>

research ==
    \/ observe \/ decide \/ call \/ return \/ give \/ research_step \/ broken
    \/ probe_failsafe_hold \/ abuse \/ mhs_tool

\* Nobody counts who disturbs a bare lab.
disturb ==
    /\ loop.at # "broken" /\ ~loop.disturbed
    /\ others
    /\ loop' = IF agent = "none" THEN loop ELSE [loop EXCEPT !.disturbed = TRUE]
    /\ UNCHANGED agent

stopped == loop.at = "broken" /\ UNCHANGED rvars

\* The agents an experiment can be given; "none" leaves the lab to its callers.
Agents ==
    DOMAIN policies
    \cup {"TypedFleet", "TypedFleetReturn", "TypedFleetHold", "TypedMarineHold", "CoastalFleet",
          "RoverProbe", "CollisionSweep", "TypedCollisionSweep", "PadLanding", "TypedPadLanding",
          "ScriptedCoastal", "research_probe", "mhs_chain", "none"}
ASSUME ExperimentsAssumption == \A e \in Experiments : e.agent \in Agents

ResearchInit ==
    /\ Init
    /\ \E e \in Experiments :
         /\ e.scene = Present /\ agent = e.agent
         /\ loop = CASE e.agent = "research_probe" ->
                            [Start EXCEPT !.at = "illegal", !.queue = illegal_catalog]
                     [] e.agent = "mhs_chain" -> [Start EXCEPT !.at = "chain"]
                     [] OTHER -> Start

bare == (asked \/ step \/ \E id \in Present : bind(id)) /\ UNCHANGED <<agent, loop>>

ResearchNext ==
    \/ applied \/ disturb \/ stopped
    \/ agent = "none" /\ bare
    \/ agent # "none" /\ research

\* Weak fairness of research: it waits for nobody, so one of its steps is enabled
\* until it ends, and it moves the loop or the call in progress.
Fairness ==
    \/ <>(agent = "none" \/ loop.at = "broken")
    \/ []<><<loop'.disturbed = loop.disturbed>>_<<loop, pending>>

ResearchSpec == ResearchInit /\ [][ResearchNext]_rvars /\ Fairness

-----------------------------------------------------------------------------
Ends ==
    [TypedFleetHold |-> {"drone", "skiff"}, TypedFleetReturn |-> Id,
     TypedMarineHold |-> {"skiff", "surveyor"}]
    @@ [p \in DOMAIN policies \ {"TypedPathFollow"} |-> {policies[p].robot}]
Typed ==
    DOMAIN policies \cup {"TypedFleet", "TypedFleetReturn", "TypedFleetHold",
                          "TypedMarineHold", "TypedPadLanding", "TypedCollisionSweep"}

\* An agent that has an end reaches it, whatever it sees on the way, if nobody
\* else moves its bodies and the world takes its steps (research/typed_*.rs: the
\* kinds an agent handles lead from the scene's bodies to the call that ends it).
Finished == agent \in DOMAIN Ends => Ends[agent] \subseteq loop.memory.done
Finishes == <>(Finished \/ loop.disturbed \/ loop.at = "broken")

\* Illegal commands bounce: while nobody else moves the bodies, nothing a typed
\* agent returns is applied, and neither is anything of research_probe's
\* illegal catalog (research/mod.rs, actions_applied stays 0; probe.rs).  A hold
\* after a failsafe bounces whatever anybody did to the drone before.
ProbesBounce ==
    /\ ~loop.disturbed /\ (agent \in Typed \/ loop.at = "illegal") => report # "ok"
    /\ loop.at = "probed" => report # "ok"
=============================================================================
