----------------------------- MODULE MCResearch -----------------------------
(* Research: every agent on its bodies, and a bare lab over one body of     *)
(* each domain with every command on it.                                    *)
EXTENDS Research

On1(agents, scene) == {[agent |-> a, scene |-> scene] : a \in agents}
hulls == {"skiff", "surveyor"}
ExperimentsBound ==
    UNION {On1({"none"}, {"drone"}), On1({"none"}, {"rover"}), On1({"none"}, {"skiff"})}
    \cup {[agent |-> p, scene |-> {policies[p].robot}] : p \in DOMAIN policies}
    \cup On1({"PadLanding", "TypedPadLanding", "ScriptedCoastal", "research_probe"}, {"drone"})
    \cup On1({"RoverProbe", "ScriptedCoastal", "research_probe"}, {"rover"})
    \cup On1({"CollisionSweep", "TypedCollisionSweep"}, inland)
    \cup On1({"TypedMarineHold", "ScriptedCoastal", "research_probe"}, hulls)
    \cup On1({"TypedFleet", "TypedFleetReturn", "TypedFleetHold", "CoastalFleet"},
             {"drone", "skiff"})
    \cup On1({"mhs_chain"}, {"drone"}) \cup On1({"mhs_chain"}, {"rover"})
ChainsBound ==
    {<<Op("write", "drone", "Takeoff", "within"), Op("write", "drone", "Velocity", "within"),
       Op("step", "lab", "t", "within"), Op("write", "drone", "Land", "within"),
       Op("read", "drone", "imu", "within")>>,
     <<Op("write", "rover", "Release", "within"), Op("read", "rover", "machine", "within"),
       Op("write", "rover", "Drive", "large"), Op("step", "lab", "t", "within")>>,
     <<Op("read", "rover", "imu", "within"), Op("write", "rover", "Drive", "within")>>}
ScenesBound == {e.scene : e \in ExperimentsBound}
ElsewhereBound == {"Takeoff", "Failsafe", "Disarm", "Recover", "Hold", "Release", "Undock"}
RevokesBound == {"TriggerFailsafe", "Disarm", "Disconnect"}
CommandsBound ==
    {"Arm", "Disarm", "Offboard", "Takeoff", "Airborne", "Land", "Touchdown", "Failsafe",
     "Recover", "EnableActuators", "Velocity", "Drive", "Thrust", "Hold", "Release", "Halt",
     "Clear", "Undock", "Dock", "Station", "Resume", "SetWind"}
=============================================================================
