---------------------------- MODULE MarineKernel ----------------------------
(***************************************************************************)
(* The marine safety kernel of flight-core: marine_step as Admits (its     *)
(* early returns) and After (its assignments), the revoke table and the    *)
(* typestate attach binds.  Definitions marked "Fault" are mistakes to     *)
(* substitute for the one below them; no specification uses them.          *)
(***************************************************************************)

MarinePhase == {"Docked", "Underway", "StationKeep", "Failsafe"}
MarineEvent == {"Undock", "Dock", "Station", "Resume", "ThrustCommand",
                "Failsafe", "Recover"}

\* What the code asserts of every Ok result.
marine_invariants(s) ==
    CASE s.phase = "Failsafe" -> s.failsafe /\ ~s.thrust_enabled
      [] s.phase \in {"Underway", "StationKeep"} -> ~s.failsafe
      [] s.phase = "Docked" -> ~s.failsafe /\ ~s.thrust_enabled

MarineState ==
    {s \in [phase : MarinePhase, thrust_enabled : BOOLEAN, failsafe : BOOLEAN] :
        marine_invariants(s)}

docked == [phase |-> "Docked", thrust_enabled |-> FALSE, failsafe |-> FALSE]

tripped == [phase |-> "Failsafe", thrust_enabled |-> FALSE, failsafe |-> TRUE]

Admits(s, e) ==
    /\ s.failsafe => e \in {"Recover", "Failsafe", "Dock"}
    /\ e = "Undock" => s.phase = "Docked"
    /\ e = "Station" => s.phase = "Underway"
    /\ e = "Resume" => s.phase = "StationKeep"
    /\ e = "ThrustCommand" => s.thrust_enabled
    /\ e = "Recover" => s.phase = "Failsafe"

\* What an admitted event leaves.
After(s, e) ==
    CASE e = "Undock"        -> [s EXCEPT !.phase = "Underway", !.thrust_enabled = TRUE]
      [] e = "Dock"          -> docked
      [] e = "Station"       -> [s EXCEPT !.phase = "StationKeep", !.thrust_enabled = TRUE]
      [] e = "Resume"        -> [s EXCEPT !.phase = "Underway", !.thrust_enabled = TRUE]
      [] e = "ThrustCommand" -> s
      [] e = "Failsafe"      -> tripped
      [] e = "Recover"       -> docked

marine_event_revokes_authority(e) == e \in {"Failsafe", "Dock"}

marine_kind(s) == IF s.failsafe THEN "Failsafe" ELSE s.phase

grants_actuation(kind) == kind \in {"Underway", "StationKeep"}
=============================================================================
