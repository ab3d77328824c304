---------------------------- MODULE GroundKernel ----------------------------
(***************************************************************************)
(* The ground safety kernel of flight-core: ground_step as Admits (its     *)
(* early returns) and After (its assignments), the revoke table and the    *)
(* typestate attach binds.  Definitions marked "Fault" are mistakes to     *)
(* substitute for the one below them; no specification uses them.          *)
(***************************************************************************)

GroundPhase == {"Parked", "Moving", "EStop"}
GroundEvent == {"Release", "Halt", "EStop", "ClearEstop", "DriveCommand"}

\* What the code asserts of every Ok result.
ground_invariants(s) ==
    CASE s.phase = "EStop"  -> s.estop /\ ~s.drive_enabled
      [] s.phase = "Moving" -> ~s.estop
      [] s.phase = "Parked" -> ~s.estop /\ ~s.drive_enabled

GroundState ==
    {s \in [phase : GroundPhase, drive_enabled : BOOLEAN, estop : BOOLEAN] :
        ground_invariants(s)}

parked  == [phase |-> "Parked", drive_enabled |-> FALSE, estop |-> FALSE]
stopped == [phase |-> "EStop",  drive_enabled |-> FALSE, estop |-> TRUE]

Admits(s, e) ==
    /\ e = "Release" => s.phase = "Parked"
    /\ e = "Halt" => s.phase = "Moving"
    /\ e = "ClearEstop" => s.phase = "EStop"
    /\ e = "DriveCommand" => ~s.estop /\ s.phase = "Moving" /\ s.drive_enabled

After(s, e) ==
    CASE e = "Release"      -> [s EXCEPT !.phase = "Moving", !.drive_enabled = TRUE]
      [] e = "Halt"         -> [s EXCEPT !.phase = "Parked", !.drive_enabled = FALSE]
      [] e = "EStop"        -> stopped
      [] e = "ClearEstop"   -> parked
      [] e = "DriveCommand" -> s

ground_event_revokes_authority(e) == e \in {"EStop", "Halt"}

ground_kind(s) ==
    CASE s.estop \/ s.phase = "EStop"      -> "EStopped"
      [] ~s.estop /\ s.phase = "Parked" -> "Parked"
      [] ~s.estop /\ s.phase = "Moving" -> "Moving"

grants_actuation(kind) == kind = "Moving"
=============================================================================
