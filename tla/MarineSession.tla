---------------------------- MODULE MarineSession ----------------------------
(***************************************************************************)
(* Several MarineVehicle<S, MarineWorldBackend> handles on one hull of a   *)
(* WorldSession.  Like a ground handle, a marine handle writes its own     *)
(* copy of the kernel state over the hull's (push_marine).  Every call     *)
(* runs to its end before the next.                                        *)
(*                                                                         *)
(* "lost" is what was held before the hull last failed safe; "docked" what *)
(* was held before it was last docked, and has not been lost since.        *)
(***************************************************************************)
EXTENDS MarineKernel, Permits

CONSTANT Handle  \* the vehicles bound to the hull

VARIABLES
    body,   \* the hull
    veh     \* handle -> MarineVehicle

vars == <<body, veh>>

Kind == MarinePhase \cup {"Unbound"}
CanTripMarineFailsafe == {"Underway", "StationKeep"}
CanDock   == {"Underway", "StationKeep"}
CanThrust == {"Underway", "StationKeep"}

HeldPermit == [held : BOOLEAN, epoch : 0..EpochMax, standing : Standing \cup {"docked"}]
Command    == Staged \cup {"docked"}

MarineVehicle == [kind : Kind, safety : MarineState, permit : HeldPermit, setpoint : Command]
Body == [marine : MarineState, epoch : 0..EpochMax, command : Command]

Unbound == [kind |-> "Unbound", safety |-> docked, permit |-> NoPermit, setpoint |-> "none"]

skiff == [marine |-> docked, epoch |-> 0, command |-> "none"]

Init == body = skiff /\ veh = [h \in Handle |-> Unbound]

-----------------------------------------------------------------------------
(* The hull under an event, and a handle that writes it.                   *)

\* marine_event posting Failsafe, which no state refuses.
failsafe_event(b) ==
    LET n == After(b.marine, "Failsafe")
        revoke == marine_event_revokes_authority("Failsafe") \/ (n.failsafe /\ ~b.marine.failsafe)
    IN  [marine  |-> n,
         epoch   |-> IF revoke THEN bump_authority(b.epoch) ELSE b.epoch,
         command |-> "none"]

\* Fault: the command of a hull that is stopped stays.
SyncKeepsCommand(b, s) == [b EXCEPT !.marine = s]

\* sync_marine: handle state s replaces the hull's; disabled thrust drops the
\* command.
sync_marine(b, s) ==
    [b EXCEPT !.marine = s, !.command = IF s.thrust_enabled THEN @ ELSE "none"]

\* What a permit and a setpoint become when the hull fails safe, or is docked.
Demoted(v) == [v EXCEPT !.permit.standing = "lost", !.setpoint = Lost(v.setpoint)]
Ashore(tag) == IF tag = "now" THEN "docked" ELSE tag
Docked(v) == [v EXCEPT !.permit.standing = Ashore(v.permit.standing),
                       !.setpoint = Ashore(v.setpoint)]

Idle(v) == [v EXCEPT !.setpoint = "none"]

EpochCurrent(h) == veh[h].permit.held /\ veh[h].permit.epoch = body.epoch

\* authority::require; a marine permit has no lease.
require(h) == EpochCurrent(h)

-----------------------------------------------------------------------------
(* The calls of a handle. *)

\* attach, on the handle's backend or on a fresh one, whose setpoint is clear.
Attach(h) ==
    LET s == body.marine
        kind == marine_kind(s)
    IN
    \E v \in {veh[h], Idle(veh[h])} :
      /\ v.kind = "Unbound" => v = Idle(v)
      /\ veh' = [veh EXCEPT ![h] =
                  [v EXCEPT !.kind = kind, !.safety = s,
                            !.permit = IF grants_actuation(kind)
                                         THEN issue(body.epoch) ELSE NoPermit]]
      /\ UNCHANGED body

\* MarineVehicle::new reads nothing: the handle is Docked whatever the hull.
New(h) ==
    /\ veh' = [veh EXCEPT ![h] = [Idle(@) EXCEPT !.kind = "Docked", !.safety = docked,
                                                 !.permit = NoPermit]]
    /\ UNCHANGED body

\* An event on the handle's own kernel, pushed over the hull.  A refusal
\* consumes the handle; the hull is not asked.
Walk(h, from, e, into) ==
    /\ veh[h].kind = from
    /\ LET s == After(veh[h].safety, e) IN
       IF Admits(veh[h].safety, e)
         THEN /\ body' = sync_marine(body, s)
              /\ veh' = [veh EXCEPT ![h].kind = into, ![h].safety = s,
                                    ![h].permit = IF e = "Undock" THEN issue(body.epoch) ELSE @]
         ELSE /\ veh' = [veh EXCEPT ![h] = Unbound]
              /\ UNCHANGED body

Undock(h)      == Walk(h, "Docked", "Undock", "Underway")
HoldStation(h) == Walk(h, "Underway", "Station", "StationKeep")
Resume(h)      == Walk(h, "StationKeep", "Resume", "Underway")

\* set_ned_velocity_now and hold_now: the shadow is pushed before the backend
\* asks the hull, which therefore answers for the shadow.
Thrust(h) ==
    /\ veh[h].kind \in CanThrust
    /\ require(h)
    /\ Admits(veh[h].safety, "ThrustCommand")
    /\ body' = sync_marine(body, veh[h].safety)
    /\ veh' = [veh EXCEPT ![h].setpoint = veh[h].permit.standing]

\* dock_now: no event reaches the hull, so its epoch stands.
DockNow(h) ==
    /\ veh[h].kind \in CanDock
    /\ body' = sync_marine(body, docked)
    /\ veh' = [g \in Handle |->
                 LET v == Docked(veh[g]) IN
                 IF g = h THEN [Idle(v) EXCEPT !.kind = "Docked", !.safety = docked] ELSE v]

\* Fault: the failsafe reaches the hull through the shadow only.
FailsafePushOnly(b) == b

\* trigger_failsafe_now: the Failsafe event.
FailsafeEvent(b) == failsafe_event(b)

DeclareFailsafe(h) ==
    /\ veh[h].kind \in CanTripMarineFailsafe
    /\ body' = sync_marine(FailsafeEvent(body), tripped)
    /\ veh' = [g \in Handle |->
                 IF g = h THEN [Idle(Demoted(veh[g])) EXCEPT !.kind = "Failsafe",
                                                             !.safety = tripped]
                          ELSE Demoted(veh[g])]

\* Recover on the handle's kernel; the hull is overwritten, not asked.
RecoverDocked(h) ==
    /\ veh[h].kind = "Failsafe"
    /\ Admits(veh[h].safety, "Recover")
    /\ body' = sync_marine(body, After(veh[h].safety, "Recover"))
    /\ veh' = [veh EXCEPT ![h] = [Idle(@) EXCEPT !.kind = "Docked", !.safety = docked]]

(* The backend and the world. *)

flush(v) == [body EXCEPT !.command = IF v.setpoint = "none" THEN @ ELSE v.setpoint]

actuators_granted(b) == b.marine.thrust_enabled /\ ~b.marine.failsafe

\* World::try_step on body b: propulsion that is cut drops the command.
try_step(b, outcome) ==
    IF outcome = "cut" \/ (outcome = "granted" /\ ~actuators_granted(b))
      THEN [b EXCEPT !.command = "none"] ELSE b

Flush(h) == veh[h].kind # "Unbound" /\ body' = flush(veh[h]) /\ UNCHANGED veh
Tick(h) ==
    /\ veh[h].kind # "Unbound"
    /\ \E o \in StepOutcome : body' = try_step(flush(veh[h]), o)
    /\ UNCHANGED veh

\* WorldSession::step, by whoever drives the clock.
step == \E o \in StepOutcome : body' = try_step(body, o) /\ UNCHANGED veh

Next ==
    \/ \E h \in Handle :
         \/ Attach(h) \/ New(h) \/ Undock(h) \/ HoldStation(h) \/ Resume(h)
         \/ Thrust(h) \/ DockNow(h) \/ DeclareFailsafe(h) \/ RecoverDocked(h)
         \/ Flush(h) \/ Tick(h)
    \/ step

Spec == Init /\ [][Next]_vars

-----------------------------------------------------------------------------
TypeOK == body \in Body /\ veh \in [Handle -> MarineVehicle]

Unsaturated == body.epoch < EpochMax

\* A permit issued before the hull failed safe is never taken again, however
\* often it is recovered, overwritten and undocked since.
LostPermitsStale ==
    Unsaturated => \A h \in Handle : veh[h].permit.standing = "lost" => ~EpochCurrent(h)

\* A permit the epoch admits is never held over a hull in failsafe: none of the
\* states the handles push over each other revives the permits it ended.
CurrentMeansClear ==
    Unsaturated => \A h \in Handle : EpochCurrent(h) => ~body.marine.failsafe

\* No setpoint is staged under a permit from before a failsafe.
SetpointsPermitted ==
    [][Unsaturated' =>
         \A h \in Handle : veh'[h].setpoint = "lost" => veh[h].setpoint # "none"]_vars

\* A docked or tripped hull keeps no command past the call that stopped it: a
\* command it does hold was put back by a flush of what a handle had staged.
StoppedIsIdle ==
    [][~body'.marine.thrust_enabled /\ body'.command # "none" =>
         body' = body \/ \E h \in Handle : Flush(h) \/ Tick(h)]_vars
=============================================================================
