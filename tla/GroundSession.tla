---------------------------- MODULE GroundSession ----------------------------
(***************************************************************************)
(* Several GroundVehicle<S, GroundWorldBackend> handles on one chassis of  *)
(* a WorldSession.  Unlike an aerial handle, a ground handle writes its    *)
(* own copy of the kernel state over the chassis' (push_ground), so the    *)
(* handles compete for it.  Every call runs to its end before the next.    *)
(* Authority is lost when the chassis is E-stopped or halted; "none" is no *)
(* setpoint and a yaw rate of zero.                                        *)
(***************************************************************************)
EXTENDS GroundKernel, Permits

CONSTANT Handle  \* the vehicles bound to the chassis

VARIABLES
    body,   \* the chassis
    veh     \* handle -> GroundVehicle

vars == <<body, veh>>

Kind == {"Parked", "Moving", "EStopped", "Unbound"}
CanTripEstop == {"Parked", "Moving"}

GroundVehicle == [kind : Kind, safety : GroundState, permit : Permit,
                  setpoint : Staged, yaw_rate : Staged]
Body == [ground : GroundState, epoch : 0..EpochMax, command : Staged, yaw_cmd : Staged]

Unbound == [kind |-> "Unbound", safety |-> parked, permit |-> NoPermit,
            setpoint |-> "none", yaw_rate |-> "none"]

rover == [ground |-> parked, epoch |-> 0, command |-> "none", yaw_cmd |-> "none"]

Init == body = rover /\ veh = [h \in Handle |-> Unbound]

-----------------------------------------------------------------------------
(* The chassis under an event, and a handle that writes it.                *)

\* The events after which, in the README's words, the old permit has no authority.
EndsAuthority(e) == e \in {"EStop", "Halt"}

\* What ground_event leaves of body b.
ground_event(b, e) ==
    LET n == After(b.ground, e)
        revoke == ground_event_revokes_authority(e) \/ (n.estop /\ ~b.ground.estop)
    IN  [ground  |-> n,
         epoch   |-> IF revoke THEN bump_authority(b.epoch) ELSE b.epoch,
         command |-> IF n.estop \/ e = "Halt" THEN "none" ELSE b.command,
         yaw_cmd |-> IF EndsAuthority(e) THEN Lost(b.yaw_cmd) ELSE b.yaw_cmd]

\* ... and of the standing of a handle's permit and of what it has staged.
Demoted(v) == [v EXCEPT !.permit.standing = "lost", !.setpoint = Lost(v.setpoint),
                        !.yaw_rate = Lost(v.yaw_rate)]

\* sync_ground: handle state s replaces the chassis'; a disabled drive drops
\* its command, but not its yaw_cmd.
sync_ground(b, s) ==
    [b EXCEPT !.ground = s, !.command = IF s.drive_enabled THEN @ ELSE "none"]

Idle(v) == [v EXCEPT !.setpoint = "none", !.yaw_rate = "none"]

EpochCurrent(h) == veh[h].permit.held /\ veh[h].permit.epoch = body.epoch

\* Fault: the epoch is not looked at.
RequireAnyPermit(h) == veh[h].permit.held

\* authority::require; a ground permit has no lease.
require(h) == EpochCurrent(h)

-----------------------------------------------------------------------------
(* The calls of a handle. *)

\* attach, on the handle's backend or on a fresh one, whose setpoint is clear.
Attach(h) ==
    LET s == body.ground IN
    \E v \in {veh[h], Idle(veh[h])} :
      /\ v.kind = "Unbound" => v = Idle(v)
      /\ veh' = [veh EXCEPT ![h] =
                  [v EXCEPT !.kind = ground_kind(s), !.safety = s,
                            !.permit = IF grants_actuation(ground_kind(s))
                                         THEN issue(body.epoch) ELSE NoPermit]]
      /\ UNCHANGED body

\* GroundVehicle::new reads nothing: the handle is Parked whatever the chassis.
New(h) ==
    /\ veh' = [veh EXCEPT ![h] = [Idle(@) EXCEPT !.kind = "Parked", !.safety = parked,
                                                 !.permit = NoPermit]]
    /\ UNCHANGED body

\* Consumes the handle when its own kernel refuses; the chassis is not asked.
EnableDrive(h) ==
    /\ veh[h].kind = "Parked"
    /\ LET v == veh[h]
           s == After(v.safety, "Release")
       IN  IF Admits(v.safety, "Release")
             THEN /\ body' = sync_ground(body, s)
                  /\ veh' = [veh EXCEPT ![h] = [v EXCEPT !.kind = "Moving", !.safety = s,
                                                         !.permit = issue(body.epoch)]]
             ELSE /\ veh' = [veh EXCEPT ![h] = Unbound]
                  /\ UNCHANGED body

\* set_velocity_ned_now and hold_now: the shadow is pushed before the backend
\* asks the chassis, which therefore answers for the shadow.
SetVelocity(h) ==
    /\ veh[h].kind = "Moving"
    /\ require(h)
    /\ Admits(veh[h].safety, "DriveCommand")
    /\ body' = sync_ground(body, veh[h].safety)
    /\ veh' = [veh EXCEPT ![h].setpoint = veh[h].permit.standing]

\* set_twist on a handle that may not drive: its yaw rate goes to the backend
\* first, which refuses it under an E-stop or on a parked chassis only.
SetYawRate(h) ==
    /\ veh[h].kind = "Moving"
    /\ ~require(h) \/ ~Admits(veh[h].safety, "DriveCommand")
    /\ ~body.ground.estop
    /\ Admits(body.ground, "DriveCommand")
    /\ veh' = [veh EXCEPT ![h].yaw_rate = veh[h].permit.standing]
    /\ UNCHANGED body

\* set_twist on a handle whose permit is current.
SetTwist(h) ==
    /\ veh[h].kind = "Moving"
    /\ ~body.ground.estop
    /\ Admits(body.ground, "DriveCommand")
    /\ require(h)
    /\ Admits(veh[h].safety, "DriveCommand")
    /\ body' = sync_ground(body, veh[h].safety)
    /\ veh' = [veh EXCEPT ![h].yaw_rate = veh[h].permit.standing,
                          ![h].setpoint = veh[h].permit.standing]

\* Fault: the E-stop reaches the chassis through the shadow only.
EstopPushOnly(b) == b

\* trigger_failsafe_now: the EStop event.
EstopEvent(b) == ground_event(b, "EStop")

\* park_now: a refused Halt is ignored and the shadow pushed over the chassis.
ParkNow(h) ==
    /\ veh[h].kind = "Moving"
    /\ LET halts == Admits(body.ground, "Halt")
           b == IF halts THEN ground_event(body, "Halt") ELSE body
           s == IF Admits(veh[h].safety, "Halt") THEN After(veh[h].safety, "Halt") ELSE parked
       IN  /\ body' = sync_ground(b, s)
           /\ veh' = [g \in Handle |->
                        LET v == IF halts THEN Demoted(veh[g]) ELSE veh[g] IN
                        IF g = h THEN [Idle(v) EXCEPT !.kind = "Parked", !.safety = s] ELSE v]

EmergencyStop(h) ==
    /\ veh[h].kind \in CanTripEstop
    /\ body' = sync_ground(EstopEvent(body), stopped)
    /\ veh' = [g \in Handle |->
                 IF g = h THEN [Idle(Demoted(veh[g])) EXCEPT !.kind = "EStopped",
                                                             !.safety = stopped]
                          ELSE Demoted(veh[g])]

\* ClearEstop on the handle's kernel; the chassis is overwritten, not asked.
Reset(h) ==
    /\ veh[h].kind = "EStopped"
    /\ Admits(veh[h].safety, "ClearEstop")
    /\ body' = sync_ground(body, After(veh[h].safety, "ClearEstop"))
    /\ veh' = [veh EXCEPT ![h] = [Idle(@) EXCEPT !.kind = "Parked", !.safety = parked]]

(* The backend and the world. *)

\* apply_setpoint: the yaw rate is written whether or not a setpoint is.
flush(v) == [body EXCEPT !.command = IF v.setpoint = "none" THEN @ ELSE v.setpoint,
                         !.yaw_cmd = v.yaw_rate]

actuators_granted(b) == b.ground.drive_enabled /\ ~b.ground.estop

\* World::try_step on body b: propulsion that is cut drops the command.
try_step(b, outcome) ==
    IF outcome = "cut" \/ (outcome = "granted" /\ ~actuators_granted(b))
      THEN [b EXCEPT !.command = "none"] ELSE b

Flush(h) == veh[h].kind # "Unbound" /\ body' = flush(veh[h]) /\ UNCHANGED veh
Tick(h) ==
    /\ veh[h].kind # "Unbound"
    /\ \E o \in StepOutcome : body' = try_step(flush(veh[h]), o)
    /\ UNCHANGED veh

\* WorldSession::step, by whoever drives the clock.
step == \E o \in StepOutcome : body' = try_step(body, o) /\ UNCHANGED veh

Next ==
    \/ \E h \in Handle :
         \/ Attach(h) \/ New(h) \/ EnableDrive(h)
         \/ SetVelocity(h) \/ SetYawRate(h) \/ SetTwist(h)
         \/ ParkNow(h) \/ EmergencyStop(h) \/ Reset(h)
         \/ Flush(h) \/ Tick(h)
    \/ step

Spec == Init /\ [][Next]_vars

-----------------------------------------------------------------------------
TypeOK == body \in Body /\ veh \in [Handle -> GroundVehicle]

Unsaturated == body.epoch < EpochMax

\* A permit issued before the chassis was E-stopped or halted is never taken
\* again, however often it is cleared, overwritten and released since.
LostPermitsStale ==
    Unsaturated => \A h \in Handle : veh[h].permit.standing = "lost" => ~EpochCurrent(h)

\* A permit the epoch admits is never held over an E-stopped chassis: whatever
\* the handles push over each other's E-stop, none revives the permits it ended.
CurrentMeansClear ==
    Unsaturated => \A h \in Handle : EpochCurrent(h) => ~body.ground.estop

\* No setpoint is staged under authority that is lost.
SetpointsPermitted ==
    [][Unsaturated' =>
         \A h \in Handle : veh'[h].setpoint = "lost" => veh[h].setpoint # "none"]_vars
=============================================================================
