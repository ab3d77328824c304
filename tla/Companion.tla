------------------------------ MODULE Companion ------------------------------
(***************************************************************************)
(* A companion computer that flies an autopilot over a UDP MAVLink link:   *)
(* Px4Backend, owned by one typed Vehicle.                                 *)
(*                                                                         *)
(* Everything on this side is one thread.  A call blocks, and while it     *)
(* drains its inbox and sleeps, the autopilot goes on sending: so a call   *)
(* is begun, takes one frame per step, goes round its loop and returns.    *)
(* Frames and commands are lost and late: the autopilot arms, disarms and  *)
(* fails safe when it does, and all the companion learns is in its frames. *)
(*                                                                         *)
(* The epoch only rises, so all that matters of it is whether it has risen *)
(* since the handle's permit was issued: a bump makes a held permit stale. *)
(***************************************************************************)
EXTENDS Naturals, Sequences, Mavlink

CONSTANTS
    FRAMES,          \* frames one drain of the inbox reads at most
    ARM_ROUNDS, OFFBOARD_ROUNDS, GUIDED_ROUNDS, WAIT_ROUNDS,  \* times round each loop
    INBOX,           \* frames the socket holds
    ESTIMATE_MAX_AGE, HEARTBEAT_MAX_AGE

ASSUME BoundsAssumption ==
    /\ FRAMES \in Nat \ {0}
    /\ ARM_ROUNDS \in Nat /\ OFFBOARD_ROUNDS \in Nat /\ GUIDED_ROUNDS \in Nat
    /\ WAIT_ROUNDS \in Nat
    /\ INBOX \in Nat
    /\ ESTIMATE_MAX_AGE \in Nat \ {0} /\ HEARTBEAT_MAX_AGE \in Nat \ {0}

VARIABLES
    autopilot,  \* which companion this is; it does not change
    \* the backend
    link, armed, offboard, seen_px4, seen_local_position,
    failsafe_latched, actuation_revoked,
    stream_position, last_velocity, last_position,
    pose_age, heartbeat_age,
    \* the typed handle that owns it
    stage, permit,
    \* the call that is running
    call, frames, rounds, held,
    \* the link, and the autopilot at its other end
    inbox, vehicle_armed, vehicle_shape,
    \* history: the value last streamed since a call that reads returned
    streamed

backend == <<link, armed, offboard, seen_px4, seen_local_position,
             failsafe_latched, actuation_revoked>>
setpoint == <<stream_position, last_velocity, last_position>>
ages == <<pose_age, heartbeat_age>>
handle == <<stage, permit>>
running == <<call, frames, rounds, held>>
vehicle == <<vehicle_armed, vehicle_shape>>
vars == <<autopilot, backend, setpoint, ages, handle, running, inbox, vehicle,
          streamed>>

\* What the two companions differ in: the heartbeats taken for the vehicle's, those
\* by which it leaves offboard, the modes it flies in and fails safe by.
is_px4_heartbeat(m) ==
    m.type = "HEARTBEAT" /\ m.mavtype \in {"quadrotor", "generic"}
is_ardupilot_heartbeat(m) ==
    is_px4_heartbeat(m) /\ m.autopilot = "ardupilotmega"

Recognised(m) ==
    IF autopilot = "px4" THEN is_px4_heartbeat(m) ELSE is_ardupilot_heartbeat(m)
Revokes(h) ==
    IF autopilot = "px4" THEN heartbeat_revokes_authority(h)
                         ELSE ardupilot_heartbeat_revokes_authority(h)
VehicleHeartbeat(reports_armed, mode, status) ==
    IF autopilot = "px4"
      THEN px4_vehicle_heartbeat_status(reports_armed, mode, status)
      ELSE ardupilot_vehicle_heartbeat_status(reports_armed, mode, status)
Flying == <<IF autopilot = "px4" THEN "offboard" ELSE "guided", "active">>
FailedSafe == <<IF autopilot = "px4" THEN PX4_AUTO_RTL ELSE ARDUPILOT_COPTER_RTL, "active">>
Shape == {Flying, FailedSafe}

\* Where a setpoint's value comes from: it was measured, or it was commanded
\* since the link was last opened, or before that.
Origin == {"measured", "commanded", "outlived"}

\* Offboard stands for Offboard, Takeoff and Airborne: they differ in nothing
\* the backend does.
Stage == {"disconnected", "disarmed", "ready", "armed", "offboard", "landing",
          "failsafe", "recovery"}
OffboardControl == {"offboard", "landing"}
Call == {"idle", "connect", "preflight", "arm", "enter_offboard",
         "set_velocity", "set_position", "hold", "tick"}
Never == HEARTBEAT_MAX_AGE + ESTIMATE_MAX_AGE
Frame == {local_position_ned} \cup
         {VehicleHeartbeat(a, s[1], s[2]) : a \in BOOLEAN, s \in Shape}

Bound(n) == 0 .. n
RoundsMax == ARM_ROUNDS + OFFBOARD_ROUNDS + GUIDED_ROUNDS + WAIT_ROUNDS + 1

TypeOK ==
    /\ autopilot \in {"px4", "ardupilot"}
    /\ link \in BOOLEAN /\ armed \in BOOLEAN /\ offboard \in BOOLEAN
    /\ seen_px4 \in BOOLEAN /\ seen_local_position \in BOOLEAN
    /\ failsafe_latched \in BOOLEAN /\ actuation_revoked \in BOOLEAN
    /\ stream_position \in BOOLEAN
    /\ last_velocity \in Origin /\ last_position \in Origin
    /\ pose_age \in Bound(ESTIMATE_MAX_AGE) \cup {Never}
    /\ heartbeat_age \in Bound(HEARTBEAT_MAX_AGE)
    /\ stage \in Stage /\ permit \in {"none", "current", "stale"}
    /\ call \in Call /\ held \in Origin
    /\ frames \in Bound(FRAMES) /\ rounds \in Bound(RoundsMax)
    /\ inbox \in Seq(Frame) /\ Len(inbox) <= INBOX
    /\ vehicle_armed \in BOOLEAN /\ vehicle_shape \in Shape
    /\ streamed \in Origin

Init ==
    /\ autopilot \in {"px4", "ardupilot"}
    /\ link = FALSE /\ armed = FALSE /\ offboard = FALSE
    /\ seen_px4 = FALSE /\ seen_local_position = FALSE
    /\ failsafe_latched = FALSE /\ actuation_revoked = FALSE
    /\ stream_position = FALSE
    /\ last_velocity = "measured" /\ last_position = "measured"
    /\ pose_age = Never /\ heartbeat_age = HEARTBEAT_MAX_AGE
    /\ stage = "disconnected" /\ permit = "none"
    /\ call = "idle" /\ frames = 0 /\ rounds = 0 /\ held = "measured"
    /\ inbox = <<>>
    /\ vehicle_armed = FALSE /\ vehicle_shape \in Shape
    /\ streamed = "measured"

\* ------------------------------------------------------------- the backend
refuse_revoked_setpoint == failsafe_latched \/ actuation_revoked

revoke_authority == permit' = IF permit = "none" THEN "none" ELSE "stale"

\* The age is none of an estimate that was never seen.
estimator_estimate == pose_age # Never /\ pose_age >= ESTIMATE_MAX_AGE

Streams(v) == streamed' = v
pump_setpoint == Streams(IF stream_position THEN last_position ELSE last_velocity)

Idle == call = "idle"
Return ==
    /\ call' = "idle" /\ frames' = 0 /\ rounds' = 0
    /\ held' = "measured" /\ streamed' = "measured"
Enter(c, n) == call' = c /\ frames' = FRAMES /\ rounds' = n /\ UNCHANGED held

\* A drain of the inbox ends when nothing waits, or at its last frame.
Drained == frames = 0 \/ inbox = <<>>

\* Fault: a pose replaces only the position that is streamed.
IngestPosePosition ==
    /\ Head(inbox) = local_position_ned
    /\ last_position' = "measured"
    /\ seen_local_position' = TRUE
    /\ pose_age' = 0
    /\ UNCHANGED <<link, armed, offboard, seen_px4, failsafe_latched, last_velocity,
                   actuation_revoked, stream_position, heartbeat_age, permit>>

\* One frame of ingest_inbox: a pose is what is streamed from then on.
IngestPose ==
    /\ Head(inbox) = local_position_ned
    /\ last_position' = "measured" /\ last_velocity' = "measured"
    /\ seen_local_position' = TRUE
    /\ pose_age' = 0
    /\ UNCHANGED <<link, armed, offboard, seen_px4, failsafe_latched,
                   actuation_revoked, stream_position, heartbeat_age, permit>>

\* Fault: a disarm nobody asked for is not noticed.
FailsafeHeartbeatOnly(h) ==
    /\ offboard' = (offboard /\ ~Revokes(h))
    /\ failsafe_latched' = (failsafe_latched \/ Revokes(h))
    /\ IF Revokes(h) /\ ~failsafe_latched THEN revoke_authority ELSE UNCHANGED permit
    /\ UNCHANGED <<armed, actuation_revoked>>

\* The vehicle's status, and the disarm nobody here asked for.
apply_vehicle_heartbeat(h) ==
    LET unexpected_disarm == armed /\ ~heartbeat_reports_armed(h) IN
    /\ armed' = (armed /\ ~unexpected_disarm)
    /\ offboard' = (offboard /\ ~unexpected_disarm /\ ~Revokes(h))
    /\ actuation_revoked' = (actuation_revoked \/ unexpected_disarm)
    /\ failsafe_latched' = (failsafe_latched \/ Revokes(h))
    /\ IF (Revokes(h) \/ unexpected_disarm) /\ ~failsafe_latched
         THEN revoke_authority
         ELSE UNCHANGED permit

ingest_heartbeat(h) ==
    /\ heartbeat_age' = 0
    /\ seen_px4' = TRUE
    /\ apply_vehicle_heartbeat(h)
    /\ UNCHANGED <<link, seen_local_position, setpoint, pose_age>>

IngestHeartbeat ==
    /\ Head(inbox) # local_position_ned
    /\ Recognised(Head(inbox))
    /\ ingest_heartbeat(Head(inbox))

IngestOther ==
    /\ Head(inbox) # local_position_ned
    /\ ~Recognised(Head(inbox))
    /\ UNCHANGED <<backend, setpoint, ages, permit>>

\* Fault: a drain has no end while frames keep arriving.
IngestUncounted ==
    /\ ~Idle /\ link /\ ~Drained
    /\ IngestPose \/ IngestHeartbeat \/ IngestOther
    /\ inbox' = Tail(inbox)
    /\ UNCHANGED <<stage, call, frames, rounds, held, vehicle, streamed>>

ingest_inbox ==
    /\ ~Idle /\ link /\ ~Drained
    /\ IngestPose \/ IngestHeartbeat \/ IngestOther
    /\ inbox' = Tail(inbox)
    /\ frames' = frames - 1
    /\ UNCHANGED <<stage, call, rounds, held, vehicle, streamed>>

\* After the drain and the sleep, the loop goes round again: arm and
\* enter_offboard stream, wait_inbox looks whether it has what it waits for,
\* hold takes the last pose before its setpoint drains the inbox again.
Waiting == CASE call = "connect" -> ~seen_px4
             [] call = "preflight" -> ~seen_local_position
             [] OTHER -> TRUE

Round ==
    /\ ~Idle /\ Drained /\ rounds > 0 /\ Waiting
    /\ rounds' = rounds - 1 /\ frames' = FRAMES
    /\ held' = IF call = "hold" THEN last_position ELSE held
    /\ IF call \in {"arm", "enter_offboard"} THEN pump_setpoint ELSE UNCHANGED streamed
    /\ UNCHANGED <<backend, setpoint, ages, handle, call, inbox, vehicle>>

\* The loop of a call is over.
Over(c) == call = c /\ Drained /\ (rounds = 0 \/ ~Waiting)

\* ------------------------------------------------------------ the calls
\* Vehicle::connect, on a backend that may have been connected before.
Connect ==
    /\ Idle /\ stage = "disconnected"
    /\ \/ /\ link' = TRUE /\ seen_px4' = FALSE /\ seen_local_position' = FALSE
          /\ inbox' = <<>>
          /\ last_velocity' = IF last_velocity = "measured" THEN "measured" ELSE "outlived"
          /\ last_position' = IF last_position = "measured" THEN "measured" ELSE "outlived"
          /\ Enter("connect", WAIT_ROUNDS) /\ UNCHANGED streamed
       \/ /\ UNCHANGED <<link, seen_px4, seen_local_position, inbox,
                         last_velocity, last_position>>
          /\ Return
    /\ revoke_authority
    /\ UNCHANGED <<armed, offboard, failsafe_latched, actuation_revoked,
                   stream_position, ages, stage, vehicle>>

ConnectReturns ==
    /\ Over("connect")
    /\ link' = seen_px4
    /\ stage' = IF seen_px4 THEN "disarmed" ELSE stage
    /\ Return
    /\ UNCHANGED <<armed, offboard, seen_px4, seen_local_position, failsafe_latched,
                   actuation_revoked, setpoint, ages, permit, inbox, vehicle>>

Preflight ==
    /\ Idle /\ stage = "disarmed"
    /\ Enter("preflight", WAIT_ROUNDS)
    /\ UNCHANGED <<backend, setpoint, ages, handle, inbox, vehicle, streamed>>

PreflightReturns ==
    /\ Over("preflight")
    /\ stage' = IF seen_local_position THEN "ready" ELSE stage
    /\ Return
    /\ UNCHANGED <<backend, setpoint, ages, permit, inbox, vehicle>>

Arm ==
    /\ Idle /\ stage = "ready" /\ link
    /\ pump_setpoint
    /\ Enter("arm", ARM_ROUNDS)
    /\ UNCHANGED <<backend, setpoint, ages, handle, inbox, vehicle>>

\* The permit is issued for the epoch there is now, whatever the loop read.
ArmReturns ==
    /\ Over("arm")
    /\ armed' = TRUE /\ actuation_revoked' = FALSE
    /\ stage' = "armed" /\ permit' = "current"
    /\ Return
    /\ UNCHANGED <<link, offboard, seen_px4, seen_local_position, failsafe_latched,
                   setpoint, ages, inbox, vehicle>>

EnterOffboard ==
    /\ Idle /\ stage = "armed" /\ link
    /\ permit = "current" /\ ~refuse_revoked_setpoint
    /\ pump_setpoint
    /\ Enter("enter_offboard", IF autopilot = "px4" THEN OFFBOARD_ROUNDS ELSE GUIDED_ROUNDS)
    /\ UNCHANGED <<backend, setpoint, ages, handle, inbox, vehicle>>

\* Fault: the actuators are enabled without a look at the latch.
EnableAnyway == TRUE

\* The backend is offboard whatever was read on the way; the vehicle asks it
\* to enable the actuators before it issues the permit.
enable_actuators == ~refuse_revoked_setpoint

EnterOffboardReturns ==
    /\ Over("enter_offboard")
    /\ offboard' = TRUE
    /\ IF enable_actuators
         THEN stage' = "offboard" /\ permit' = "current"
         ELSE UNCHANGED handle
    /\ Return
    /\ UNCHANGED <<link, armed, seen_px4, seen_local_position, failsafe_latched,
                   actuation_revoked, setpoint, ages, inbox, vehicle>>

\* require_live_permit, before the backend is asked anything.
require_live_permit == permit = "current" /\ heartbeat_age < HEARTBEAT_MAX_AGE

\* A setpoint: first the inbox, then the age of the estimate, then the gate.
Setpoint(c, n) ==
    /\ Idle /\ stage \in OffboardControl /\ require_live_permit
    /\ Enter(c, n)
    /\ UNCHANGED <<backend, setpoint, ages, handle, inbox, vehicle, streamed>>

SetVelocity == Setpoint("set_velocity", 0)
SetPosition == Setpoint("set_position", 0)
Hold == Setpoint("hold", 1)

maybe_revoke_stale_estimator ==
    LET revokes == estimator_estimate /\ ~failsafe_latched IN
    /\ failsafe_latched' = (failsafe_latched \/ revokes)
    /\ offboard' = (offboard /\ ~revokes)
    /\ IF revokes THEN revoke_authority ELSE UNCHANGED permit

\* Fault: the gate is looked at before the age of the estimate is.
AcceptThenCheck(position, v) ==
    /\ maybe_revoke_stale_estimator
    /\ IF failsafe_latched \/ actuation_revoked
         THEN UNCHANGED setpoint
         ELSE /\ stream_position' = position
              /\ last_position' = IF position THEN v ELSE last_position
              /\ last_velocity' = IF position THEN last_velocity ELSE v
    /\ Return
    /\ UNCHANGED <<link, armed, seen_px4, seen_local_position, actuation_revoked,
                   ages, stage, inbox, vehicle>>

\* The value v is kept, and pumped once, if the gate lets it.
Accept(position, v) ==
    /\ maybe_revoke_stale_estimator
    /\ IF failsafe_latched' \/ actuation_revoked
         THEN UNCHANGED <<setpoint>>
         ELSE /\ stream_position' = position
              /\ last_position' = IF position THEN v ELSE last_position
              /\ last_velocity' = IF position THEN last_velocity ELSE v
    /\ Return
    /\ UNCHANGED <<link, armed, seen_px4, seen_local_position, actuation_revoked,
                   ages, stage, inbox, vehicle>>

SetVelocityReturns == Over("set_velocity") /\ Accept(FALSE, "commanded")
SetPositionReturns == Over("set_position") /\ Accept(TRUE, "commanded")
HoldReturns == Over("hold") /\ Accept(TRUE, held)

\* The loop of every controller: it streams whatever there is to stream, asks
\* nobody, and reads the inbox before and after it sleeps.
Tick ==
    /\ Idle /\ stage \in OffboardControl
    /\ Enter("tick", 1)
    /\ IF link THEN pump_setpoint ELSE UNCHANGED streamed
    /\ UNCHANGED <<backend, setpoint, ages, handle, inbox, vehicle>>

TickReturns ==
    /\ Over("tick")
    /\ Return
    /\ UNCHANGED <<backend, setpoint, ages, handle, inbox, vehicle>>

\* takeoff_now and reached_altitude_now: gated, and they read nothing.
Climb ==
    /\ Idle /\ stage = "offboard" /\ link
    /\ require_live_permit /\ ~refuse_revoked_setpoint
    /\ pump_setpoint
    /\ UNCHANGED <<backend, setpoint, ages, handle, running, inbox, vehicle>>

\* Gated by the permit and by nothing in the backend.
Land ==
    /\ Idle /\ stage = "offboard" /\ link /\ require_live_permit
    /\ stage' = "landing"
    /\ UNCHANGED <<backend, setpoint, ages, permit, running, inbox, vehicle, streamed>>

\* The default touchdown of the trait does nothing: the backend stays armed.
Touchdown ==
    /\ Idle /\ stage \in {"landing", "failsafe"}
    /\ stage' = "ready"
    /\ UNCHANGED <<backend, setpoint, ages, permit, running, inbox, vehicle, streamed>>

Disarm ==
    /\ Idle /\ stage \in {"ready", "armed", "offboard", "landing", "failsafe"} /\ link
    /\ armed' = FALSE /\ offboard' = FALSE /\ actuation_revoked' = TRUE
    /\ revoke_authority
    /\ stage' = IF stage = "failsafe" THEN "recovery" ELSE "ready"
    /\ UNCHANGED <<link, seen_px4, seen_local_position, failsafe_latched,
                   setpoint, ages, running, inbox, vehicle, streamed>>

Recover ==
    /\ Idle /\ stage = "recovery"
    /\ stage' = "ready"
    /\ UNCHANGED <<backend, setpoint, ages, permit, running, inbox, vehicle, streamed>>

\* The latch and the bump come first; the datagram may fail, and then the
\* handle keeps its type.
trigger_failsafe ==
    /\ failsafe_latched' = TRUE /\ offboard' = FALSE
    /\ revoke_authority

Failsafe ==
    /\ Idle /\ stage \in {"ready", "armed", "offboard", "landing"}
    /\ trigger_failsafe
    /\ stage' = IF link THEN "failsafe" ELSE stage
    /\ UNCHANGED <<link, armed, seen_px4, seen_local_position, actuation_revoked,
                   setpoint, ages, running, inbox, vehicle, streamed>>

\* A fault put into the backend under an offboard handle.  Every one bumps.
inject_revoke ==
    /\ Idle /\ stage \in OffboardControl
    /\ revoke_authority
    /\ \/ /\ failsafe_latched' = TRUE /\ offboard' = FALSE  \* TriggerFailsafe
          /\ UNCHANGED <<link, armed, seen_px4, seen_local_position,
                         actuation_revoked, ages>>
       \/ /\ armed' = FALSE /\ offboard' = FALSE /\ actuation_revoked' = TRUE  \* Disarm
          /\ seen_px4' = TRUE /\ heartbeat_age' = 0
          /\ UNCHANGED <<link, seen_local_position, failsafe_latched, pose_age>>
       \/ /\ link' = FALSE /\ armed' = FALSE /\ offboard' = FALSE  \* Disconnect
          /\ failsafe_latched' = FALSE /\ actuation_revoked' = TRUE
          /\ UNCHANGED <<seen_px4, seen_local_position, ages>>
       \/ /\ heartbeat_age' = HEARTBEAT_MAX_AGE  \* HeartbeatStale
          /\ failsafe_latched' = TRUE /\ offboard' = (offboard /\ failsafe_latched)
          /\ UNCHANGED <<link, armed, seen_px4, seen_local_position,
                         actuation_revoked, pose_age>>
       \/ /\ seen_local_position' = TRUE /\ pose_age' = ESTIMATE_MAX_AGE  \* EstimatorInvalid
          /\ failsafe_latched' = TRUE /\ offboard' = (offboard /\ failsafe_latched)
          /\ UNCHANGED <<link, armed, seen_px4, actuation_revoked, heartbeat_age>>
       \/ /\ seen_px4' = FALSE  \* ImuUnhealthy
          /\ failsafe_latched' = (failsafe_latched \/ armed)
          /\ offboard' = (offboard /\ (failsafe_latched \/ ~armed))
          /\ UNCHANGED <<link, armed, seen_local_position, actuation_revoked, ages>>
    /\ inbox' = IF link' THEN inbox ELSE <<>>
    /\ UNCHANGED <<setpoint, stage, running, vehicle, streamed>>

\* Vehicle::new(handle.into_backend()): the backend keeps all it had.
Rebind ==
    /\ Idle /\ stage # "disconnected"
    /\ stage' = "disconnected" /\ permit' = "none"
    /\ UNCHANGED <<backend, setpoint, ages, running, inbox, vehicle, streamed>>

\* ------------------------------------------- the clock and the autopilot
Older(age, max) == IF age = Never \/ age = max THEN age ELSE age + 1

Age ==
    /\ pose_age' = Older(pose_age, ESTIMATE_MAX_AGE)
    /\ heartbeat_age' = Older(heartbeat_age, HEARTBEAT_MAX_AGE)
    /\ UNCHANGED <<backend, setpoint, handle, running, inbox, vehicle, streamed>>

Sends(m) ==
    /\ link /\ Len(inbox) < INBOX
    /\ inbox' = Append(inbox, m)
    /\ UNCHANGED <<backend, setpoint, ages, handle, running, vehicle, streamed>>

SendsHeartbeat == Sends(VehicleHeartbeat(vehicle_armed, vehicle_shape[1], vehicle_shape[2]))
SendsPose == Sends(local_position_ned)

\* It obeys a command that has arrived, or a pilot, or itself.
Decides ==
    /\ vehicle_armed' \in BOOLEAN
    /\ vehicle_shape' \in Shape
    /\ UNCHANGED <<backend, setpoint, ages, handle, running, inbox, streamed>>

\* ---------------------------------------------------------- the machine
Returns == ConnectReturns \/ PreflightReturns \/ ArmReturns \/ EnterOffboardReturns
           \/ SetVelocityReturns \/ SetPositionReturns \/ HoldReturns \/ TickReturns

Proceeds == ingest_inbox \/ Round \/ Returns

Calls == Connect \/ Preflight \/ Arm \/ EnterOffboard \/ SetVelocity \/ SetPosition
         \/ Hold \/ Climb \/ Land \/ Touchdown \/ Disarm \/ Recover \/ Failsafe
         \/ inject_revoke \/ Rebind

Environment == Age \/ SendsHeartbeat \/ SendsPose \/ Decides

Acts == Proceeds \/ Calls \/ Tick \/ Environment

\* ------------------------------------------------------------ properties
HandleLive == stage \in OffboardControl /\ permit = "current"

\* A handle that types as offboard and holds a current permit is one whose
\* backend flies: every path on which the backend latches, disarms or refuses
\* also bumps the epoch, and the windows in which arm and enter_offboard read
\* heartbeats end in a refusal.
LiveHandleMeansAuthority ==
    HandleLive => armed /\ offboard /\ ~failsafe_latched /\ ~actuation_revoked

\* While arm and enter_offboard warm the stream up, no setpoint of an earlier
\* connection goes out: preflight has waited for a pose, and a pose replaces
\* what is streamed.
ArmStreamsThisSession == call \in {"arm", "enter_offboard"} => streamed # "outlived"

\* The permit is checked before the inbox is read: a setpoint whose call has
\* read of a loss of authority, or finds the estimate stale, leaves nothing
\* that any later pump could stream.
LostCallsLeaveNoSetpoint ==
    [][(SetVelocityReturns \/ SetPositionReturns \/ HoldReturns)
         /\ (~HandleLive' \/ estimator_estimate)
         => UNCHANGED setpoint]_vars

\* However fast the autopilot sends, every call returns.
CallsReturn == []<>Idle
=============================================================================
