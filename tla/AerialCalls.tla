----------------------------- MODULE AerialCalls -----------------------------
(***************************************************************************)
(* What the calls on an aerial Vehicle<S, WorldBackend> do to one shared   *)
(* world body, step by step in the order of the code.                      *)
(*                                                                         *)
(* Several handles share the body through clones of a WorldSession, an     *)
(* Arc<Mutex<Plant>>; a handle has its own typestate S, its own copy of    *)
(* the kernel state ("shadow"), its permit and its staged setpoint.  Every *)
(* step below takes the mutex at most once, so a call is a sequence of     *)
(* atomic steps: AerialSession runs a call in one go, AerialThreads lets   *)
(* other threads in between its steps.                                     *)
(*                                                                         *)
(* Data is reduced to what authority depends on.  A lease is the time it   *)
(* has left; a setpoint, and the command on the body, is the standing of   *)
(* the authority it was staged under.  Standings are history: the code has *)
(* nothing like them, only the epoch that is meant to stand for them.      *)
(***************************************************************************)
EXTENDS AerialKernel, Integers, Sequences

CONSTANTS
    Handle,     \* the vehicles bound to the body
    EpochMax,   \* u32::MAX, where saturating_add stops
    Lease       \* ticks an acquired lease lasts

ASSUME EpochMaxAssumption == EpochMax \in Nat \ {0}
ASSUME LeaseAssumption == Lease \in Nat

Unbounded == -1

\* "now": the vehicle has been live since; "landed": it was disarmed by a
\* touchdown and by nothing else since; "lost": it failed safe, was disarmed
\* or disconnected, or its companion reconnected since.
Standing == {"now", "landed", "lost"}

Permit == [held : BOOLEAN, epoch : 0..EpochMax,
           left : Nat \cup {Unbounded}, standing : Standing]
Setpoint == Standing \cup {"none"}

NoPermit == [held |-> FALSE, epoch |-> 0, left |-> 0, standing |-> "lost"]

\* AerialKind, and the handles not bound yet.
Kind == {"Disconnected", "Disarmed", "PreflightReady", "Armed", "Offboard",
         "Takeoff", "Airborne", "Landing", "Failsafe", "Recovery", "Unbound"}

Vehicle == [kind : Kind, shadow : SafetyState, permit : Permit, setpoint : Setpoint]

Body == [safety : SafetyState, epoch : 0..EpochMax, command : Setpoint]

\* Ready, with the sensors healthy: what the connect path reaches.
Ready == [Disconnected EXCEPT !.phase = "Ready", !.imu_healthy = TRUE,
                              !.estimator_valid = TRUE]

aerial_ready == [safety |-> Ready, epoch |-> 0, command |-> "none"]

Fresh == [kind |-> "Unbound", shadow |-> Disconnected, permit |-> NoPermit,
          setpoint |-> "none"]

\* The typestates that implement each marker trait.
OffboardControl == {"Offboard", "Takeoff", "Airborne", "Landing"}
MotorsEnabled   == OffboardControl \cup {"Armed"}
CanDisarm       == MotorsEnabled \cup {"PreflightReady"}
CanTripFailsafe == MotorsEnabled \cup {"PreflightReady"}
CanTouchdown    == {"Landing", "Failsafe"}
CanBeginLand    == {"Takeoff", "Airborne"}

-----------------------------------------------------------------------------
(* The world a step runs in: the body, every handle, and whether the call  *)
(* has failed.                                                             *)

\* Authority that stood before the body went from s to n on event e.
Loss(s, n, e) ==
    CASE (n.failsafe /\ ~s.failsafe) \/ (s.armed /\ ~n.armed /\ e # "Touchdown") -> "lost"
      [] s.armed /\ ~n.armed /\ e = "Touchdown" -> "landed"
      [] OTHER -> "none"

Downgrade(tag, loss) ==
    IF loss = "lost" /\ tag # "none" THEN "lost"
    ELSE IF loss = "landed" /\ tag = "now" THEN "landed"
    ELSE tag

\* Every permit, setpoint and command outstanding loses its standing.
Demoted(v, loss) ==
    [v EXCEPT !.permit.standing = Downgrade(v.permit.standing, loss),
              !.setpoint = Downgrade(v.setpoint, loss)]

Suffer(w, loss) ==
    [body |-> [w.body EXCEPT !.command = Downgrade(@, loss)],
     veh  |-> [g \in Handle |-> Demoted(w.veh[g], loss)],
     ok   |-> w.ok]

bump_authority(epoch) == IF epoch < EpochMax THEN epoch + 1 ELSE epoch

\* Fault: a disarm does not revoke.
RevokesNotDisarm(s, n, e) ==
    (event_revokes_authority(e) /\ e # "Disarm") \/ (n.failsafe /\ ~s.failsafe)

Revokes(s, n, e) == event_revokes_authority(e) \/ (n.failsafe /\ ~s.failsafe)

\* aerial_event, once step returned Ok: the successor, the bump and the
\* cleared command, under one lock.
aerial_event(w, e) ==
    LET s == w.body.safety
        n == After(s, e)
        b == [safety  |-> n,
              epoch   |-> IF Revokes(s, n, e) THEN bump_authority(w.body.epoch)
                                              ELSE w.body.epoch,
              command |-> IF n.failsafe \/ e \in {"Touchdown", "Recover"}
                            THEN "none" ELSE w.body.command]
    IN  Suffer([w EXCEPT !.body = b], Loss(s, n, e))

Refuse(w) == [w EXCEPT !.ok = FALSE]
Require(w, cond) == IF cond THEN w ELSE Refuse(w)

\* authority::require: the vehicle id cannot differ, both sides derive it from
\* the same body id.
EpochCurrent(w, h) == w.veh[h].permit.held /\ w.veh[h].permit.epoch = w.body.epoch
LeaseLive(w, h) == w.veh[h].permit.left # 0

\* authority::issue and issue_bounded.  A permit that replaces one from before
\* a touchdown is from before it too.
Renewed(standing) == IF standing = "landed" THEN "landed" ELSE "now"
issue(w, h, left, standing) ==
    [w EXCEPT !.veh[h].permit =
        [held |-> TRUE, epoch |-> w.body.epoch, left |-> left, standing |-> standing]]

\* One tick of the session clock, seen by every lease.
Aged(v) == IF v.permit.left > 0 THEN [v EXCEPT !.permit.left = @ - 1] ELSE v

Advance(w) == [w EXCEPT !.veh = [g \in Handle |-> Aged(w.veh[g])]]

\* step_body keeps the command of a body whose propulsion is live (granted,
\* charged, rotors dry) and drops it otherwise.
actuators_granted(s) == s.actuators_enabled /\ s.armed /\ ~s.failsafe

-----------------------------------------------------------------------------
(* The steps calls are made of. *)

StepName == {"plant", "attempt", "shadow", "epoch", "lease", "heartbeat", "unrevoked",
             "sensors", "preflight", "ready", "refused", "issue", "reissue",
             "issue_bounded", "revoke", "stage", "unstage", "flush", "clear",
             "granted", "cut", "new", "read", "wrap"}

\* A step, and the event it posts to the plant or to the handle's shadow.
StepOf == {st \in [op : StepName, e : Event \cup {"none"}] :
             st.op \in {"plant", "attempt", "shadow"} <=> st.e \in Event}

Op(op) == <<[op |-> op, e |-> "none"]>>
On(op, e) == <<[op |-> op, e |-> e]>>

Plant(e)   == On("plant", e)      \* aerial_event, its error returned
Attempt(e) == On("attempt", e)    \* aerial_event, its error discarded
Shadow(e)  == On("shadow", e)     \* Vehicle::apply_event

Run(w, h, st) ==
    LET v == w.veh[h]
        s == w.body.safety
    IN
    CASE st.op = "plant" -> IF Admits(s, st.e) THEN aerial_event(w, st.e) ELSE Refuse(w)
      [] st.op = "attempt" -> IF Admits(s, st.e) THEN aerial_event(w, st.e) ELSE w
      [] st.op = "shadow" ->
            IF Admits(v.shadow, st.e)
              THEN [w EXCEPT !.veh[h].shadow = After(@, st.e)] ELSE Refuse(w)
      \* what is read, and refused on
      [] st.op = "epoch"     -> Require(w, EpochCurrent(w, h))
      [] st.op = "lease"     -> Require(w, LeaseLive(w, h))
      [] st.op = "heartbeat" -> Require(w, s.offboard_heartbeat_fresh)
      [] st.op = "unrevoked" -> Require(w, ~s.failsafe)
      [] st.op = "sensors"   -> Require(w, s.imu_healthy /\ s.estimator_valid)
      [] st.op = "preflight" -> Require(w, v.shadow.phase = "Preflight")
      [] st.op = "ready"     -> Require(w, v.shadow.phase = "Ready")
      [] st.op = "refused"   -> Refuse(w)
      \* permits
      [] st.op = "issue"         -> issue(w, h, Unbounded, "now")
      [] st.op = "reissue"       -> issue(w, h, Unbounded, Renewed(v.permit.standing))
      [] st.op = "issue_bounded" -> issue(w, h, Lease, Renewed(v.permit.standing))
      [] st.op = "revoke" ->
            [Suffer(w, "lost") EXCEPT !.body.epoch = bump_authority(@)]
      \* setpoints and the body's command
      [] st.op = "stage"   -> [w EXCEPT !.veh[h].setpoint = v.permit.standing]
      [] st.op = "unstage" -> [w EXCEPT !.veh[h].setpoint = "none"]
      [] st.op = "flush" ->
            IF v.setpoint = "none" THEN w ELSE [w EXCEPT !.body.command = v.setpoint]
      [] st.op = "clear"   -> [w EXCEPT !.body.command = "none"]
      [] st.op = "granted" ->
            Advance(IF actuators_granted(s) THEN w ELSE [w EXCEPT !.body.command = "none"])
      [] st.op = "cut"     -> Advance([w EXCEPT !.body.command = "none"])
      \* binding a handle
      [] st.op = "new" ->
            [w EXCEPT !.veh[h] = [v EXCEPT !.shadow = Disconnected, !.permit = NoPermit]]
      [] st.op = "read" ->
            [w EXCEPT !.veh[h] = [v EXCEPT !.shadow = s, !.permit = NoPermit]]
      [] st.op = "wrap" ->
            IF grants_actuation(aerial_kind(v.shadow)) THEN issue(w, h, Unbounded, "now") ELSE w

-----------------------------------------------------------------------------
(* The calls: the typestates they compile from, their steps, and the       *)
(* typestate a success returns; on an error the handle keeps the one it    *)
(* had.  "same": a &mut self method.  "shadow": from_state picks it.       *)

Call(from, does, into) == [from |-> from, does |-> does, into |-> into]
Bound == Kind \ {"Unbound"}

require_permit == Op("epoch") \o Op("lease")
require_live_permit == require_permit \o Op("heartbeat")

\* The backend half of a call: refuse_revoked_setpoint, then the event.
Gated(e) == Op("unrevoked") \o Plant(e)
accept_mission == Gated("HeartbeatFresh") \o Plant("MissionCommand")

\* World::try_step may commit, with the propulsion live or cut (battery, wet
\* rotors), or refuse the successor.
StepOutcome == {"granted", "cut", "refused"}
tick_body(outcome) == Op("flush") \o Op(outcome)

attach   == Call(Kind, Op("unstage") \o Op("read") \o Op("wrap"), "shadow")
reattach == Call(Bound, Op("read") \o Op("wrap"), "shadow")
new      == Call(Kind, Op("unstage") \o Op("new"), "Disconnected")

connect ==
    Call({"Disconnected"},
         Op("revoke") \o Shadow("Connect") \o Shadow("InitComplete") \o Shadow("Initialized"),
         "Disarmed")

verify_preflight(phase) ==
    Call({"Disarmed"},
         Op("sensors") \o Op(phase) \o
            (IF phase = "ready" THEN <<>>
             ELSE Shadow("ImuHealthy") \o Shadow("EstimatorValid") \o Shadow("PreflightPassed")),
         "PreflightReady")

\* Fault: the plant's refusal to arm is ignored.
ArmAnyway == Call({"PreflightReady"}, Attempt("Arm") \o Shadow("Arm") \o Op("issue"), "Armed")

arm_now == Call({"PreflightReady"}, Plant("Arm") \o Shadow("Arm") \o Op("issue"), "Armed")

EnterOffboard ==
    require_permit \o Shadow("HeartbeatFresh")
    \o Gated("HeartbeatFresh") \o Plant("EnterOffboard") \o Op("stage")
    \o Shadow("EnterOffboard") \o Shadow("EnableActuators")
    \o Gated("EnableActuators") \o Op("reissue")

enter_offboard_now == Call({"Armed"}, EnterOffboard, "Offboard")
acquire_offboard_control_now ==
    Call({"Armed"}, EnterOffboard \o Op("issue_bounded"), "Offboard")
renew_offboard_control_now ==
    Call(OffboardControl, require_live_permit \o Op("issue_bounded"), "same")

\* Fault: the start of a climb without the permit check.
StartTakeoffUnchecked ==
    Gated("Takeoff") \o Shadow("Takeoff") \o Gated("EnableActuators")

StartTakeoff ==
    require_live_permit \o Gated("Takeoff") \o Shadow("Takeoff") \o Gated("EnableActuators")

Airborne == require_live_permit \o Gated("ReachedAltitude") \o Shadow("ReachedAltitude")

\* Fault: a leftover handle commands without showing its permit.
AdmitUnchecked == Shadow("HeartbeatFresh") \o Shadow("MissionCommand")

admit_offboard_now ==
    require_live_permit \o Shadow("HeartbeatFresh") \o Shadow("MissionCommand")
Command == admit_offboard_now \o accept_mission \o Op("stage")

start_takeoff_now    == Call({"Offboard"}, StartTakeoff, "Takeoff")
declare_airborne_now == Call({"Takeoff"}, Airborne, "Airborne")
offboard_command     == Call(OffboardControl, Command, "same")

\* takeoff: climb, one tick at a time, until the altitude is reached.
Climb(outcome) ==
    StartTakeoff \o Command \o tick_body(outcome) \o Airborne \o Command
takeoff(outcome) == Call({"Offboard"}, Climb(outcome), "Airborne")
armed_takeoff(outcome) == Call({"Armed"}, EnterOffboard \o Climb(outcome), "Airborne")

begin_land_now ==
    Call(CanBeginLand, require_live_permit \o Plant("Land") \o Shadow("Land"), "Landing")

Touchdown == Plant("Touchdown") \o Op("unstage")

Disarm == Attempt("Disarm") \o Op("clear") \o Op("unstage")

touchdown_now == Call(CanTouchdown, Touchdown \o Shadow("Touchdown"), "PreflightReady")
disarm_now    == Call(CanDisarm, Disarm \o Shadow("Disarm"), "PreflightReady")
failsafe_disarm_now == Call({"Failsafe"}, Disarm \o Shadow("Disarm"), "Recovery")

\* land: the descent checks the permit each tick, not before the Land event.
land(outcome) ==
    Call(CanBeginLand,
         Plant("Land") \o Shadow("Land") \o Shadow("HeartbeatFresh") \o require_permit
         \o Shadow("MissionCommand") \o accept_mission \o Op("stage") \o tick_body(outcome)
         \o Touchdown \o Shadow("Touchdown") \o Disarm,
         "PreflightReady")

\* Fault: the failsafe is tripped on the handle's shadow only.
FailsafeShadowOnly ==
    Call(CanTripFailsafe, Op("unstage") \o Shadow("TriggerFailsafe"), "Failsafe")

failsafe_now ==
    Call(CanTripFailsafe,
         Plant("TriggerFailsafe") \o Op("unstage") \o Shadow("TriggerFailsafe"), "Failsafe")
recover_now ==
    Call({"Recovery"}, Plant("Recover") \o Op("unstage") \o Shadow("Recover"),
         "PreflightReady")

\* The shadow's motors decide whether they are enabled first.
set_motor_thrust_now(v) ==
    Call(MotorsEnabled,
         require_live_permit
         \o (IF v.shadow.actuators_enabled THEN <<>>
             ELSE Shadow("EnableActuators") \o Gated("EnableActuators"))
         \o Shadow("HeartbeatFresh") \o Shadow("MissionCommand") \o accept_mission,
         "same")

tick(outcome) == Call(OffboardControl, tick_body(outcome), "same")
flush         == Call(Bound, Op("flush"), "same")

\* The typestate a call that succeeded leaves the handle in.
Into(into, v) ==
    CASE into = "same" -> v.kind
      [] into = "shadow" -> aerial_kind(v.shadow)
      [] OTHER -> into

-----------------------------------------------------------------------------
(* The calls threads make, by name, for a handle in state v. *)

CallName == {"attach", "new", "connect", "arm", "enter_offboard", "acquire", "renew",
             "start_takeoff", "declare_airborne", "command", "begin_land", "touchdown",
             "disarm", "failsafe_disarm", "failsafe", "recover", "thrust", "tick"}

Named(name, v) ==
    CASE name = "attach"          -> attach
      [] name = "new"             -> new
      [] name = "connect"         -> connect
      [] name = "arm"             -> arm_now
      [] name = "enter_offboard"  -> enter_offboard_now
      [] name = "acquire"         -> acquire_offboard_control_now
      [] name = "renew"           -> renew_offboard_control_now
      [] name = "start_takeoff"   -> start_takeoff_now
      [] name = "declare_airborne" -> declare_airborne_now
      [] name = "command"         -> offboard_command
      [] name = "begin_land"      -> begin_land_now
      [] name = "touchdown"       -> touchdown_now
      [] name = "disarm"          -> disarm_now
      [] name = "failsafe_disarm" -> failsafe_disarm_now
      [] name = "failsafe"        -> failsafe_now
      [] name = "recover"         -> recover_now
      [] name = "thrust"          -> set_motor_thrust_now(v)
      [] name = "tick"            -> tick("granted")
=============================================================================
