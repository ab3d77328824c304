---------------------------- MODULE AerialSession ----------------------------
(***************************************************************************)
(* Several Vehicle<S, WorldBackend> handles on one aerial body of a        *)
(* WorldSession, called from one thread: each call runs to its end, by     *)
(* success or at its first error, before the next.  Other actors of the    *)
(* session inject revoke events, feed the navigation filter and step the   *)
(* world.  AerialThreads takes the calls apart.                            *)
(***************************************************************************)
EXTENDS AerialCalls

CONSTANT
    Revokes_on   \* the events other actors of the session inject

ASSUME RevokesAssumption == \A e \in Revokes_on : event_revokes_authority(e)

VARIABLES
    body,   \* the shared plant body
    veh     \* handle -> Vehicle

vars == <<body, veh>>

World == [body |-> body, veh |-> veh, ok |-> TRUE]

Init == body = aerial_ready /\ veh = [h \in Handle |-> Fresh]

\* The next step of a call, unless it has failed.
Proceed(h, w, st) == IF w.ok THEN Run(w, h, st) ELSE w

\* The world after the first i steps of a call.
Result(h, c) ==
    LET after[i \in 0..Len(c.does)] ==
            IF i = 0 THEN World ELSE Proceed(h, after[i - 1], c.does[i])
    IN  after[Len(c.does)]

Perform(h, c) ==
    /\ veh[h].kind \in c.from
    /\ LET r == Result(h, c) IN
         /\ body' = r.body
         /\ veh' = IF r.ok THEN [r.veh EXCEPT ![h].kind = Into(c.into, r.veh[h])]
                           ELSE r.veh

-----------------------------------------------------------------------------
(* The calls of a handle. *)

Attach(h)   == Perform(h, attach)
Reattach(h) == Perform(h, reattach)
New(h)      == Perform(h, new)
Connect(h)  == Perform(h, connect)
VerifyPreflight(h) == \E phase \in {"ready", "preflight"} : Perform(h, verify_preflight(phase))
Arm(h)           == Perform(h, arm_now)
EnterOffboardNow(h) == Perform(h, enter_offboard_now)
AcquireOffboard(h)  == Perform(h, acquire_offboard_control_now)
RenewOffboard(h)    == Perform(h, renew_offboard_control_now)
StartTakeoffNow(h)  == Perform(h, start_takeoff_now)
TakeoffAll(h)  == \E o \in StepOutcome : Perform(h, takeoff(o)) \/ Perform(h, armed_takeoff(o))
DeclareAirborne(h) == Perform(h, declare_airborne_now)
SetVelocity(h)  == Perform(h, offboard_command)
SetThrust(h)    == Perform(h, set_motor_thrust_now(veh[h]))
BeginLand(h)    == Perform(h, begin_land_now)
LandAll(h)      == \E o \in StepOutcome : Perform(h, land(o))
TouchdownNow(h) == Perform(h, touchdown_now)
DisarmNow(h)    == Perform(h, disarm_now) \/ Perform(h, failsafe_disarm_now)
FailsafeNow(h)  == Perform(h, failsafe_now)
RecoverNow(h)   == Perform(h, recover_now)
Tick(h)         == \E o \in StepOutcome : Perform(h, tick(o))
Flush(h)        == Perform(h, flush)

(* The other actors. *)

\* inject_revoke, and update_nav posting EstimatorInvalid.
inject_revoke(e) ==
    /\ Admits(body.safety, e)
    /\ LET r == aerial_event(World, e) IN body' = r.body /\ veh' = r.veh

\* WorldSession::step.
step(outcome) ==
    /\ outcome # "refused"
    /\ \E h \in Handle :
         LET r == Run(World, h, [op |-> outcome, e |-> "none"])
         IN  body' = r.body /\ veh' = r.veh

Next ==
    \/ \E h \in Handle :
         \/ Attach(h) \/ Reattach(h) \/ New(h) \/ Connect(h) \/ VerifyPreflight(h)
         \/ Arm(h) \/ EnterOffboardNow(h) \/ AcquireOffboard(h) \/ RenewOffboard(h)
         \/ StartTakeoffNow(h) \/ TakeoffAll(h) \/ DeclareAirborne(h)
         \/ SetVelocity(h) \/ SetThrust(h)
         \/ BeginLand(h) \/ LandAll(h) \/ TouchdownNow(h)
         \/ DisarmNow(h) \/ FailsafeNow(h) \/ RecoverNow(h)
         \/ Tick(h) \/ Flush(h)
    \/ \E e \in Revokes_on : inject_revoke(e)
    \/ \E o \in StepOutcome : step(o)

Spec == Init /\ [][Next]_vars

-----------------------------------------------------------------------------
TypeOK == body \in Body /\ veh \in [Handle -> Vehicle]

\* The epoch has not stopped counting: backend.rs calls every outstanding
\* permit stale after a revocation, which is so until u32::MAX of them.
Unsaturated == body.epoch < EpochMax

PermitCurrent(h) == veh[h].permit.held /\ veh[h].permit.epoch = body.epoch

\* No permit outlives the authority it was issued under: once the vehicle has
\* failed safe, was disarmed other than by touchdown, or a companion has
\* reconnected, no check against the epoch admits it again, however often the
\* vehicle is re-armed and other permits are issued, by whole calls or by
\* threads in between the steps of each other's.
LostPermitsStale ==
    Unsaturated => \A h \in Handle : veh[h].permit.standing = "lost" => ~PermitCurrent(h)

\* What makes it inductive: permits never run ahead of the plant's epoch, and
\* those of lost authority are strictly behind it.
EpochOrder ==
    \A h \in Handle :
      veh[h].permit.held =>
        /\ veh[h].permit.epoch <= body.epoch
        /\ Unsaturated /\ veh[h].permit.standing = "lost"
             => veh[h].permit.epoch < body.epoch

\* A permit the epoch admits, and that no touchdown came after, is held over
\* a plant that is armed and not in failsafe.
CurrentMeansLive ==
    Unsaturated =>
      \A h \in Handle :
        PermitCurrent(h) /\ veh[h].permit.standing = "now"
          => body.safety.armed /\ ~body.safety.failsafe

\* A handle typed for actuation whose permit is current has a shadow that is
\* armed and not in failsafe: the typestate, the shadow kernel and the plant
\* never disagree about authority that could still be used.
TypedAuthority ==
    Unsaturated =>
      \A h \in Handle :
        PermitCurrent(h) /\ veh[h].permit.standing = "now"
          => /\ grants_actuation(veh[h].kind)
             /\ veh[h].shadow.armed /\ ~veh[h].shadow.failsafe

\* What a handle can still show require_permit.
PermitLive(h) == PermitCurrent(h) /\ veh[h].permit.left # 0

\* No call stages a setpoint under authority that is lost, even after another
\* handle has re-armed the vehicle and the kernel would take the command.
SetpointsPermitted ==
    [][Unsaturated' =>
         \A h \in Handle : veh'[h].setpoint = "lost" => veh[h].setpoint # "none"]_vars

\* A handle typed for actuation whose permit is dead, by its epoch or by its
\* lease, never moves to another such typestate by a call that changes the
\* body; it may land, disarm, fail safe or bind anew.
LeftoversCannotAdvance ==
    [][\A h \in Handle :
         /\ veh[h].kind \in MotorsEnabled /\ ~PermitLive(h)
         /\ veh'[h].kind \in MotorsEnabled \ {veh[h].kind}
         => body' = body]_vars
=============================================================================
