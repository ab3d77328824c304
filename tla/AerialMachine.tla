---------------------------- MODULE AerialMachine ----------------------------
(***************************************************************************)
(* One aerial safety kernel fed any event at any time: the plant, a shadow *)
(* kernel of a handle and the companion all see some subset of these runs. *)
(***************************************************************************)
EXTENDS AerialKernel

VARIABLES
    kernel,   \* the SafetyState
    revoked   \* history: authority was revoked and no Arm was accepted since

machine == <<kernel, revoked>>

MachineInit == kernel = Disconnected /\ revoked = FALSE

\* The revoke events that must end live authority.  Losing the heartbeat
\* outside offboard revokes permits but leaves an armed vehicle armed.
EndsAuthority(e) ==
    event_revokes_authority(e) /\ (e = "HeartbeatStale" => kernel.offboard)

\* step returned Ok.
Accept(e) ==
    /\ Admits(kernel, e)
    /\ kernel' = After(kernel, e)
    /\ revoked' = (EndsAuthority(e) \/ (revoked /\ e # "Arm"))

MachineNext == \E e \in Event : Accept(e)

MachineSpec == MachineInit /\ [][MachineNext]_machine

-----------------------------------------------------------------------------
MachineTypeOK == kernel \in SafetyState /\ revoked \in BOOLEAN

\* check_invariants holds of every state step returns; the code asserts it in
\* debug builds only, at the end of step.
KernelInvariants == CheckInvariants(kernel)

\* Only the flight phases, and a failsafe that latched in one of them, are
\* armed: a Ready, Recovery or boot phase never is.  attach relies on it: it
\* wraps a Ready plant as an unpowered handle.
ArmedPhases == kernel.armed => kernel.phase \in InFlight \cup {"Armed", "Failsafe"}

\* Offboard control never outlives its heartbeat, whatever interleaving of
\* heartbeat loss, failsafe and re-entry: the heartbeat test of MissionCommand
\* can therefore not be what stops a command.
OffboardHasHeartbeat == kernel.offboard => kernel.offboard_heartbeat_fresh

\* A handle that attaches is given a permit exactly when the plant is armed
\* and not in failsafe: the typestate read from the plant and the plant agree.
PermitsMatchPlant == grants_actuation(aerial_kind(kernel)) <=> kernel.armed /\ ~kernel.failsafe

\* Once authority has been revoked the vehicle is disarmed or latched until a
\* new Arm: no sequence of recoveries, heartbeats or sensor returns brings a
\* live vehicle back.
NoLiveAfterRevoke == revoked => ~kernel.armed \/ kernel.failsafe

\* What the proofs carry from step to step: check_invariants is inductive by
\* itself, but does not imply PermitsMatchPlant, which needs ArmedPhases.
KernelInductive ==
    /\ MachineTypeOK
    /\ KernelInvariants
    /\ ArmedPhases
    /\ OffboardHasHeartbeat
    /\ NoLiveAfterRevoke

\* A failsafe is left only into a disarmed vehicle with its motors off: no
\* event clears the latch of a vehicle that can still spin them.
LatchClearsDisarmed ==
    [][kernel.failsafe /\ ~kernel'.failsafe =>
          ~kernel'.armed /\ ~kernel'.actuators_enabled /\ ~kernel'.offboard]_kernel

-----------------------------------------------------------------------------
\* The abstract view: see AerialAuthority.
Mode == IF kernel.failsafe THEN "latched" ELSE IF kernel.armed THEN "live" ELSE "idle"

Authority == INSTANCE AerialAuthority
                WITH mode <- Mode, powered <- kernel.actuators_enabled

RefinesAuthority == Authority!Spec
=============================================================================
