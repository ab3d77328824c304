----------------------------- MODULE AerialProofs -----------------------------
(***************************************************************************)
(* The aerial kernel fed any events: KernelInductive is an inductive       *)
(* invariant of AerialMachine, so every safety property of that module     *)
(* follows, and AerialMachine implements AerialAuthority.  Then what the   *)
(* Kani harnesses assert, of every state of the three kernels and for      *)
(* every number, and what a step of the world keeps.                       *)
(*                                                                         *)
(* After that, what AerialSession and AerialThreads promise, proved for    *)
(* any number of handles, any lease, any EpochMax and any repertoire.      *)
(*   - Coherent is what every step of a call keeps: kernels sound, permits *)
(*     never ahead of the epoch.                                           *)
(*   - Agrees adds what holds between calls: a permit the epoch still      *)
(*     admits belongs to a handle typed for actuation, over a shadow and a *)
(*     plant that are armed and clear.                                     *)
(*   - A call is a script of steps.  Leads relates the worlds before and   *)
(*     after one; SetInduction, from the well-foundedness of < on Nat,     *)
(*     carries an invariant of the steps over scripts of any length.       *)
(*   - Faithful, of every call by FaithfulCalls, is what a whole call      *)
(*     keeps; the threads need only what each step keeps, and that a call  *)
(*     shows its permit first or uses none (NamedHarmless).                *)
(***************************************************************************)
EXTENDS AerialThreads, MCAerialMachine, WorldStep,
        NaturalsInduction, WellFoundedInduction, TLAPS

-----------------------------------------------------------------------------
(* What step does to any state.                                            *)
\* The part of the invariant that speaks of one state and no history.
Sound(st) ==
    /\ st \in SafetyState
    /\ CheckInvariants(st)
    /\ st.armed => st.phase \in InFlight \cup {"Armed", "Failsafe"}
    /\ st.offboard => st.offboard_heartbeat_fresh

\* An Ok result of step satisfies check_invariants, whatever else is true of
\* the state; and one that is armed in a flight phase or a failsafe only, and
\* in offboard only with a fresh heartbeat, stays so.
LEMMA AfterLegal ==
    ASSUME NEW st \in SafetyState, CheckInvariants(st), NEW e \in Event, Admits(st, e)
    PROVE  /\ After(st, e) \in SafetyState
           /\ CheckInvariants(After(st, e))
           /\ Sound(st) => Sound(After(st, e))
  <1> USE DEF Sound, CheckInvariants, SafetyState, Phase, InFlight, Admits
  <1>1. CASE e = "Connect"
    <2>1. After(st, e) = [st EXCEPT !.phase = "Connected"]
      BY <1>1 DEF After
    <2> QED
      BY <1>1, <2>1 DEF LegalIn
  <1>2. CASE e = "Disconnect"
    <2>1. After(st, e) = [Grounded(st, "Disconnected") EXCEPT !.failsafe = FALSE]
      BY <1>2 DEF After
    <2> QED
      BY ZenonT(60), <1>2, <2>1 DEF Grounded
  <1>3. CASE e = "InitComplete"
    <2>1. After(st, e) = [st EXCEPT !.phase = "Initializing"]
      BY <1>3 DEF After
    <2> QED
      BY <1>3, <2>1 DEF LegalIn
  <1>4. CASE e = "Initialized"
    <2>1. After(st, e) = [st EXCEPT !.phase = "Preflight"]
      BY <1>4 DEF After
    <2> QED
      BY <1>4, <2>1 DEF LegalIn
  <1>5. CASE e = "PreflightPassed"
    <2>1. After(st, e) = [st EXCEPT !.phase = "Ready"]
      BY <1>5 DEF After
    <2> QED
      BY <1>5, <2>1 DEF LegalIn
  <1>6. CASE e = "PreflightFailed"
    <2>1. After(st, e) = st
      BY <1>6 DEF After
    <2> QED
      BY <1>6, <2>1
  <1>7. CASE e = "ImuHealthy"
    <2>1. After(st, e) = [st EXCEPT !.imu_healthy = TRUE]
      BY <1>7 DEF After
    <2> QED
      BY <1>7, <2>1
  <1>8. CASE e = "ImuUnhealthy"
    <2>1. After(st, e) = [FailsafeIf(st.armed, st) EXCEPT !.imu_healthy = FALSE]
      BY <1>8 DEF After
    <2> QED
      BY ZenonT(60), <1>8, <2>1 DEF FailsafeIf, EnterFailsafe
  <1>9. CASE e = "EstimatorValid"
    <2>1. After(st, e) = [st EXCEPT !.estimator_valid = TRUE]
      BY <1>9 DEF After
    <2> QED
      BY <1>9, <2>1
  <1>10. CASE e = "EstimatorInvalid"
    <2>1. After(st, e) = [FailsafeIf(st.armed, st) EXCEPT !.estimator_valid = FALSE]
      BY <1>10 DEF After
    <2> QED
      BY ZenonT(60), <1>10, <2>1 DEF FailsafeIf, EnterFailsafe
  <1>11. CASE e = "Arm"
    <2>1. After(st, e) = [st EXCEPT !.armed = TRUE, !.phase = "Armed"]
      BY <1>11 DEF After
    <2> QED
      BY <1>11, <2>1 DEF LegalIn, NeedsSensors
  <1>12. CASE e = "Disarm"
    <2>1. After(st, e) = Grounded(st, IF st.failsafe THEN "Recovery" ELSE "Ready")
      BY <1>12 DEF After
    <2> QED
      BY ZenonT(60), <1>12, <2>1 DEF Grounded, LegalIn
  <1>13. CASE e = "EnterOffboard"
    <2>1. After(st, e) = [st EXCEPT !.offboard = TRUE]
      BY <1>13 DEF After
    <2> QED
      BY <1>13, <2>1 DEF LegalIn
  <1>14. CASE e = "HeartbeatFresh"
    <2>1. After(st, e) = [st EXCEPT !.offboard_heartbeat_fresh = TRUE]
      BY <1>14 DEF After
    <2> QED
      BY <1>14, <2>1
  <1>15. CASE e = "HeartbeatStale"
    <2>1. After(st, e) = FailsafeIf(st.offboard, [st EXCEPT !.offboard_heartbeat_fresh = FALSE])
      BY <1>15 DEF After
    <2> QED
      BY ZenonT(60), <1>15, <2>1 DEF FailsafeIf, EnterFailsafe
  <1>16. CASE e = "EnableActuators"
    <2>1. After(st, e) = [st EXCEPT !.actuators_enabled = TRUE]
      BY <1>16 DEF After
    <2> QED
      BY <1>16, <2>1 DEF NeedsArmed
  <1>17. CASE e = "DisableActuators"
    <2>1. After(st, e) = [st EXCEPT !.actuators_enabled = FALSE]
      BY <1>17 DEF After
    <2> QED
      BY <1>17, <2>1 DEF LegalIn
  <1>18. CASE e = "Takeoff"
    <2>1. After(st, e) = [st EXCEPT !.actuators_enabled = TRUE, !.phase = "Takeoff"]
      BY <1>18 DEF After
    <2> QED
      BY <1>18, <2>1 DEF LegalIn
  <1>19. CASE e = "ReachedAltitude"
    <2>1. After(st, e) = [st EXCEPT !.phase = "Airborne"]
      BY <1>19 DEF After
    <2> QED
      BY <1>19, <2>1 DEF LegalIn
  <1>20. CASE e = "Land"
    <2>1. After(st, e) = [st EXCEPT !.phase = "Landing"]
      BY <1>20 DEF After
    <2> QED
      BY <1>20, <2>1 DEF LegalIn
  <1>21. CASE e = "Touchdown"
    <2>1. After(st, e) = [Grounded(st, "Ready") EXCEPT !.failsafe = FALSE]
      BY <1>21 DEF After
    <2> QED
      BY <1>21, <2>1 DEF Grounded
  <1>22. CASE e = "MissionCommand"
    <2>1. After(st, e) = st
      BY <1>22 DEF After
    <2> QED
      BY <1>22, <2>1
  <1>23. CASE e = "TriggerFailsafe"
    <2>1. After(st, e) = EnterFailsafe(st)
      BY <1>23 DEF After
    <2> QED
      BY <1>23, <2>1 DEF EnterFailsafe
  <1>24. CASE e = "Recover"
    <2>1. After(st, e) = [st EXCEPT !.failsafe = FALSE, !.phase = "Ready"]
      BY <1>24 DEF After
    <2> QED
      BY <1>24, <2>1 DEF LegalIn
  <1> QED
    BY <1>1, <1>2, <1>3, <1>4, <1>5, <1>6, <1>7, <1>8, <1>9, <1>10, <1>11, <1>12,
       <1>13, <1>14, <1>15, <1>16, <1>17, <1>18, <1>19, <1>20, <1>21, <1>22, <1>23, <1>24 DEF Event

LEMMA AfterSound ==
    ASSUME NEW st, Sound(st), NEW e \in Event, Admits(st, e)
    PROVE  Sound(After(st, e))
  BY AfterLegal DEF Sound

\* What step does to the three fields authority is made of.
LEMMA AfterAuthority ==
    ASSUME NEW st \in SafetyState, NEW e \in Event
    PROVE  /\ After(st, e).armed <=>
                  e = "Arm" \/ (st.armed /\ e \notin {"Disconnect", "Disarm", "Touchdown"})
           /\ After(st, e).failsafe <=>
                  \/ e = "TriggerFailsafe"
                  \/ e \in {"ImuUnhealthy", "EstimatorInvalid"} /\ st.armed
                  \/ e = "HeartbeatStale" /\ st.offboard
                  \/ st.failsafe /\ e \notin {"Disconnect", "Touchdown", "Recover"}
           /\ After(st, e).actuators_enabled <=>
                  \/ e \in {"EnableActuators", "Takeoff"}
                  \/ /\ st.actuators_enabled
                     /\ e \notin {"Disconnect", "Disarm", "Touchdown", "DisableActuators"}
           /\ After(st, e).offboard =>
                  /\ e = "EnterOffboard" \/ st.offboard
                  /\ e \notin {"Disconnect", "Disarm", "Touchdown"}
  <1> USE DEF SafetyState
  <1>1. CASE e = "Connect"
    <2>1. After(st, e) = [st EXCEPT !.phase = "Connected"]
      BY <1>1 DEF After
    <2> QED
      BY <1>1, <2>1
  <1>2. CASE e = "Disconnect"
    <2>1. After(st, e) = [Grounded(st, "Disconnected") EXCEPT !.failsafe = FALSE]
      BY <1>2 DEF After
    <2> QED
      BY <1>2, <2>1 DEF Grounded
  <1>3. CASE e = "InitComplete"
    <2>1. After(st, e) = [st EXCEPT !.phase = "Initializing"]
      BY <1>3 DEF After
    <2> QED
      BY <1>3, <2>1
  <1>4. CASE e = "Initialized"
    <2>1. After(st, e) = [st EXCEPT !.phase = "Preflight"]
      BY <1>4 DEF After
    <2> QED
      BY <1>4, <2>1
  <1>5. CASE e = "PreflightPassed"
    <2>1. After(st, e) = [st EXCEPT !.phase = "Ready"]
      BY <1>5 DEF After
    <2> QED
      BY <1>5, <2>1
  <1>6. CASE e = "PreflightFailed"
    <2>1. After(st, e) = st
      BY <1>6 DEF After
    <2> QED
      BY <1>6, <2>1
  <1>7. CASE e = "ImuHealthy"
    <2>1. After(st, e) = [st EXCEPT !.imu_healthy = TRUE]
      BY <1>7 DEF After
    <2> QED
      BY <1>7, <2>1
  <1>8. CASE e = "ImuUnhealthy"
    <2>1. After(st, e) = [FailsafeIf(st.armed, st) EXCEPT !.imu_healthy = FALSE]
      BY <1>8 DEF After
    <2> QED
      BY <1>8, <2>1 DEF FailsafeIf, EnterFailsafe
  <1>9. CASE e = "EstimatorValid"
    <2>1. After(st, e) = [st EXCEPT !.estimator_valid = TRUE]
      BY <1>9 DEF After
    <2> QED
      BY <1>9, <2>1
  <1>10. CASE e = "EstimatorInvalid"
    <2>1. After(st, e) = [FailsafeIf(st.armed, st) EXCEPT !.estimator_valid = FALSE]
      BY <1>10 DEF After
    <2> QED
      BY <1>10, <2>1 DEF FailsafeIf, EnterFailsafe
  <1>11. CASE e = "Arm"
    <2>1. After(st, e) = [st EXCEPT !.armed = TRUE, !.phase = "Armed"]
      BY <1>11 DEF After
    <2> QED
      BY <1>11, <2>1
  <1>12. CASE e = "Disarm"
    <2>1. After(st, e) = Grounded(st, IF st.failsafe THEN "Recovery" ELSE "Ready")
      BY <1>12 DEF After
    <2> QED
      BY <1>12, <2>1 DEF Grounded
  <1>13. CASE e = "EnterOffboard"
    <2>1. After(st, e) = [st EXCEPT !.offboard = TRUE]
      BY <1>13 DEF After
    <2> QED
      BY <1>13, <2>1
  <1>14. CASE e = "HeartbeatFresh"
    <2>1. After(st, e) = [st EXCEPT !.offboard_heartbeat_fresh = TRUE]
      BY <1>14 DEF After
    <2> QED
      BY <1>14, <2>1
  <1>15. CASE e = "HeartbeatStale"
    <2>1. After(st, e) = FailsafeIf(st.offboard, [st EXCEPT !.offboard_heartbeat_fresh = FALSE])
      BY <1>15 DEF After
    <2> QED
      BY <1>15, <2>1 DEF FailsafeIf, EnterFailsafe
  <1>16. CASE e = "EnableActuators"
    <2>1. After(st, e) = [st EXCEPT !.actuators_enabled = TRUE]
      BY <1>16 DEF After
    <2> QED
      BY <1>16, <2>1
  <1>17. CASE e = "DisableActuators"
    <2>1. After(st, e) = [st EXCEPT !.actuators_enabled = FALSE]
      BY <1>17 DEF After
    <2> QED
      BY <1>17, <2>1
  <1>18. CASE e = "Takeoff"
    <2>1. After(st, e) = [st EXCEPT !.actuators_enabled = TRUE, !.phase = "Takeoff"]
      BY <1>18 DEF After
    <2> QED
      BY <1>18, <2>1
  <1>19. CASE e = "ReachedAltitude"
    <2>1. After(st, e) = [st EXCEPT !.phase = "Airborne"]
      BY <1>19 DEF After
    <2> QED
      BY <1>19, <2>1
  <1>20. CASE e = "Land"
    <2>1. After(st, e) = [st EXCEPT !.phase = "Landing"]
      BY <1>20 DEF After
    <2> QED
      BY <1>20, <2>1
  <1>21. CASE e = "Touchdown"
    <2>1. After(st, e) = [Grounded(st, "Ready") EXCEPT !.failsafe = FALSE]
      BY <1>21 DEF After
    <2> QED
      BY <1>21, <2>1 DEF Grounded
  <1>22. CASE e = "MissionCommand"
    <2>1. After(st, e) = st
      BY <1>22 DEF After
    <2> QED
      BY <1>22, <2>1
  <1>23. CASE e = "TriggerFailsafe"
    <2>1. After(st, e) = EnterFailsafe(st)
      BY <1>23 DEF After
    <2> QED
      BY <1>23, <2>1 DEF EnterFailsafe
  <1>24. CASE e = "Recover"
    <2>1. After(st, e) = [st EXCEPT !.failsafe = FALSE, !.phase = "Ready"]
      BY <1>24 DEF After
    <2> QED
      BY <1>24, <2>1
  <1> QED
    BY <1>1, <1>2, <1>3, <1>4, <1>5, <1>6, <1>7, <1>8, <1>9, <1>10, <1>11, <1>12,
       <1>13, <1>14, <1>15, <1>16, <1>17, <1>18, <1>19, <1>20, <1>21, <1>22, <1>23, <1>24 DEF Event

-----------------------------------------------------------------------------
(* The kernel fed any events.                                              *)

LEMMA InitInductive == MachineInit => KernelInductive
  <1> SUFFICES ASSUME MachineInit PROVE KernelInductive
    OBVIOUS
  <1>1. Sound(kernel)
    BY DEF MachineInit, Disconnected, Sound, CheckInvariants, SafetyState, Phase, InFlight
  <1>2. revoked = FALSE
    BY DEF MachineInit
  <1> QED
    BY <1>1, <1>2 DEF Sound, KernelInductive, MachineTypeOK, KernelInvariants, ArmedPhases,
                      OffboardHasHeartbeat, NoLiveAfterRevoke

\* A revoke event disarms or latches, and only Arm, which a latch refuses,
\* makes a vehicle live again.
LEMMA RevokedStaysDown ==
    ASSUME Sound(kernel), NoLiveAfterRevoke, NEW e \in Event, Accept(e)
    PROVE  NoLiveAfterRevoke'
  <1> SUFFICES ASSUME revoked', kernel'.armed, ~kernel'.failsafe
               PROVE  FALSE
    BY DEF NoLiveAfterRevoke
  <1>1. /\ kernel.armed => e \notin {"Disconnect", "Disarm", "Touchdown"}
        /\ kernel.armed => e \notin {"ImuUnhealthy", "EstimatorInvalid"}
        /\ e # "TriggerFailsafe"
        /\ e = "HeartbeatStale" => ~kernel.offboard
        /\ e # "Arm" => kernel.armed /\ e \notin {"Disconnect", "Disarm", "Touchdown"}
        /\ e \notin {"Disconnect", "Touchdown", "Recover"} => ~kernel.failsafe
    BY AfterAuthority DEF Accept, Sound
  <1>2. e # "Recover" \/ ~kernel.armed
    BY DEF Accept, Admits
  <1>3. revoked => ~kernel.armed \/ kernel.failsafe
    BY DEF NoLiveAfterRevoke
  <1>4. EndsAuthority(e) \/ (revoked /\ e # "Arm")
    BY DEF Accept
  <1> QED
    BY <1>1, <1>2, <1>3, <1>4 DEF EndsAuthority, event_revokes_authority

LEMMA NextInductive == KernelInductive /\ [MachineNext]_machine => KernelInductive'
  <1> SUFFICES ASSUME KernelInductive, [MachineNext]_machine
               PROVE  KernelInductive'
    OBVIOUS
  <1>1. Sound(kernel)
    BY DEF KernelInductive, Sound, MachineTypeOK, KernelInvariants, ArmedPhases,
           OffboardHasHeartbeat
  <1>2. ASSUME NEW e \in Event, Accept(e)
        PROVE  KernelInductive'
    <2>1. Sound(kernel')
      BY <1>1, <1>2, AfterSound DEF Accept
    <2>2. NoLiveAfterRevoke'
      BY <1>1, <1>2, RevokedStaysDown DEF KernelInductive
    <2>3. revoked' \in BOOLEAN
      BY <1>2 DEF Accept
    <2> QED
      BY <2>1, <2>2, <2>3 DEF KernelInductive, Sound, MachineTypeOK, KernelInvariants,
                              ArmedPhases, OffboardHasHeartbeat
  <1>3. CASE UNCHANGED machine
    BY <1>3 DEF machine, KernelInductive, MachineTypeOK, KernelInvariants, ArmedPhases,
                OffboardHasHeartbeat, NoLiveAfterRevoke
  <1> QED
    BY <1>2, <1>3 DEF MachineNext

\* The kernel never leaves the states check_invariants describes, strengthened
\* with the phase, heartbeat and revoke facts.
THEOREM AlwaysInductive == MachineSpec => []KernelInductive
  BY InitInductive, NextInductive, PTL DEF MachineSpec

\* Every SafetyState an accepted event produces is a SafetyState.
THEOREM TypeCorrect == MachineSpec => []MachineTypeOK
  <1>1. KernelInductive => MachineTypeOK
    BY DEF KernelInductive
  <1> QED
    BY <1>1, AlwaysInductive, PTL

\* check_invariants holds after every accepted event.
THEOREM KernelSafe == MachineSpec => []KernelInvariants
  <1>1. KernelInductive => KernelInvariants
    BY DEF KernelInductive
  <1> QED
    BY <1>1, AlwaysInductive, PTL

\* No live vehicle after a revoke without a new Arm.
THEOREM RevokeHolds == MachineSpec => []NoLiveAfterRevoke
  <1>1. KernelInductive => NoLiveAfterRevoke
    BY DEF KernelInductive
  <1> QED
    BY <1>1, AlwaysInductive, PTL

\* attach hands out a permit exactly for a live plant.
THEOREM PermitsAgree == MachineSpec => []PermitsMatchPlant
  <1>1. KernelInductive => PermitsMatchPlant
    <2> SUFFICES ASSUME KernelInductive PROVE PermitsMatchPlant
      OBVIOUS
    <2> USE DEF KernelInductive, MachineTypeOK, SafetyState, KernelInvariants, CheckInvariants,
                ArmedPhases, InFlight
    <2>1. CASE kernel.failsafe
      <3>1. aerial_kind(kernel) \in {"Recovery", "Failsafe"}
        BY <2>1 DEF aerial_kind
      <3> QED
        BY <2>1, <3>1 DEF PermitsMatchPlant, grants_actuation
    <2>2. CASE ~kernel.failsafe /\ kernel.phase \in {"Disconnected", "Connected", "Initializing",
                                          "Preflight", "Ready", "Recovery"}
      <3>1. aerial_kind(kernel) \in {"Disconnected", "Disarmed", "PreflightReady", "Recovery"}
        BY <2>2 DEF aerial_kind
      <3> QED
        BY <2>2, <3>1 DEF PermitsMatchPlant, grants_actuation
    <2>3. CASE ~kernel.failsafe /\ kernel.phase \in InFlight \cup {"Armed"}
      <3>1. aerial_kind(kernel) \in InFlight \cup {"Armed", "Offboard"}
        BY <2>3 DEF aerial_kind
      <3> QED
        BY <2>3, <3>1 DEF PermitsMatchPlant, grants_actuation
    <2> QED
      BY <2>1, <2>2, <2>3 DEF Phase
  <1> QED
    BY <1>1, AlwaysInductive, PTL

-----------------------------------------------------------------------------
\* A failsafe is left only into a disarmed vehicle with its motors off.
THEOREM LatchHolds == MachineSpec => LatchClearsDisarmed
  <1>1. KernelInductive /\ [MachineNext]_machine =>
            [kernel.failsafe /\ ~kernel'.failsafe =>
               ~kernel'.armed /\ ~kernel'.actuators_enabled /\ ~kernel'.offboard]_kernel
    <2> SUFFICES ASSUME KernelInductive, NEW e \in Event, Accept(e),
                        kernel.failsafe, ~kernel'.failsafe
                 PROVE  ~kernel'.armed /\ ~kernel'.actuators_enabled /\ ~kernel'.offboard
      BY DEF MachineNext, machine
    <2>1. e \in {"Disconnect", "Touchdown", "Recover"}
      BY AfterAuthority DEF Accept, KernelInductive, MachineTypeOK
    <2>2. e = "Recover" => ~kernel.armed
      BY DEF Accept, Admits
    <2>3. (kernel.actuators_enabled => kernel.armed) /\ (kernel.offboard => kernel.armed)
      BY DEF KernelInductive, KernelInvariants, CheckInvariants
    <2> QED
      BY <2>1, <2>2, <2>3, AfterAuthority DEF Accept, KernelInductive, MachineTypeOK
  <1> QED
    BY <1>1, AlwaysInductive, PTL DEF MachineSpec, LatchClearsDisarmed

\* AerialMachine implements AerialAuthority: authority becomes live only from
\* idle, and the motors are powered up only while it is live.
THEOREM Refinement == MachineSpec => RefinesAuthority
  <1>1. MachineInit => Authority!Init
    BY DEF MachineInit, Disconnected, Mode, Authority!Init
  <1>2. KernelInductive /\ [MachineNext]_machine => [Authority!Next]_<<Mode, kernel.actuators_enabled>>
    <2> SUFFICES ASSUME KernelInductive, NEW e \in Event, Accept(e)
                 PROVE  [Authority!Next]_<<Mode, kernel.actuators_enabled>>
      BY DEF MachineNext, machine, Mode
    <2> USE DEF Authority!Next, Mode
    <2>1. /\ kernel \in SafetyState
          /\ kernel.actuators_enabled => kernel.armed
      BY DEF KernelInductive, MachineTypeOK, KernelInvariants, CheckInvariants
    <2>2. kernel.actuators_enabled \in BOOLEAN /\ kernel'.actuators_enabled \in BOOLEAN
      BY <2>1, AfterSound DEF KernelInductive, MachineTypeOK, KernelInvariants, ArmedPhases,
         OffboardHasHeartbeat, Accept, Sound, SafetyState
    <2>3. CASE e = "Arm"
      <3>1. ~kernel.failsafe /\ ~kernel.armed
        BY <2>3 DEF Accept, Admits, Latched, LegalIn, KernelInductive, ArmedPhases, InFlight
      <3>2. kernel'.armed /\ ~kernel'.failsafe /\ (kernel'.actuators_enabled <=> kernel.actuators_enabled)
        BY <2>1, <2>3, <3>1, AfterAuthority DEF Accept
      <3> QED
        BY <2>2, <3>1, <3>2 DEF Authority!Arm
    <2>4. CASE e \in {"EnableActuators", "Takeoff"}
      <3>1. ~kernel.failsafe /\ kernel.armed
        BY <2>4 DEF Accept, Admits, Latched, NeedsArmed
      <3>2. kernel'.armed /\ ~kernel'.failsafe /\ kernel'.actuators_enabled
        BY <2>1, <2>4, <3>1, AfterAuthority DEF Accept
      <3> QED
        BY <2>2, <3>1, <3>2 DEF Authority!Power
    <2>5. CASE e \in {"Disconnect", "Touchdown", "Recover"}
      <3>1. e = "Recover" => ~kernel.armed
        BY DEF Accept, Admits
      <3>2. ~kernel'.armed /\ ~kernel'.failsafe /\ ~kernel'.actuators_enabled
        BY <2>1, <2>5, <3>1, AfterAuthority DEF Accept
      <3> QED
        BY <2>2, <3>2 DEF Authority!Release
    <2>6. CASE e = "Disarm"
      <3>1. ~kernel'.armed /\ ~kernel'.actuators_enabled /\ (kernel'.failsafe <=> kernel.failsafe)
        BY <2>1, <2>6, AfterAuthority DEF Accept
      <3> QED
        BY <2>2, <3>1 DEF Authority!Release, Authority!Cut
    <2>7. CASE e = "DisableActuators"
      <3>1. (kernel'.armed <=> kernel.armed) /\ ~kernel'.actuators_enabled /\ (kernel'.failsafe <=> kernel.failsafe)
        BY <2>1, <2>7, AfterAuthority DEF Accept
      <3> QED
        BY <2>2, <3>1 DEF Authority!Cut
    <2>8. CASE e \notin {"Arm", "EnableActuators", "Takeoff", "Disconnect", "Touchdown",
                         "Recover", "Disarm", "DisableActuators"}
      <3>1. /\ kernel'.armed <=> kernel.armed
            /\ kernel'.actuators_enabled <=> kernel.actuators_enabled
            /\ kernel'.failsafe \/ (~kernel.failsafe /\ ~kernel'.failsafe)
        BY <2>1, <2>8, AfterAuthority DEF Accept
      <3>2. CASE kernel'.failsafe
        BY <2>2, <3>1, <3>2 DEF Authority!Latch
      <3>3. CASE ~kernel.failsafe /\ ~kernel'.failsafe
        BY <2>2, <3>1, <3>3
      <3> QED
        BY <3>1, <3>2, <3>3
    <2> QED
      BY <2>3, <2>4, <2>5, <2>6, <2>7, <2>8
  <1> QED
    BY <1>1, <1>2, AlwaysInductive, PTL DEF MachineSpec, RefinesAuthority, Authority!Spec

-----------------------------------------------------------------------------
(* The harnesses. *)

LEMMA LegalState ==
    ASSUME NEW s \in Legal
    PROVE  s \in SafetyState /\ CheckInvariants(s)
  BY DEF Legal

\* What the events that the harnesses name leave, and when step admits them.
LEMMA Effects ==
    ASSUME NEW s, NEW e
    PROVE  /\ e = "Land" => After(s, e) = [s EXCEPT !.phase = "Landing"]
           /\ e = "Touchdown" => After(s, e) = [Grounded(s, "Ready") EXCEPT !.failsafe = FALSE]
           /\ e = "Takeoff" =>
                 After(s, e) = [s EXCEPT !.actuators_enabled = TRUE, !.phase = "Takeoff"]
           /\ e = "ReachedAltitude" => After(s, e) = [s EXCEPT !.phase = "Airborne"]
           /\ e = "TriggerFailsafe" => After(s, e) = EnterFailsafe(s)
           /\ e = "Recover" => After(s, e) = [s EXCEPT !.failsafe = FALSE, !.phase = "Ready"]
           /\ e = "EnterOffboard" => After(s, e) = [s EXCEPT !.offboard = TRUE]
           /\ e = "Disarm" => After(s, e) = Grounded(s, IF s.failsafe THEN "Recovery" ELSE "Ready")
           /\ e = "MissionCommand" => After(s, e) = s
  <1>1. e = "Land" => After(s, e) = [s EXCEPT !.phase = "Landing"]
    BY DEF After
  <1>2. e = "Touchdown" => After(s, e) = [Grounded(s, "Ready") EXCEPT !.failsafe = FALSE]
    BY DEF After
  <1>3. e = "Takeoff" =>
            After(s, e) = [s EXCEPT !.actuators_enabled = TRUE, !.phase = "Takeoff"]
    BY DEF After
  <1>4. e = "ReachedAltitude" => After(s, e) = [s EXCEPT !.phase = "Airborne"]
    BY DEF After
  <1>5. e = "TriggerFailsafe" => After(s, e) = EnterFailsafe(s)
    BY DEF After
  <1>6. e = "Recover" => After(s, e) = [s EXCEPT !.failsafe = FALSE, !.phase = "Ready"]
    BY DEF After
  <1>7. e = "EnterOffboard" => After(s, e) = [s EXCEPT !.offboard = TRUE]
    BY DEF After
  <1>8. e = "Disarm" => After(s, e) = Grounded(s, IF s.failsafe THEN "Recovery" ELSE "Ready")
    BY DEF After
  <1>9. e = "MissionCommand" => After(s, e) = s
    BY DEF After
  <1> QED BY <1>1, <1>2, <1>3, <1>4, <1>5, <1>6, <1>7, <1>8, <1>9

LEMMA Guards ==
    ASSUME NEW s \in Legal, NEW e
    PROVE  /\ e = "Land" => (Admits(s, e) <=> ~s.failsafe /\ s.phase \in {"Takeoff", "Airborne"})
           /\ e = "Touchdown" => (Admits(s, e) <=> s.phase \in {"Landing", "Failsafe"})
           /\ e = "Takeoff" => (Admits(s, e) <=> ~s.failsafe /\ s.phase = "Armed" /\ s.armed)
           /\ e = "ReachedAltitude" => (Admits(s, e) <=> s.phase = "Takeoff")
           /\ e = "TriggerFailsafe" => Admits(s, e)
           /\ e = "Recover" => (Admits(s, e) <=> s.phase = "Recovery" /\ ~s.armed)
           /\ e = "EnterOffboard" =>
                 (Admits(s, e) <=> /\ ~s.failsafe /\ s.armed /\ s.offboard_heartbeat_fresh
                                   /\ s.phase \in {"Armed", "Takeoff", "Airborne", "Landing"})
           /\ e = "Disarm" => (Admits(s, e) <=> s.phase # "Disconnected")
           /\ e = "MissionCommand" =>
                 (Admits(s, e) <=> /\ ~s.failsafe /\ s.armed /\ s.actuators_enabled
                                   /\ s.offboard => s.offboard_heartbeat_fresh)
  <1>1. s \in SafetyState /\ CheckInvariants(s)
    BY LegalState
  <1> USE <1>1 DEF Admits, Latched, LegalIn, NeedsSensors, NeedsArmed, CheckInvariants, InFlight,
                   SafetyState, Phase
  <1>2. CASE e = "Land"
    BY <1>2
  <1>3. CASE e = "Touchdown"
    BY <1>3
  <1>4. CASE e = "Takeoff"
    BY <1>4
  <1>5. CASE e = "ReachedAltitude"
    BY <1>5
  <1>6. CASE e = "TriggerFailsafe"
    BY <1>6
  <1>7. CASE e = "Recover"
    BY <1>7
  <1>8. CASE e = "EnterOffboard"
    BY <1>8
  <1>9. CASE e = "Disarm"
    BY <1>9
  <1>10. CASE e = "MissionCommand"
    BY <1>10
  <1> QED BY ONLY <1>2, <1>3, <1>4, <1>5, <1>6, <1>7, <1>8, <1>9, <1>10

\* What the harnesses need of an admitted event that no field shows.
LEMMA StaysLegal ==
    ASSUME NEW s \in Legal, NEW e \in Event, Admits(s, e)
    PROVE  CheckInvariants(After(s, e))
  BY LegalState, AfterLegal

LEMMA ActuatorsRequireArm == actuators_require_arm
  <1> SUFFICES ASSUME NEW s \in Legal, NEW e \in Event, Admits(s, e)
               PROVE  /\ CheckInvariants(After(s, e))
                      /\ After(s, e).actuators_enabled => After(s, e).armed
                      /\ After(s, e).phase \in {"Takeoff", "Airborne"} =>
                            After(s, e).actuators_enabled /\ After(s, e).armed
    BY DEF actuators_require_arm, Inductive
  <1> DEFINE n == After(s, e)
  <1>1. CheckInvariants(n)
    BY StaysLegal
  <1> HIDE DEF n
  <1>2. /\ n.actuators_enabled => n.armed
        /\ n.phase \in {"Takeoff", "Airborne"} => n.actuators_enabled /\ n.armed
    BY <1>1 DEF CheckInvariants, InFlight
  <1> QED BY <1>1, <1>2 DEF n

LEMMA Refusals == failsafe_blocks_mission_commands /\ arm_requires_sensors
  <1>1. failsafe_blocks_mission_commands
    BY DEF failsafe_blocks_mission_commands, Admits, Latched
  <1>2. arm_requires_sensors
    BY LegalState DEF arm_requires_sensors, Admits, NeedsSensors, Grounded, SafetyState
  <1> QED BY <1>1, <1>2

\* Each harness about named events: its guard, then its effect.
LEMMA LandTouchdown == land_only_from_flight_touchdown_returns_ready
  <1> SUFFICES ASSUME NEW s \in Legal, NEW e \in {"Land", "Touchdown"}
               PROVE  /\ e = "Land" =>
                            (Admits(s, e) <=> ~s.failsafe /\ s.phase \in {"Takeoff", "Airborne"})
                      /\ e = "Touchdown" =>
                            (Admits(s, e) <=> s.phase \in {"Landing", "Failsafe"})
                      /\ Admits(s, e) => CheckInvariants(After(s, e))
                      /\ e = "Land" /\ Admits(s, e) =>
                            /\ After(s, e).phase = "Landing"
                            /\ After(s, e).armed /\ After(s, e).actuators_enabled
                      /\ e = "Touchdown" =>
                            /\ After(s, e).phase = "Ready" /\ ~After(s, e).armed
                            /\ ~After(s, e).actuators_enabled
                            /\ ~After(s, e).offboard /\ ~After(s, e).failsafe
    BY DEF land_only_from_flight_touchdown_returns_ready
  <1>1. s \in SafetyState /\ CheckInvariants(s) /\ e \in Event
    BY LegalState DEF Event
  <1>2. Admits(s, e) => CheckInvariants(After(s, e))
    BY <1>1, StaysLegal
  <1>3. CASE e = "Land"
    <2>1. Admits(s, e) <=> ~s.failsafe /\ s.phase \in {"Takeoff", "Airborne"}
      BY <1>3, Guards
    <2>2. After(s, e) = [s EXCEPT !.phase = "Landing"]
      BY <1>3, Effects
    <2>3. s.phase \in {"Takeoff", "Airborne"} => s.armed /\ s.actuators_enabled
      BY <1>1 DEF CheckInvariants, InFlight
    <2> QED BY <1>1, <1>2, <1>3, <2>1, <2>2, <2>3 DEF SafetyState
  <1>4. CASE e = "Touchdown"
    <2>1. Admits(s, e) <=> s.phase \in {"Landing", "Failsafe"}
      BY <1>4, Guards
    <2>2. After(s, e) = [Grounded(s, "Ready") EXCEPT !.failsafe = FALSE]
      BY <1>4, Effects
    <2> QED BY <1>1, <1>2, <1>4, <2>1, <2>2 DEF Grounded, SafetyState
  <1> QED BY <1>3, <1>4

LEMMA TakeoffReachedAltitude == takeoff_only_from_armed_reached_altitude_only_from_takeoff
  <1> SUFFICES ASSUME NEW s \in Legal, NEW e \in {"Takeoff", "ReachedAltitude"}
               PROVE  /\ e = "Takeoff" =>
                            (Admits(s, e) <=> ~s.failsafe /\ s.phase = "Armed" /\ s.armed)
                      /\ e = "ReachedAltitude" => (Admits(s, e) <=> s.phase = "Takeoff")
                      /\ Admits(s, e) => CheckInvariants(After(s, e))
                      /\ e = "Takeoff" /\ Admits(s, e) =>
                            /\ After(s, e).phase = "Takeoff"
                            /\ After(s, e).armed /\ After(s, e).actuators_enabled
                      /\ e = "ReachedAltitude" => After(s, e).phase = "Airborne"
    BY DEF takeoff_only_from_armed_reached_altitude_only_from_takeoff
  <1>1. s \in SafetyState /\ e \in Event
    BY LegalState DEF Event
  <1>2. Admits(s, e) => CheckInvariants(After(s, e))
    BY <1>1, StaysLegal
  <1>3. CASE e = "Takeoff"
    <2>1. Admits(s, e) <=> ~s.failsafe /\ s.phase = "Armed" /\ s.armed
      BY <1>3, Guards
    <2>2. After(s, e) = [s EXCEPT !.actuators_enabled = TRUE, !.phase = "Takeoff"]
      BY <1>3, Effects
    <2> QED BY <1>1, <1>2, <1>3, <2>1, <2>2 DEF SafetyState
  <1>4. CASE e = "ReachedAltitude"
    <2>1. Admits(s, e) <=> s.phase = "Takeoff"
      BY <1>4, Guards
    <2>2. After(s, e) = [s EXCEPT !.phase = "Airborne"]
      BY <1>4, Effects
    <2> QED BY <1>1, <1>2, <1>4, <2>1, <2>2 DEF SafetyState
  <1> QED BY <1>3, <1>4

LEMMA FailsafeRecover ==
    aerial_failsafe_always_returns_failsafe /\ recover_only_from_recovery_returns_ready
  <1> SUFFICES ASSUME NEW s \in Legal, NEW e \in {"TriggerFailsafe", "Recover"}
               PROVE  /\ e = "TriggerFailsafe" => Admits(s, e)
                      /\ e = "Recover" => (Admits(s, e) <=> s.phase = "Recovery" /\ ~s.armed)
                      /\ Admits(s, e) => CheckInvariants(After(s, e))
                      /\ e = "TriggerFailsafe" =>
                            /\ After(s, e).phase = "Failsafe"
                            /\ After(s, e).failsafe /\ ~After(s, e).offboard
                      /\ e = "Recover" => After(s, e).phase = "Ready" /\ ~After(s, e).failsafe
    BY DEF aerial_failsafe_always_returns_failsafe, recover_only_from_recovery_returns_ready
  <1>1. s \in SafetyState /\ e \in Event
    BY LegalState DEF Event
  <1>2. Admits(s, e) => CheckInvariants(After(s, e))
    BY <1>1, StaysLegal
  <1>3. CASE e = "TriggerFailsafe"
    <2>1. Admits(s, e)
      BY <1>3, Guards
    <2>2. After(s, e) = EnterFailsafe(s)
      BY <1>3, Effects
    <2> QED BY <1>1, <1>2, <1>3, <2>1, <2>2 DEF EnterFailsafe, SafetyState
  <1>4. CASE e = "Recover"
    <2>1. Admits(s, e) <=> s.phase = "Recovery" /\ ~s.armed
      BY <1>4, Guards
    <2>2. After(s, e) = [s EXCEPT !.failsafe = FALSE, !.phase = "Ready"]
      BY <1>4, Effects
    <2> QED BY <1>1, <1>2, <1>4, <2>1, <2>2 DEF SafetyState
  <1> QED BY <1>3, <1>4

LEMMA OffboardEntry == enter_offboard_only_from_flight_phases
  <1> SUFFICES ASSUME NEW s \in Legal, NEW e, e = "EnterOffboard"
               PROVE  /\ Admits(s, e) <=>
                            /\ ~s.failsafe /\ s.armed /\ s.offboard_heartbeat_fresh
                            /\ s.phase \in {"Armed", "Takeoff", "Airborne", "Landing"}
                      /\ Admits(s, e) => CheckInvariants(After(s, e))
                      /\ After(s, e).offboard /\ After(s, e).phase = s.phase
    BY DEF enter_offboard_only_from_flight_phases
  <1>1. s \in SafetyState /\ e \in Event
    BY LegalState DEF Event
  <1>2. Admits(s, e) => CheckInvariants(After(s, e))
    BY <1>1, StaysLegal
  <1>3. After(s, e) = [s EXCEPT !.offboard = TRUE]
    BY Effects
  <1>4. After(s, e).offboard /\ After(s, e).phase = s.phase
    BY <1>1, <1>3 DEF SafetyState
  <1> QED BY <1>2, <1>4, Guards

LEMMA Disarms == disarm_unarms_and_returns_ready_or_recovery
  <1> SUFFICES ASSUME NEW s \in Legal, NEW e, e = "Disarm"
               PROVE  /\ Admits(s, e) <=> s.phase # "Disconnected"
                      /\ Admits(s, e) => CheckInvariants(After(s, e))
                      /\ ~After(s, e).armed /\ ~After(s, e).actuators_enabled
                      /\ ~After(s, e).offboard
                      /\ IF s.failsafe THEN After(s, e).phase = "Recovery"
                         ELSE After(s, e).phase = "Ready" /\ ~After(s, e).failsafe
    BY DEF disarm_unarms_and_returns_ready_or_recovery
  <1>1. s \in SafetyState /\ e \in Event
    BY LegalState DEF Event
  <1>2. Admits(s, e) => CheckInvariants(After(s, e))
    BY <1>1, StaysLegal
  <1>3. After(s, e) = Grounded(s, IF s.failsafe THEN "Recovery" ELSE "Ready")
    BY Effects
  <1>4. /\ ~After(s, e).armed /\ ~After(s, e).actuators_enabled /\ ~After(s, e).offboard
        /\ IF s.failsafe THEN After(s, e).phase = "Recovery"
           ELSE After(s, e).phase = "Ready" /\ ~After(s, e).failsafe
    BY <1>1, <1>3 DEF Grounded, SafetyState
  <1> QED BY <1>2, <1>4, Guards

LEMMA Commands == mission_command_requires_armed_actuators
  <1> SUFFICES ASSUME NEW s \in Legal, NEW e, e = "MissionCommand"
               PROVE  /\ Admits(s, e) <=>
                            /\ ~s.failsafe /\ s.armed /\ s.actuators_enabled
                            /\ s.offboard => s.offboard_heartbeat_fresh
                      /\ After(s, e) = s /\ CheckInvariants(s)
    BY DEF mission_command_requires_armed_actuators
  <1> QED BY LegalState, Guards, Effects

LEMMA AerialKinds == attach_kind_maps_the_live_aerial_machine
  <1> SUFFICES ASSUME NEW s \in SafetyState, NEW k, k = aerial_kind(s)
               PROVE  /\ s.phase = "Recovery" => k = "Recovery"
                      /\ s.phase # "Recovery" /\ s.failsafe => k = "Failsafe"
                      /\ ~s.failsafe =>
                            /\ s.phase \in {"Disconnected", "Takeoff", "Airborne", "Landing",
                                            "Failsafe"} => k = s.phase
                            /\ s.phase \in {"Connected", "Initializing", "Preflight"} =>
                                  k = "Disarmed"
                            /\ s.phase = "Ready" => k = "PreflightReady"
                            /\ s.phase = "Armed" =>
                                  k = IF s.offboard THEN "Offboard" ELSE "Armed"
    BY DEF attach_kind_maps_the_live_aerial_machine
  <1> QED BY DEF aerial_kind, SafetyState, Phase

\* Every assertion of the harnesses about the aerial kernel.
THEOREM AerialHarnessesHold == AerialHarnesses
  BY ActuatorsRequireArm, Refusals, LandTouchdown, TakeoffReachedAltitude, FailsafeRecover,
     OffboardEntry, Disarms, Commands, AerialKinds DEF AerialHarnesses

-----------------------------------------------------------------------------

\* Every assertion of the harnesses about the ground kernel.
THEOREM GroundHarnessesHold == GroundHarnesses
  <1> USE DEF Ground!GroundPhase, Ground!ground_invariants, Ground!Admits, Ground!parked,
              Ground!stopped
  <1>0. ASSUME NEW s \in Ground!GroundState
        PROVE  /\ s \in [phase : Ground!GroundPhase, drive_enabled : BOOLEAN, estop : BOOLEAN]
               /\ s.phase = "EStop" => s.estop /\ ~s.drive_enabled
               /\ s.phase = "Moving" => ~s.estop
               /\ s.phase = "Parked" => ~s.estop /\ ~s.drive_enabled
    BY DEF Ground!GroundState
  <1>2. ground_drive_requires_moving
    <2> SUFFICES ASSUME NEW s \in Ground!GroundState, NEW e \in Ground!GroundEvent,
                        Ground!Admits(s, e), NEW n, n = Ground!After(s, e)
                 PROVE  /\ Ground!ground_invariants(n)
                        /\ n.drive_enabled => n.phase = "Moving" /\ ~n.estop
      BY DEF ground_drive_requires_moving
    <2>1. CASE e = "Release"
      BY <1>0, <2>1 DEF Ground!After
    <2>2. CASE e = "Halt"
      BY <1>0, <2>2 DEF Ground!After
    <2>3. CASE e = "EStop"
      BY <1>0, <2>3 DEF Ground!After
    <2>4. CASE e = "ClearEstop"
      BY <1>0, <2>4 DEF Ground!After
    <2>5. CASE e = "DriveCommand"
      BY <1>0, <2>5 DEF Ground!After
    <2> QED BY <2>1, <2>2, <2>3, <2>4, <2>5 DEF Ground!GroundEvent
  <1>3. halt_only_from_moving_returns_parked
    <2> SUFFICES ASSUME NEW s \in Ground!GroundState, NEW e, e = "Halt"
                 PROVE  /\ Ground!Admits(s, e) <=> s.phase = "Moving"
                        /\ Ground!Admits(s, e) => Ground!After(s, e) = Ground!parked
      BY DEF halt_only_from_moving_returns_parked
    <2> QED BY <1>0 DEF Ground!After
  <1>4. estop_always_returns_estopped
    <2> SUFFICES ASSUME NEW s \in Ground!GroundState, NEW e, e = "EStop"
                 PROVE  Ground!Admits(s, e) /\ Ground!After(s, e) = Ground!stopped
      BY DEF estop_always_returns_estopped
    <2> QED BY <1>0 DEF Ground!After
  <1>5. clear_estop_only_from_estop_returns_parked
    <2> SUFFICES ASSUME NEW s \in Ground!GroundState, NEW e, e = "ClearEstop"
                 PROVE  /\ Ground!Admits(s, e) <=> s.phase = "EStop"
                        /\ Ground!Admits(s, e) => Ground!After(s, e) = Ground!parked
      BY DEF clear_estop_only_from_estop_returns_parked
    <2> QED BY <1>0 DEF Ground!After
  <1>6. release_only_from_parked_returns_moving
    <2> SUFFICES ASSUME NEW s \in Ground!GroundState, NEW e, e = "Release",
                        NEW n, n = Ground!After(s, e)
                 PROVE  /\ Ground!Admits(s, e) <=> s.phase = "Parked"
                        /\ Ground!Admits(s, e) =>
                              n.phase = "Moving" /\ n.drive_enabled /\ ~n.estop
      BY DEF release_only_from_parked_returns_moving
    <2> QED BY <1>0 DEF Ground!After
  <1>7. drive_command_only_when_moving_and_enabled
    <2> SUFFICES ASSUME NEW s \in Ground!GroundState, NEW e, e = "DriveCommand",
                        NEW n, n = Ground!After(s, e)
                 PROVE  /\ Ground!Admits(s, e) <=>
                              ~s.estop /\ s.phase = "Moving" /\ s.drive_enabled
                        /\ Ground!Admits(s, e) =>
                              /\ n.phase = s.phase /\ n.drive_enabled
                              /\ Ground!ground_invariants(n)
      BY DEF drive_command_only_when_moving_and_enabled
    <2> QED BY <1>0 DEF Ground!After
  <1>8. attach_kind_maps_the_live_ground_machine
    BY DEF attach_kind_maps_the_live_ground_machine, Ground!ground_kind
  <1> QED BY <1>2, <1>3, <1>4, <1>5, <1>6, <1>7, <1>8 DEF GroundHarnesses

\* Every assertion of the harnesses about the marine kernel.
THEOREM MarineHarnessesHold == MarineHarnesses
  <1> USE DEF Marine!MarinePhase, Marine!marine_invariants, Marine!Admits, Marine!docked,
              Marine!tripped
  <1>0. ASSUME NEW s \in Marine!MarineState
        PROVE  /\ s \in [phase : Marine!MarinePhase, thrust_enabled : BOOLEAN,
                         failsafe : BOOLEAN]
               /\ s.phase = "Failsafe" => s.failsafe /\ ~s.thrust_enabled
               /\ s.phase \in {"Underway", "StationKeep"} => ~s.failsafe
               /\ s.phase = "Docked" => ~s.failsafe /\ ~s.thrust_enabled
    BY DEF Marine!MarineState
  <1>2. marine_thrust_requires_grant
    <2> SUFFICES ASSUME NEW s \in Marine!MarineState, NEW e \in Marine!MarineEvent,
                        Marine!Admits(s, e), NEW n, n = Marine!After(s, e)
                 PROVE  /\ Marine!marine_invariants(n)
                        /\ n.thrust_enabled => n.phase \in {"Underway", "StationKeep"}
      BY DEF marine_thrust_requires_grant
    <2>1. CASE e \in {"Undock", "Station", "Resume"}
      BY <1>0, <2>1 DEF Marine!After
    <2>2. CASE e \in {"Dock", "Recover", "Failsafe"}
      BY <1>0, <2>2 DEF Marine!After
    <2>3. CASE e = "ThrustCommand"
      BY <1>0, <2>3 DEF Marine!After
    <2> QED BY <2>1, <2>2, <2>3 DEF Marine!MarineEvent
  <1>3. /\ dock_always_returns_docked
        /\ failsafe_always_returns_failsafe
        /\ recover_only_from_failsafe_returns_docked
    <2> SUFFICES ASSUME NEW s \in Marine!MarineState, NEW e \in {"Dock", "Failsafe", "Recover"}
                 PROVE  /\ e = "Dock" =>
                              Marine!Admits(s, e) /\ Marine!After(s, e) = Marine!docked
                        /\ e = "Failsafe" =>
                              Marine!Admits(s, e) /\ Marine!After(s, e) = Marine!tripped
                        /\ e = "Recover" =>
                              /\ Marine!Admits(s, e) <=> s.phase = "Failsafe"
                              /\ Marine!Admits(s, e) => Marine!After(s, e) = Marine!docked
      BY DEF dock_always_returns_docked, failsafe_always_returns_failsafe,
             recover_only_from_failsafe_returns_docked
    <2> QED BY <1>0 DEF Marine!After
  <1>4. ASSUME NEW e, NEW from, NEW to,
               <<e, from, to>> \in {<<"Undock", "Docked", "Underway">>,
                                   <<"Station", "Underway", "StationKeep">>,
                                   <<"Resume", "StationKeep", "Underway">>}
        PROVE  Moves(e, from, to)
    <2> SUFFICES ASSUME NEW s \in Marine!MarineState, NEW n, n = Marine!After(s, e)
                 PROVE  /\ Marine!Admits(s, e) <=> ~s.failsafe /\ s.phase = from
                        /\ Marine!Admits(s, e) =>
                              /\ n.phase = to /\ n.thrust_enabled
                              /\ Marine!marine_invariants(n)
      BY DEF Moves
    <2> QED BY <1>0, <1>4 DEF Marine!After
  <1>5. thrust_command_only_when_granted
    <2> SUFFICES ASSUME NEW s \in Marine!MarineState, NEW e, e = "ThrustCommand",
                        NEW n, n = Marine!After(s, e)
                 PROVE  /\ Marine!Admits(s, e) <=> ~s.failsafe /\ s.thrust_enabled
                        /\ Marine!Admits(s, e) =>
                              n.thrust_enabled /\ Marine!marine_invariants(n)
      BY DEF thrust_command_only_when_granted
    <2> QED BY <1>0 DEF Marine!After
  <1>6. attach_kind_maps_the_live_marine_machine
    BY DEF attach_kind_maps_the_live_marine_machine, Marine!marine_kind
  <1> QED BY <1>2, <1>3, <1>4, <1>5, <1>6
          DEF MarineHarnesses, undock_only_from_docked_returns_underway,
              station_only_from_underway_returns_station_keep,
              resume_only_from_station_keep_returns_underway

-----------------------------------------------------------------------------

LEMMA Quotient ==
    ASSUME NEW n \in Int, NEW d \in Int, d > 0
    PROVE  /\ n \div d \in Int
           /\ d * (n \div d) <= n /\ n < d * (n \div d) + d
           /\ n >= 0 => n \div d >= 0
           /\ n <= 0 => n \div d <= 0
  BY Z3

LEMMA Square == ASSUME NEW n \in Int PROVE n * n \in Nat
  BY SMT

LEMMA Scaled == ASSUME NEW k \in Nat, NEW n \in Nat PROVE k * n \in Nat
  BY SMT

\* What two masses carry that move towards or away from each other by p and the
\* rest of n.
LEMMA Momentum ==
    ASSUME NEW l \in Int, NEW m \in Int, NEW n \in Int, NEW p \in Int
    PROVE  /\ l * (-p) + m * (n - p) = n * m - (l + m) * p
           /\ l * p + m * (-(n - p)) = -(n * m - (l + m) * p)
  BY SMT

LEMMA Contacts == contact_never_penetrates
  BY DEF contact_never_penetrates, resolve_vertical_contact, contact_invariants, on_plane,
         Positive, Least

\* What falls to a of a correction is a part of it, by the other's mass.
LEMMA Parts ==
    ASSUME NEW c, c.a.m \in Int, c.b.m \in Int, NEW n \in Nat
    PROVE  /\ Shares(c) \in Nat
           /\ Shares(c) = 0 <=> c.a.m <= 0 /\ c.b.m <= 0
           /\ Shares(c) > 0 =>
                 /\ PartOfA(c, n) \in 0..n
                 /\ c.a.m > 0 /\ c.b.m > 0 =>
                       /\ 0 <= n * c.b.m - (c.a.m + c.b.m) * PartOfA(c, n)
                       /\ n * c.b.m - (c.a.m + c.b.m) * PartOfA(c, n) < c.a.m + c.b.m
  <1> DEFINE x == Share(c.a.m, c.b.m)
             y == Share(c.b.m, c.a.m)
             q == (n * x) \div (x + y)
  <1>1. x \in Nat /\ y \in Nat
    BY DEF Share
  <1>2. x + y = 0 <=> c.a.m <= 0 /\ c.b.m <= 0
    BY DEF Share
  <1>3. c.a.m > 0 /\ c.b.m > 0 => x = c.b.m /\ y = c.a.m
    BY DEF Share
  <1>4. Shares(c) = x + y /\ PartOfA(c, n) = q
    BY DEF Shares, PartOfA
  <1> HIDE DEF x, y
  <1>5. ASSUME x + y > 0
        PROVE  /\ q \in Int /\ q >= 0
               /\ (x + y) * q <= n * x /\ n * x < (x + y) * q + (x + y)
    BY <1>1, <1>5, Quotient, Scaled
  <1> HIDE DEF q
  <1>6. ASSUME x + y > 0 PROVE q <= n
    <2>1. n * x <= n * (x + y)
      BY <1>1, Scaled
    <2>2. SUFFICES ASSUME q >= n + 1 PROVE FALSE
      BY <1>5, <1>6
    <2>3. (x + y) * q >= (x + y) * (n + 1)
      BY <1>1, <1>5, <1>6, <2>2, Scaled
    <2> QED BY <1>1, <1>5, <1>6, <2>1, <2>3
  <1> QED BY <1>1, <1>2, <1>3, <1>4, <1>5, <1>6

\* Bodies that overlap are pushed to a distance of their radii and keep their
\* order on the line, so that the normal is the same.
LEMMA Spheres == spheres_never_interpenetrate
  <1> SUFFICES ASSUME NEW before \in Meeting, NEW after,
                      after = resolve_sphere_contact(before)
               PROVE  sphere_contact_invariants(before, after)
    BY DEF spheres_never_interpenetrate
  <1>1. /\ before \in [a : SphereBody, b : SphereBody, impulse : {0}]
        /\ before.a.m > 0 \/ before.b.m > 0
    BY DEF Meeting
  <1>2. /\ before.a.p \in Int /\ before.a.v \in Int /\ before.a.r \in Int /\ before.a.m \in Int
        /\ before.b.p \in Int /\ before.b.v \in Int /\ before.b.r \in Int /\ before.b.m \in Int
    BY <1>1 DEF SphereBody
  <1>3. Shares(before) > 0
    BY <1>1, <1>2, Parts
  <1>4. CASE gap(before) > 0
    <2>1. after = [before EXCEPT !.impulse = 0]
      BY <1>4 DEF resolve_sphere_contact
    <2>2. after = before
      BY <1>1, <2>1 DEF SphereBody
    <2>3. Carried(before, after) = 0
      BY <1>2, <2>2 DEF Carried
    <2>4. gap(before) \in Int
      BY <1>2 DEF gap, Reach, Positive, Magnitude
    <2>5. after.impulse = 0 /\ Magnitude(0) = 0
      BY <1>1, <2>2 DEF Magnitude
    <2> QED BY <1>2, <1>4, <2>2, <2>3, <2>4, <2>5 DEF sphere_contact_invariants
  <1>5. CASE ~(gap(before) > 0)
    <2> DEFINE n == -gap(before)
               k == Positive(Approach(before))
               p == PartOfA(before, n)
               up == Ahead(before)
    <2>1. n \in Nat /\ n = Positive(before.a.r) + Positive(before.b.r)
                              - Magnitude(before.b.p - before.a.p)
      BY <1>2, <1>5 DEF gap, Reach, Positive, Magnitude
    <2>2. k \in Nat
      BY <1>2 DEF Positive, Approach, Along
    <2>3. p \in 0..n
      BY <1>2, <1>3, <2>1, Parts
    <2>4. before.a.m > 0 /\ before.b.m > 0 =>
            /\ 0 <= n * before.b.m - (before.a.m + before.b.m) * p
            /\ n * before.b.m - (before.a.m + before.b.m) * p < before.a.m + before.b.m
      BY <1>2, <1>3, <2>1, Parts
    <2> HIDE DEF n, k, p
    <2>5. /\ after.a.p = (IF up THEN before.a.p - p ELSE before.a.p + p)
          /\ after.b.p = (IF up THEN before.b.p + (n - p) ELSE before.b.p - (n - p))
          /\ after.a.r = before.a.r /\ after.b.r = before.b.r
          /\ after.impulse = k
      <3> DEFINE c == Pushed(before, n)
      <3>1. /\ c.a.p = (IF up THEN before.a.p - p ELSE before.a.p + p)
            /\ c.b.p = (IF up THEN before.b.p + (n - p) ELSE before.b.p - (n - p))
            /\ c.a.r = before.a.r /\ c.b.r = before.b.r
            /\ c \in [a : SphereBody, b : SphereBody, impulse : {0}]
        <4>1. c = [before EXCEPT !.a.p = @ - Along(before, p), !.b.p = @ + Along(before, n - p)]
          BY DEF Pushed, p
        <4>2. Along(before, p) = (IF up THEN p ELSE -p)
              /\ Along(before, n - p) = (IF up THEN n - p ELSE -(n - p))
          BY DEF Along
        <4> HIDE DEF c
        <4>3. /\ c.a = [before.a EXCEPT !.p = before.a.p - Along(before, p)]
              /\ c.b = [before.b EXCEPT !.p = before.b.p + Along(before, n - p)]
              /\ c.impulse = 0
          BY <1>1, <4>1
        <4>4. c = [a |-> c.a, b |-> c.b, impulse |-> c.impulse]
          BY <1>1, <4>1
        <4>5. before.a \in SphereBody /\ before.b \in SphereBody
          BY <1>1
        <4>6. /\ c.a \in SphereBody /\ c.a.r = before.a.r
              /\ c.a.p = (IF up THEN before.a.p - p ELSE before.a.p + p)
          BY <1>2, <2>1, <2>3, <4>2, <4>3, <4>5 DEF SphereBody
        <4>7. /\ c.b \in SphereBody /\ c.b.r = before.b.r
              /\ c.b.p = (IF up THEN before.b.p + (n - p) ELSE before.b.p - (n - p))
          BY <1>2, <2>1, <2>3, <4>2, <4>3, <4>5 DEF SphereBody
        <4> QED BY <4>3, <4>4, <4>6, <4>7
      <3> HIDE DEF c
      <3>2. after = [c EXCEPT !.a.v = @ - Along(c, PartOfA(c, k)),
                              !.b.v = @ + Along(c, k - PartOfA(c, k)), !.impulse = k]
        BY <1>3, <1>5 DEF resolve_sphere_contact, Kicked, c, n, k
      <3> QED BY <3>1, <3>2 DEF SphereBody
    <2> DEFINE d == before.b.p - before.a.p
               e == after.b.p - after.a.p
    <2>6. gap(after) >= 0
      <3>1. d \in Int /\ (up <=> d >= 0)
        BY <1>2 DEF Ahead
      <3>2. e = (IF up THEN d + n ELSE d - n)
        BY <1>2, <2>1, <2>3, <2>5
      <3>3. n = Reach(before) - Magnitude(d) /\ Reach(after) = Reach(before)
        <4>1. Magnitude(d) \in Int /\ Positive(before.a.r) \in Int /\ Positive(before.b.r) \in Int
          BY <1>2 DEF Magnitude, Positive
        <4> HIDE DEF d
        <4> QED BY <2>1, <2>5, <4>1 DEF Reach, d
      <3>4. Reach(before) \in Int
        BY <1>2 DEF Reach, Positive
      <3> HIDE DEF d, e, up
      <3>5. Magnitude(e) = Reach(after)
        BY <2>1, <3>1, <3>2, <3>3, <3>4 DEF Magnitude
      <3>6. gap(after) = Magnitude(e) - Reach(after)
        BY DEF gap, e
      <3> QED BY <3>3, <3>4, <3>5, <3>6
    <2>7. ASSUME before.a.m > 0, before.b.m > 0
          PROVE  Magnitude(Carried(before, after)) < before.a.m + before.b.m
      <3> DEFINE c == n * before.b.m - (before.a.m + before.b.m) * p
      <3>1. c \in Int /\ 0 <= c /\ c < before.a.m + before.b.m
        BY <1>2, <2>1, <2>3, <2>4, <2>7
      <3>2. CASE up
        <4>1. after.a.p - before.a.p = -p /\ after.b.p - before.b.p = n - p
          BY <1>2, <2>1, <2>3, <2>5, <3>2
        <4>2. Carried(before, after) = before.a.m * (-p) + before.b.m * (n - p)
          BY <4>1 DEF Carried
        <4>3. Carried(before, after) = c
          <5>1. n \in Int /\ p \in Int
            BY <2>1, <2>3
          <5> HIDE DEF p, n
          <5> QED BY <1>2, <4>2, <5>1, Momentum
        <4> HIDE DEF c
        <4> QED BY <3>1, <4>3 DEF Magnitude
      <3>3. CASE ~up
        <4>1. after.a.p - before.a.p = p /\ after.b.p - before.b.p = -(n - p)
          BY <1>2, <2>1, <2>3, <2>5, <3>3
        <4>2. Carried(before, after) = before.a.m * p + before.b.m * (-(n - p))
          BY <4>1 DEF Carried
        <4>3. Carried(before, after) = -c
          <5>1. n \in Int /\ p \in Int
            BY <2>1, <2>3
          <5> HIDE DEF p, n
          <5> QED BY <1>2, <4>2, <5>1, Momentum
        <4> HIDE DEF c
        <4>4. -c \in Int /\ -(-c) = c
          BY <3>1
        <4> QED BY <1>2, <3>1, <4>3, <4>4 DEF Magnitude
      <3> QED BY <3>2, <3>3
    <2> QED BY <1>5, <2>2, <2>5, <2>6, <2>7 DEF sphere_contact_invariants
  <1> QED BY <1>4, <1>5

LEMMA Friction == sphere_friction_stays_in_cone
  <1> SUFFICES ASSUME NEW vt \in Nat, NEW k \in Nat, NEW mu \in Nat, NEW jn \in Nat
               PROVE  friction_invariants(mu, jn, tangent_impulse(vt, k, mu, jn))
    BY DEF sphere_friction_stays_in_cone
  <1> DEFINE q == (mu * jn) \div 100
             r == vt \div k
  <1>1. q \in Nat /\ 100 * q <= mu * jn
    BY Quotient, Scaled
  <1>2. k > 0 => r \in Nat
    BY Quotient
  <1>3. mu * jn \in Nat
    BY Scaled
  <1>4. tangent_impulse(vt, k, mu, jn) =
            (IF jn = 0 \/ mu <= 0 \/ vt = 0 \/ k = 0 THEN 0 ELSE Least(r, q))
    BY DEF tangent_impulse
  <1> HIDE DEF q, r
  <1> QED BY <1>1, <1>2, <1>3, <1>4 DEF friction_invariants, Least, Positive

LEMMA Drag == drag_never_adds_energy
  <1> SUFFICES ASSUME NEW v \in Vector, NEW speed \in Nat, NEW coefficient \in Int
               PROVE  drag_opposes_flow(v, quadratic_drag(v, speed, coefficient))
    BY DEF drag_never_adds_energy
  <1> DEFINE f == quadratic_drag(v, speed, coefficient)
             k == coefficient * speed
  <1>1. v[1] \in Int /\ v[2] \in Int /\ v[3] \in Int
    BY DEF Vector, Axis
  <1>2. CASE coefficient < 0 \/ speed = 0
    <2>1. f[1] = 0 /\ f[2] = 0 /\ f[3] = 0
      BY <1>2 DEF quadratic_drag, Axis
    <2> QED BY <1>1, <2>1 DEF drag_opposes_flow, relative_power, vec_dot
  <1>3. CASE ~(coefficient < 0 \/ speed = 0)
    <2>1. f[1] = -k * v[1] /\ f[2] = -k * v[2] /\ f[3] = -k * v[3]
      BY <1>3 DEF quadratic_drag, Axis
    <2>2. k \in Nat
      BY <1>3, Scaled
    <2> HIDE DEF f, k
    <2>3. ASSUME NEW i \in Axis PROVE v[i] * (-k * v[i]) = -(k * (v[i] * v[i])) /\ k * (v[i] * v[i]) \in Nat
      <3>1. v[i] \in Int
        BY DEF Vector
      <3>2. v[i] * v[i] \in Nat
        BY <3>1, Square
      <3>3. k * (v[i] * v[i]) \in Nat
        BY <2>2, <3>2, Scaled
      <3>4. v[i] * (-k * v[i]) = -(k * (v[i] * v[i]))
        BY <2>2, <3>1
      <3> QED BY <3>3, <3>4
    <2>4. /\ v[1] * f[1] <= 0 /\ v[1] * f[1] \in Int
          /\ v[2] * f[2] <= 0 /\ v[2] * f[2] \in Int
          /\ v[3] * f[3] <= 0 /\ v[3] * f[3] \in Int
      BY <2>1, <2>3 DEF Axis
    <2> QED BY <2>4 DEF drag_opposes_flow, relative_power, vec_dot, f
  <1> QED BY <1>2, <1>3

LEMMA Buoyancy == buoyancy_zero_when_dry
  <1> SUFFICES ASSUME NEW volume \in Int, NEW density \in Int, NEW gravity \in Int
               PROVE  LET f == buoyancy_ned(volume, density, gravity) IN
                      /\ buoyancy_only_when_wet(volume, f)
                      /\ volume > 0 /\ density > 0 /\ gravity > 0 => f < 0
    BY DEF buoyancy_zero_when_dry
  <1>1. CASE volume <= 0 \/ density <= 0 \/ gravity <= 0
    BY <1>1 DEF buoyancy_ned, buoyancy_only_when_wet
  <1>2. CASE volume > 0 /\ density > 0 /\ gravity > 0
    <2>1. volume * density \in Nat /\ volume * density > 0
      BY <1>2, SMT
    <2>2. (volume * density) * gravity > 0
      BY <1>2, <2>1, SMT
    <2> QED BY <1>2, <2>1, <2>2 DEF buoyancy_ned, buoyancy_only_when_wet
  <1> QED BY <1>1, <1>2

LEMMA ThrustGates ==
    /\ thrust_zero_unless_granted
    /\ ground_thrust_zero_off_contact
    /\ marine_thrust_zero_when_dry
    /\ aerial_thrust_zero_when_wet
  BY DEF thrust_zero_unless_granted, ground_thrust_zero_off_contact,
         marine_thrust_zero_when_dry, aerial_thrust_zero_when_wet, Gates,
         thrust_only_when_granted, ground_thrust_only_on_contact,
         marine_thrust_only_when_wet, aerial_thrust_only_in_air

LEMMA Battery == empty_battery_zero_thrust
  <1> SUFFICES ASSUME NEW charge \in Int, NEW magnitude \in Int, NEW dt \in Int,
                      NEW watts \in Int, NEW t \in Vector
               PROVE  /\ battery_gates_thrust(charge, t) <=> charge > 0 \/ t = Zero3
                      /\ drain_from_thrust(charge, magnitude, dt, watts) >= 0
    BY DEF empty_battery_zero_thrust
  <1>1. (magnitude * watts) * dt \in Int
    OBVIOUS
  <1> QED BY <1>1 DEF battery_gates_thrust, drain_from_thrust, Positive

LEMMA Cells == shallow_water_two_cell_conserves_mass
  BY DEF shallow_water_two_cell_conserves_mass, two_cell_periodic_mass, Positive, Magnitude, Least

LEMMA Hold == hold_velocity_restores_pose
  <1> SUFFICES ASSUME NEW hold \in Vector, NEW position \in Vector, NEW kp \in Int,
                      NEW cmd, cmd = hold_velocity_ned(hold, position, kp)
               PROVE  /\ hold_restores_pose(hold, position, cmd)
                      /\ kp = 0 => cmd = Zero3
                      /\ \A i \in Axis : cmd[i] * (hold[i] - position[i]) >= 0
    BY DEF hold_velocity_restores_pose
  <1> DEFINE e == [i \in Axis |-> hold[i] - position[i]]
  <1>1. \A i \in Axis : e[i] \in Int /\ e[i] = hold[i] - position[i]
    BY DEF Vector
  <1>2. \A i \in Axis : cmd[i] = (IF kp < 0 THEN 0 ELSE kp * e[i])
    BY DEF hold_velocity_ned
  <1>3. ASSUME NEW i \in Axis
        PROVE  /\ cmd[i] \in Int
               /\ cmd[i] * e[i] >= 0 /\ e[i] * cmd[i] >= 0 /\ e[i] * cmd[i] \in Int
    <2>1. e[i] \in Int
      BY <1>1
    <2> HIDE DEF e
    <2>2. CASE kp < 0
      BY <1>2, <2>1, <2>2
    <2>3. CASE kp >= 0
      <3>1. e[i] * e[i] \in Nat
        BY <2>1, Square
      <3>2. kp * (e[i] * e[i]) \in Nat
        BY <2>3, <3>1, Scaled
      <3>3. cmd[i] = kp * e[i]
        BY <1>2, <2>3
      <3>4. (kp * e[i]) * e[i] = kp * (e[i] * e[i]) /\ e[i] * (kp * e[i]) = kp * (e[i] * e[i])
        BY <2>1
      <3> QED BY <2>1, <3>2, <3>3, <3>4
    <2> QED BY <2>2, <2>3
  <1>4. hold_restores_pose(hold, position, cmd)
    <2>1. /\ e[1] * cmd[1] \in Int /\ e[1] * cmd[1] >= 0
          /\ e[2] * cmd[2] \in Int /\ e[2] * cmd[2] >= 0
          /\ e[3] * cmd[3] \in Int /\ e[3] * cmd[3] >= 0
      BY <1>3 DEF Axis
    <2>2. vec_dot(e, cmd) >= 0
      <3> HIDE DEF e
      <3> QED BY <2>1 DEF vec_dot
    <2> QED BY <2>2 DEF hold_restores_pose
  <1>5. kp = 0 => cmd = Zero3
    <2> SUFFICES ASSUME kp = 0 PROVE cmd = Zero3
      OBVIOUS
    <2>1. \A i \in Axis : 0 * (hold[i] - position[i]) = 0
      BY <1>1
    <2> QED BY <2>1 DEF hold_velocity_ned, Zero3
  <1>6. \A i \in Axis : cmd[i] * (hold[i] - position[i]) >= 0
    BY <1>1, <1>3
  <1> QED BY <1>4, <1>5, <1>6

\* The three kernels admit and answer every event as the harnesses assert,
\* from every state that their invariants allow; no state that the aerial
\* kernel reaches lies outside of what the harnesses assume.
THEOREM HarnessesHold == MachineSpec => []HarnessesCover
  <1>1. KernelHarnesses
    BY AerialHarnessesHold, GroundHarnessesHold, MarineHarnessesHold DEF KernelHarnesses
  <1>2. KernelInductive => HarnessesCover
    BY <1>1 DEF KernelInductive, KernelInvariants, MachineTypeOK, HarnessesCover, Legal
  <1> QED
    BY <1>2, AlwaysInductive, PTL

\* Every assertion of the harnesses about mechanics, on the whole line instead
\* of the few points that they try; and a deadline miss leaves no setpoint, and
\* a permit of another epoch is stale.
THEOREM MechanicsHarnessesHold ==
    /\ contact_never_penetrates
    /\ spheres_never_interpenetrate
    /\ sphere_friction_stays_in_cone
    /\ drag_never_adds_energy
    /\ buoyancy_zero_when_dry
    /\ thrust_zero_unless_granted /\ ground_thrust_zero_off_contact
    /\ marine_thrust_zero_when_dry /\ aerial_thrust_zero_when_wet
    /\ empty_battery_zero_thrust
    /\ shallow_water_two_cell_conserves_mass
    /\ hold_velocity_restores_pose
    /\ hitl_miss_applies_zero
    /\ permit_epoch_mismatch_is_stale
  <1>1. hitl_miss_applies_zero
    BY DEF hitl_miss_applies_zero, command_after_deadline
  <1>2. permit_epoch_mismatch_is_stale
    BY DEF permit_epoch_mismatch_is_stale, check
  <1> QED BY <1>1, <1>2, Contacts, Spheres, Friction, Drag, Buoyancy, ThrustGates, Battery,
             Cells, Hold

-----------------------------------------------------------------------------
(* The step of the world. *)

WorldConstants == Terrain \in Int /\ Surface \in Int /\ Dt \in 1..999

LEMMA DragTypes ==
    ASSUME WorldConstants, NEW b \in Mass
    PROVE  /\ drag(b) \in Int
           /\ b.v >= 0 => drag(b) <= 0
           /\ b.v <= 0 => drag(b) >= 0
  <1> DEFINE speed == Magnitude(b.v) \div 10000
             k == b.drag * speed
             f == quadratic_drag([i \in Axis |-> IF i = 3 THEN b.v ELSE 0], speed, b.drag)[3]
  <1>1. b.v \in Int /\ b.drag \in Nat
    BY DEF Mass
  <1>2. speed \in Nat
    BY <1>1, Quotient DEF Magnitude
  <1>3. k \in Nat
    BY <1>1, <1>2, Scaled
  <1>4. f = (IF speed = 0 THEN 0 ELSE -k * b.v)
    BY <1>1 DEF quadratic_drag, Axis
  <1>5. drag(b) = f \div 10000
    BY DEF drag
  <1> HIDE DEF speed, k, f
  <1>6. /\ f \in Int
        /\ b.v >= 0 => f <= 0
        /\ b.v <= 0 => f >= 0
    <2>1. CASE b.v >= 0
      <3>1. k * b.v \in Nat
        BY <1>1, <1>3, <2>1, Scaled
      <3>2. -k * b.v = -(k * b.v)
        BY <1>1, <1>3
      <3>3. b.v = 0 => k * b.v = 0
        BY <1>3
      <3> QED BY <1>1, <1>4, <2>1, <3>1, <3>2, <3>3
    <2>2. CASE b.v <= 0
      <3>1. k * (-b.v) \in Nat
        BY <1>1, <1>3, <2>2, Scaled
      <3>2. -k * b.v = k * (-b.v)
        BY <1>1, <1>3
      <3>3. b.v = 0 => k * (-b.v) = 0
        BY <1>3
      <3> QED BY <1>1, <1>4, <2>2, <3>1, <3>2, <3>3
    <2> QED BY <1>1, <2>1, <2>2
  <1> QED BY <1>1, <1>5, <1>6, Quotient

LEMMA CommandedTypes ==
    ASSUME NEW b \in Mass
    PROVE  /\ Commanded(b) \in Mass
           /\ Commanded(b).domain = b.domain /\ Commanded(b).granted = b.granted
           /\ Commanded(b).hold.given => b.hold.given /\ Propelled(b)
  <1>1. /\ b.z \in Int /\ b.hold \in Option /\ b.command \in Option
        /\ b.hold.at \in Int
    BY DEF Mass, Option
  <1>2. (14 * Error(b)) \div 10 \in Int
    BY <1>1, Quotient DEF Error
  <1>3. At((14 * Error(b)) \div 10) \in Option /\ Unset \in Option /\ ~Unset.given
    BY <1>2 DEF At, Unset, Option
  <1>4. CASE Propelled(b)
    BY <1>1, <1>3, <1>4 DEF Commanded, refresh_hold, Mass
  <1>5. CASE ~Propelled(b)
    BY <1>1, <1>3, <1>5 DEF Commanded, clear_command, Mass
  <1> QED BY <1>4, <1>5

LEMMA Clamped ==
    ASSUME NEW n \in Int, NEW limit \in Nat
    PROVE  /\ clamp(n, limit) \in Int
           /\ Magnitude(clamp(n, limit)) <= limit
           /\ -Magnitude(clamp(n, limit)) \in Int /\ -Magnitude(clamp(n, limit)) <= 0
  <1>1. clamp(n, limit) \in Int /\ -limit <= clamp(n, limit) /\ clamp(n, limit) <= limit
    BY DEF clamp
  <1>2. ASSUME NEW m \in Int, -limit <= m, m <= limit
        PROVE  Magnitude(m) <= limit /\ -Magnitude(m) \in Int /\ -Magnitude(m) <= 0
    BY <1>2 DEF Magnitude
  <1> QED BY <1>1, <1>2

LEMMA ThrustTypes ==
    ASSUME NEW b \in Mass
    PROVE  /\ Thrust(b) \in Int
           /\ Thrust(b) # 0 => Propelled(b)
           /\ b.domain = "aerial" => Thrust(b) <= 0
           /\ b.domain = "underwater" => Magnitude(Thrust(b)) <= 80000
  <1> DEFINE sp == Commanded(b).command.at
             up == (32 * (sp - b.v)) \div 10 - GRAVITY
             any == (28 * (sp - b.v)) \div 10
  <1>1. sp \in Int /\ b.v \in Int /\ b.domain \in Domains
    BY CommandedTypes DEF Mass, Option
  <1>2. up \in Int /\ any \in Int
    BY <1>1, Quotient DEF GRAVITY
  <1>3. ASSUME NEW d, d = b.domain
        PROVE  /\ d = "aerial" => Wanted(b, sp) = -Magnitude(clamp(up, 180000))
               /\ d = "underwater" => Wanted(b, sp) = clamp(any, 80000)
               /\ d \in {"ground", "surface"} => Wanted(b, sp) = 0
    BY <1>3 DEF Wanted
  <1>4. Thrust(b) = (IF Propelled(b) THEN Wanted(b, sp) ELSE 0)
    BY DEF Thrust
  <1>5. /\ clamp(any, 80000) \in Int /\ Magnitude(clamp(any, 80000)) <= 80000
        /\ -Magnitude(clamp(up, 180000)) \in Int /\ -Magnitude(clamp(up, 180000)) <= 0
    <2> HIDE DEF up, any
    <2> QED BY <1>2, Clamped, 80000 \in Nat, 180000 \in Nat
  <1> DEFINE w == Wanted(b, sp)
             d == b.domain
  <1>6. /\ w \in Int
        /\ d = "aerial" => w <= 0
        /\ d = "underwater" => Magnitude(w) <= 80000
    <2>1. d \in Domains
      BY <1>1
    <2>2. d = "aerial" => w = -Magnitude(clamp(up, 180000))
      BY <1>3
    <2>3. d = "underwater" => w = clamp(any, 80000)
      BY <1>3
    <2>4. d \in {"ground", "surface"} => w = 0
      BY <1>3
    <2> HIDE DEF w, d, up, any, sp
    <2>5. CASE d = "aerial"
      BY <1>5, <2>2, <2>5
    <2>6. CASE d = "underwater"
      BY <1>5, <2>3, <2>6
    <2>7. CASE d \in {"ground", "surface"}
      BY <2>4, <2>7 DEF Magnitude
    <2> QED BY <2>1, <2>5, <2>6, <2>7 DEF Domains
  <1>7. Magnitude(0) <= 80000
    BY DEF Magnitude
  <1> HIDE DEF w, sp, up, any
  <1>8. Thrust(b) = (IF Propelled(b) THEN w ELSE 0)
    BY <1>4 DEF w
  <1>9. CASE Propelled(b)
    BY <1>6, <1>8, <1>9
  <1>10. CASE ~Propelled(b)
    BY <1>7, <1>8, <1>10
  <1> QED BY <1>9, <1>10

\* Contact moves a body and leaves the rest of it alone.
LEMMA ContactKeeps ==
    ASSUME NEW b, b \in Mass, WorldConstants, NEW a, a = apply_vertical_contact(b)
    PROVE  /\ a \in Mass /\ a.z <= Terrain
           /\ a.domain = b.domain /\ a.granted = b.granted /\ a.hold = b.hold
           /\ contact_invariants(vertical(b), resolve_vertical_contact(vertical(b)))
  <1> DEFINE c == resolve_vertical_contact(vertical(b))
  <1>1. b.z \in Int /\ b.v \in Int /\ Terrain \in Int
    BY DEF Mass, WorldConstants
  <1>2. c.z \in Int /\ c.vz \in Int /\ c.z <= Terrain /\ contact_invariants(vertical(b), c)
    BY <1>1 DEF resolve_vertical_contact, contact_invariants, vertical, Least, Positive
  <1>3. a = [b EXCEPT !.z = c.z, !.v = c.vz]
    BY DEF apply_vertical_contact
  <1> HIDE DEF c
  <1> QED BY <1>2, <1>3 DEF Mass, c

\* What the forces leave is a body, in its domain and under its grant, and it
\* holds a pose only if it held one and was propelled.
LEMMA IntegratedTypes ==
    ASSUME WorldConstants, NEW b \in Mass
    PROVE  /\ Integrated(b) \in Mass
           /\ Integrated(b).domain = b.domain /\ Integrated(b).granted = b.granted
           /\ Integrated(b).hold.given => b.hold.given /\ Propelled(b)
  <1> DEFINE c == Commanded(b)
             t == Thrust(b)
             f == drag(b) + buoyancy(b) + GRAVITY + t
             v == b.v + Moved(f)
             k == drain_from_thrust(b.charge, Magnitude(t), 1, 1)
  <1>1. t \in Int
    BY ThrustTypes
  <1>2. b.v \in Int /\ b.z \in Int /\ b.charge \in Nat /\ b.lift \in Nat
    BY DEF Mass
  <1>3. buoyancy(b) \in Int
    BY <1>2, Scaled DEF buoyancy, buoyancy_ned, displaced
  <1>4. f \in Int
    BY <1>1, <1>3, DragTypes DEF GRAVITY
  <1>5. ASSUME NEW n \in Int PROVE Moved(n) \in Int
    <2>1. n * Dt + 500 \in Int
      BY DEF WorldConstants
    <2> QED BY <2>1, Quotient DEF Moved
  <1>6. v \in Int
    BY <1>2, <1>4, <1>5
  <1>7. Moved(v) \in Int
    BY <1>5, <1>6
  <1>8. k \in Nat
    BY <1>1, <1>2 DEF drain_from_thrust, Magnitude, Positive
  <1>9. Integrated(b) = [c EXCEPT !.v = v, !.z = b.z + Moved(v), !.charge = k]
    BY DEF Integrated
  <1>10. /\ c \in Mass /\ c.domain = b.domain /\ c.granted = b.granted
         /\ c.hold.given => b.hold.given /\ Propelled(b)
    BY CommandedTypes
  <1> DEFINE z == b.z + Moved(v)
             i == Integrated(b)
  <1>11. z \in Int
    BY <1>2, <1>7
  <1>12. i = [c EXCEPT !.v = v, !.z = z, !.charge = k]
    BY <1>9
  <1> HIDE DEF c, t, f, v, k, z, i
  <1>13. i \in Mass
    BY <1>6, <1>8, <1>10, <1>11, <1>12 DEF Mass
  <1>14. i.domain = c.domain /\ i.granted = c.granted /\ i.hold = c.hold
    BY <1>10, <1>12 DEF Mass
  <1> QED BY <1>10, <1>13, <1>14 DEF i

\* No force of a step breaks a property.
LEMMA ForcesSound ==
    ASSUME WorldConstants, NEW b \in Mass
    PROVE  /\ drag_opposes_flow(Vertical(b.v), Vertical(drag(b)))
           /\ buoyancy_only_when_wet(displaced(b), buoyancy(b))
           /\ thrust_only_when_granted(b.granted, Vertical(Thrust(b)))
           /\ battery_gates_thrust(b.charge, Vertical(Thrust(b)))
           /\ b.domain = "ground" =>
                 ground_thrust_only_on_contact(on_terrain(b), Vertical(Thrust(b)))
           /\ b.domain \in {"surface", "underwater"} =>
                 marine_thrust_only_when_wet(wet(b), Vertical(Thrust(b)))
           /\ b.domain = "aerial" =>
                 aerial_thrust_only_in_air(~wet(b), Vertical(Thrust(b)))
           /\ b.domain = "aerial" => Thrust(b) <= 0
           /\ b.domain = "underwater" => Magnitude(Thrust(b)) <= 80000
  <1>1. b.v \in Int /\ b.lift \in Nat
    BY DEF Mass
  <1>2. drag_opposes_flow(Vertical(b.v), Vertical(drag(b)))
    <2> DEFINE d == drag(b)
               a == Vertical(b.v)
               f == Vertical(d)
    <2>1. d \in Int /\ (b.v >= 0 => d <= 0) /\ (b.v <= 0 => d >= 0)
      BY DragTypes
    <2>2. /\ a[1] = 0 /\ a[2] = 0 /\ a[3] = b.v
          /\ f[1] = 0 /\ f[2] = 0 /\ f[3] = d
      BY DEF Vertical, Axis
    <2>3. b.v * d <= 0
      <3> HIDE DEF d
      <3>1. CASE b.v >= 0
        <4>1. b.v * (-d) \in Nat
          BY <1>1, <2>1, <3>1, Scaled
        <4> QED BY <1>1, <2>1, <4>1
      <3>2. CASE b.v <= 0
        <4>1. (-b.v) * d \in Nat
          BY <1>1, <2>1, <3>2, Scaled
        <4> QED BY <1>1, <2>1, <4>1
      <3> QED BY <1>1, <3>1, <3>2
    <2> HIDE DEF a, f, d
    <2>4. vec_dot(a, f) <= 0
      BY <1>1, <2>1, <2>2, <2>3 DEF vec_dot
    <2> QED BY <2>4 DEF drag_opposes_flow, relative_power, a, f, d
  <1>3. buoyancy_only_when_wet(displaced(b), buoyancy(b))
    BY <1>1 DEF buoyancy_only_when_wet, buoyancy, buoyancy_ned, displaced
  <1>4. Thrust(b) # 0 => Propelled(b)
    BY ThrustTypes
  <1>5. Thrust(b) = 0 => Vertical(Thrust(b)) = Zero3
    BY DEF Vertical, Zero3, Axis
  <1>6. /\ b.domain = "aerial" => Thrust(b) <= 0
        /\ b.domain = "underwater" => Magnitude(Thrust(b)) <= 80000
    BY ThrustTypes
  <1>7. Propelled(b) =>
            /\ b.granted /\ b.charge > 0
            /\ b.domain = "ground" => on_terrain(b)
            /\ b.domain \in {"surface", "underwater"} => wet(b)
            /\ b.domain = "aerial" => ~wet(b)
    BY DEF Propelled, propulsion_live
  <1> QED BY <1>2, <1>3, <1>4, <1>5, <1>6, <1>7
          DEF thrust_only_when_granted, battery_gates_thrust, ground_thrust_only_on_contact,
              marine_thrust_only_when_wet, aerial_thrust_only_in_air

\* A world of one body refuses a step for the hold alone, and never the step
\* of a body that holds no pose or has no propulsion to hold it with: of the
\* properties that World::try_step evaluates, the others follow from how the
\* step is made.
THEOREM StepSound ==
    ASSUME WorldConstants, NEW b \in Mass
    PROVE  /\ evaluate(<<b>>) \subseteq {"position_hold_restores_pose"}
           /\ ~b.hold.given \/ ~Propelled(b) => evaluate(<<b>>) = {}
  <1> DEFINE f == Integrated(b)
             s == apply_vertical_contact(f)
             a == apply_vertical_contact(s)
             bad == Fails(a, Record(b), s)
  <1>1. /\ f \in Mass /\ f.domain = b.domain /\ f.granted = b.granted
        /\ f.hold.given => b.hold.given /\ Propelled(b)
    BY IntegratedTypes
  <1>2. s \in Mass /\ s.domain = f.domain /\ s.granted = f.granted /\ s.hold = f.hold
    BY <1>1, ContactKeeps
  <1>3. /\ a.z <= Terrain /\ a \in Mass
        /\ a.domain = b.domain /\ a.granted = b.granted /\ a.hold = f.hold
        /\ contact_invariants(vertical(s), resolve_vertical_contact(vertical(s)))
    <2> HIDE DEF s, f
    <2> QED BY <1>1, <1>2, ContactKeeps
  <1>4. evaluate(<<b>>) = bad
    <2>1. Flown(<<b>>) = <<f>>
      BY DEF Flown
    <2>2. \A x : Len(<<x>>) = 1 /\ DOMAIN <<x>> = {1} /\ <<x>>[1] = x
      OBVIOUS
    <2>3. \A x : resolve_body_contacts(<<x>>) = <<x>>
      BY <2>2 DEF resolve_body_contacts
    <2>4. \A x : Landed(<<x>>) = <<apply_vertical_contact(x)>>
      BY DEF Landed
    <2> HIDE DEF f, bad
    <2>5. ContactsResolved(<<b>>) = <<s>> /\ advance(<<b>>) = <<a>>
      BY <2>1, <2>3, <2>4 DEF ContactsResolved, advance
    <2> HIDE DEF s, a
    <2>6. /\ DOMAIN <<b>> = {1} /\ ContactsResolved(<<b>>)[1] = s /\ advance(<<b>>)[1] = a
          /\ <<b>>[1] = b
      BY <2>2, <2>5
    <2>7. UNION {Fails(advance(<<b>>)[i], Record(<<b>>[i]), ContactsResolved(<<b>>)[i]) :
                    i \in DOMAIN <<b>>} = Fails(a, Record(b), s)
      BY <2>6
    <2>8. ~\E i, j \in DOMAIN <<b>> : i < j
      BY <2>6
    <2>9. {p \in {"no_body_interpenetration"} :
             \E i, j \in DOMAIN <<b>> :
                i < j /\ Interpenetrate(advance(<<b>>)[i], advance(<<b>>)[j])} = {}
      BY <2>8
    <2> QED BY <2>7, <2>9 DEF evaluate, bad, s, a
  <1>5. ~hold_kept(a) => a.hold.given
    BY DEF hold_kept
  <1>6. bad = {p \in {"position_hold_restores_pose"} : ~hold_kept(a)}
    <2> DEFINE r == Record(b)
    <2>1. /\ r.v_rel = b.v /\ r.drag_force = drag(b) /\ r.displaced = displaced(b)
          /\ r.buoyancy = buoyancy(b) /\ r.thrust = Thrust(b) /\ r.charge = b.charge
          /\ r.on_terrain = on_terrain(b) /\ r.wet = wet(b)
      BY DEF Record
    <2>2. a.z \in Int /\ Terrain \in Int
      BY <1>3 DEF Mass, WorldConstants
    <2>3. ~(a.z > Terrain)
      BY <1>3, <2>2
    <2>4. /\ ~(a.domain = "aerial" /\ r.thrust > 0)
          /\ ~(a.domain = "underwater" /\ Magnitude(r.thrust) > 80000)
      <3> DEFINE t == Thrust(b)
      <3>1. ASSUME NEW n \in Int, NEW m \in Int, n <= m PROVE ~(n > m)
        BY <3>1
      <3>2. t \in Int /\ Magnitude(t) \in Int
        BY ThrustTypes DEF Magnitude
      <3> QED BY <1>3, <2>1, <3>1, <3>2, ForcesSound
    <2> HIDE DEF a, s, f, r
    <2> QED BY <1>3, <2>1, <2>3, <2>4, ForcesSound DEF Fails, bad, r
  <1> HIDE DEF a, s, f, bad
  <1> QED BY <1>1, <1>3, <1>4, <1>5, <1>6

-----------------------------------------------------------------------------
(* Handles: what every step of a call keeps.                               *)
WorldType == [body : Body, veh : [Handle -> Vehicle], ok : BOOLEAN]

\* Permits never run ahead of the epoch; while it still counts, those of lost
\* authority are behind it.
Ordered(permit, epoch) ==
    permit.held =>
      /\ permit.epoch <= epoch
      /\ epoch < EpochMax /\ permit.standing = "lost" => permit.epoch < epoch

Coherent(w) ==
    /\ w \in WorldType
    /\ Sound(w.body.safety)
    /\ \A h \in Handle : Sound(w.veh[h].shadow)
    /\ \A h \in Handle : Ordered(w.veh[h].permit, w.body.epoch)

\* Authority is never lost without a revocation.
LEMMA LossRevokes ==
    ASSUME NEW st, Sound(st), NEW e \in Event, Admits(st, e),
           Loss(st, After(st, e), e) = "lost"
    PROVE  Revokes(st, After(st, e), e)
  <1> DEFINE n == After(st, e)
  <1>1. n \in SafetyState /\ st \in SafetyState
    BY AfterSound DEF Sound
  <1>2. (n.failsafe /\ ~st.failsafe) \/ (st.armed /\ ~n.armed /\ e # "Touchdown")
    BY DEF Loss
  <1>3. CASE n.failsafe /\ ~st.failsafe
    BY <1>3 DEF Revokes
  <1>4. CASE st.armed /\ ~n.armed /\ e # "Touchdown"
    <2>1. e \in {"Disconnect", "Disarm"}
      BY <1>1, <1>4, AfterAuthority
    <2> QED
      BY <2>1 DEF Revokes, event_revokes_authority
  <1> QED
    BY <1>2, <1>3, <1>4

LEMMA LossValues == \A s, n, e : Loss(s, n, e) \in {"lost", "landed", "none"}
  BY DEF Loss

LEMMA DowngradeType ==
    ASSUME NEW loss \in {"lost", "landed", "none"}
    PROVE  /\ \A t \in Standing : Downgrade(t, loss) \in Standing
           /\ \A t \in Setpoint : Downgrade(t, loss) \in Setpoint
           /\ \A t \in Standing : Downgrade(t, loss) = "lost" => t = "lost" \/ loss = "lost"
  BY DEF Downgrade, Standing, Setpoint

LEMMA SufferIs ==
    ASSUME NEW sf, NEW ep, NEW cmd, NEW vs, NEW ok, NEW loss
    PROVE  Suffer([body |-> [safety |-> sf, epoch |-> ep, command |-> cmd],
                   veh |-> vs, ok |-> ok], loss)
             = [body |-> [safety |-> sf, epoch |-> ep, command |-> Downgrade(cmd, loss)],
                veh |-> [g \in Handle |-> Demoted(vs[g], loss)], ok |-> ok]
  BY DEF Suffer

\* The plant takes an event: the epoch outruns every permit it ends.
LEMMA EventCoherent ==
    ASSUME NEW w, Coherent(w), NEW e \in Event, Admits(w.body.safety, e)
    PROVE  Coherent(aerial_event(w, e)) /\ aerial_event(w, e).ok = w.ok
  <1> DEFINE s == w.body.safety
             n == After(s, e)
             loss == Loss(s, n, e)
             ep == IF Revokes(s, n, e) THEN bump_authority(w.body.epoch) ELSE w.body.epoch
             cmd == IF n.failsafe \/ e \in {"Touchdown", "Recover"} THEN "none" ELSE w.body.command
             r == aerial_event(w, e)
  <1>1. Sound(n) /\ n \in SafetyState
    BY AfterSound DEF Coherent, Sound
  <1>2. w.body \in Body /\ w.veh \in [Handle -> Vehicle] /\ w.ok \in BOOLEAN
    BY DEF Coherent, WorldType
  <1>3. loss \in {"lost", "landed", "none"}
    BY LossValues
  <1>4. /\ ep \in 0..EpochMax
        /\ ep >= w.body.epoch
        /\ loss = "lost" /\ ep < EpochMax => ep > w.body.epoch
    <2>1. loss = "lost" => Revokes(s, n, e)
      BY LossRevokes DEF Coherent
    <2> QED
      BY <2>1, <1>2, EpochMaxAssumption DEF Body, bump_authority
  <1>5. cmd \in Setpoint
    BY <1>2 DEF Body, Setpoint
  <1> HIDE DEF s, n, loss, ep, cmd
  <1>6. r = [body |-> [safety |-> n, epoch |-> ep, command |-> Downgrade(cmd, loss)],
             veh |-> [g \in Handle |-> Demoted(w.veh[g], loss)],
             ok |-> w.ok]
    <2> DEFINE b == [safety |-> n, epoch |-> ep, command |-> cmd]
               x == [w EXCEPT !.body = b]
    <2>1. r = Suffer(x, loss)
      BY DEF aerial_event, s, n, loss, ep, cmd
    <2>2. x = [body |-> b, veh |-> w.veh, ok |-> w.ok]
      BY DEF Coherent, WorldType
    <2> QED
      BY <2>1, <2>2, SufferIs
  <1>7. Downgrade(cmd, loss) \in Setpoint
    BY <1>3, <1>5, DowngradeType
  <1>8. ASSUME NEW g \in Handle
        PROVE  /\ r.veh[g] \in Vehicle
               /\ Sound(r.veh[g].shadow)
               /\ Ordered(r.veh[g].permit, ep)
    <2> DEFINE v == w.veh[g]
               q == Demoted(v, loss)
    <2>1. v \in Vehicle /\ Sound(v.shadow) /\ Ordered(v.permit, w.body.epoch)
      BY <1>2 DEF Coherent
    <2>2. v.permit.standing \in Standing /\ v.setpoint \in Setpoint
      BY <2>1 DEF Vehicle, Permit
    <2>3. /\ Downgrade(v.permit.standing, loss) \in Standing
          /\ Downgrade(v.setpoint, loss) \in Setpoint
          /\ Downgrade(v.permit.standing, loss) = "lost"
               => v.permit.standing = "lost" \/ loss = "lost"
      BY <2>2, <1>3, DowngradeType
    <2>4. q \in Vehicle /\ q.shadow = v.shadow /\ q.permit.held = v.permit.held
          /\ q.permit.epoch = v.permit.epoch
          /\ q.permit.standing = Downgrade(v.permit.standing, loss)
      BY <2>1, <2>3 DEF Vehicle, Permit, Demoted
    <2>5. v.permit.epoch \in 0..EpochMax /\ w.body.epoch \in 0..EpochMax
      BY <2>1, <1>2 DEF Vehicle, Permit, Body
    <2>6. Ordered(q.permit, ep)
      BY <2>1, <2>3, <2>4, <2>5, <1>4, EpochMaxAssumption DEF Ordered
    <2> QED
      BY <2>1, <2>4, <2>6, <1>6
  <1>9. r \in WorldType /\ r.body.safety = n /\ r.body.epoch = ep /\ r.ok = w.ok
    BY <1>1, <1>2, <1>4, <1>6, <1>7, <1>8 DEF WorldType, Body
  <1> QED
    BY <1>1, <1>8, <1>9 DEF Coherent

\* One handle is given a new value.
LEMMA PutCoherent ==
    ASSUME NEW w, Coherent(w), NEW h \in Handle, NEW v \in Vehicle,
           Sound(v.shadow), Ordered(v.permit, w.body.epoch)
    PROVE  Coherent([w EXCEPT !.veh[h] = v])
  <1> DEFINE r == [w EXCEPT !.veh[h] = v]
  <1>1. r.body = w.body /\ r.ok = w.ok /\ r \in WorldType
    BY DEF Coherent, WorldType
  <1>2. \A g \in Handle : r.veh[g] = IF g = h THEN v ELSE w.veh[g]
    BY DEF Coherent, WorldType
  <1> HIDE DEF r
  <1>7. Coherent(r)
    BY <1>1, <1>2 DEF Coherent
  <1> QED
    BY <1>7 DEF r

LEMMA FieldsCoherent ==
    ASSUME NEW w, Coherent(w), NEW h \in Handle
    PROVE  /\ w.veh[h] \in Vehicle
           /\ Sound(w.veh[h].shadow)
           /\ Ordered(w.veh[h].permit, w.body.epoch)
           /\ w.body \in Body /\ w.body.epoch \in 0..EpochMax
           /\ Sound(w.body.safety)
  BY DEF Coherent, WorldType, Body

\* Steps that change nothing but the outcome, or the body's command.
LEMMA RequireCoherent ==
    ASSUME NEW w, Coherent(w), NEW cond
    PROVE  Coherent(Refuse(w)) /\ Coherent(Require(w, cond))
  <1>1. Coherent(Refuse(w))
    BY DEF Refuse, Coherent, WorldType
  <1> QED
    BY <1>1 DEF Require

LEMMA CommandCoherent ==
    ASSUME NEW w, Coherent(w), NEW c \in Setpoint
    PROVE  Coherent([w EXCEPT !.body.command = c])
  <1> DEFINE r == [w EXCEPT !.body.command = c]
  <1>1. /\ r.veh = w.veh /\ r.ok = w.ok /\ r.body \in Body
        /\ r.body.safety = w.body.safety /\ r.body.epoch = w.body.epoch
        /\ r \in WorldType
    BY DEF Coherent, WorldType, Body
  <1> HIDE DEF r
  <1>7. Coherent(r)
    BY <1>1 DEF Coherent
  <1> QED
    BY <1>7 DEF r

\* A permit is issued at the epoch the plant has now.
LEMMA IssueCoherent ==
    ASSUME NEW w, Coherent(w), NEW h \in Handle,
           NEW left \in Nat \cup {Unbounded}, NEW st \in Standing, st # "lost"
    PROVE  Coherent(issue(w, h, left, st))
  <1> DEFINE p == [held |-> TRUE, epoch |-> w.body.epoch, left |-> left, standing |-> st]
             v == [w.veh[h] EXCEPT !.permit = p]
  <1>1. v \in Vehicle /\ v.shadow = w.veh[h].shadow /\ v.permit = p
    BY FieldsCoherent DEF Vehicle, Permit
  <1>2. Ordered(p, w.body.epoch)
    BY FieldsCoherent DEF Ordered
  <1>3. issue(w, h, left, st) = [w EXCEPT !.veh[h] = v]
    BY DEF issue
  <1> HIDE DEF v
  <1> QED
    BY <1>1, <1>2, <1>3, FieldsCoherent, PutCoherent

\* The session clock ticks.
LEMMA AdvanceCoherent ==
    ASSUME NEW w, Coherent(w)
    PROVE  Coherent(Advance(w))
  <1> DEFINE r == Advance(w)
  <1>1. ASSUME NEW g \in Handle
        PROVE  LET v == Aged(w.veh[g]) IN
               /\ v \in Vehicle /\ v.shadow = w.veh[g].shadow
               /\ v.permit.held = w.veh[g].permit.held
               /\ v.permit.epoch = w.veh[g].permit.epoch
               /\ v.permit.standing = w.veh[g].permit.standing
    BY FieldsCoherent DEF Aged, Vehicle, Permit, Unbounded
  <1>2. r.body = w.body /\ r.ok = w.ok /\ r.veh = [g \in Handle |-> Aged(w.veh[g])]
    BY DEF Advance, Coherent, WorldType
  <1>3. r \in WorldType
    BY <1>1 DEF Advance, Coherent, WorldType
  <1> HIDE DEF r
  <1>7. Coherent(r)
    BY <1>1, <1>2, <1>3 DEF Coherent, Ordered
  <1> QED
    BY <1>7 DEF r

\* connect: the companion's session begins anew.
LEMMA RevokeCoherent ==
    ASSUME NEW w, Coherent(w)
    PROVE  Coherent([Suffer(w, "lost") EXCEPT !.body.epoch = bump_authority(@)])
  <1> DEFINE ep == bump_authority(w.body.epoch)
             r == [Suffer(w, "lost") EXCEPT !.body.epoch = bump_authority(@)]
  <1>1. ep \in 0..EpochMax /\ ep >= w.body.epoch /\ (ep < EpochMax => ep > w.body.epoch)
    BY EpochMaxAssumption DEF bump_authority, Coherent, WorldType, Body
  <1>2. /\ Downgrade(w.body.command, "lost") \in Setpoint
        /\ \A g \in Handle : /\ Downgrade(w.veh[g].permit.standing, "lost") \in Standing
                             /\ Downgrade(w.veh[g].setpoint, "lost") \in Setpoint
    BY FieldsCoherent, DowngradeType DEF Vehicle, Permit, Body, Coherent, WorldType
  <1>3. /\ r.body.safety = w.body.safety /\ r.body.epoch = ep /\ r.body \in Body
        /\ r.ok = w.ok
        /\ r.veh = [g \in Handle |-> Demoted(w.veh[g], "lost")]
    BY <1>1, <1>2 DEF Suffer, Coherent, WorldType, Body
  <1>4. ASSUME NEW g \in Handle
        PROVE  LET v == Demoted(w.veh[g], "lost") IN
               /\ v \in Vehicle /\ v.shadow = w.veh[g].shadow
               /\ v.permit.held = w.veh[g].permit.held
               /\ v.permit.epoch = w.veh[g].permit.epoch
    BY <1>2, FieldsCoherent DEF Demoted, Vehicle, Permit
  <1>5. r \in WorldType
    BY <1>3, <1>4 DEF Suffer, Coherent, WorldType
  <1>6. ASSUME NEW g \in Handle
        PROVE  Ordered(r.veh[g].permit, ep)
    BY <1>1, <1>3, <1>4, FieldsCoherent DEF Ordered, Vehicle, Permit, Coherent
  <1> HIDE DEF r
  <1>7. Coherent(r)
    BY <1>3, <1>4, <1>5, <1>6 DEF Coherent
  <1> QED
    BY <1>7 DEF r

LEMMA NoPermitType == NoPermit \in Permit /\ ~NoPermit.held
  BY EpochMaxAssumption DEF NoPermit, Permit, Standing

LEMMA DisconnectedSound == Sound(Disconnected) /\ Sound(Ready)
  BY DEF Disconnected, Ready, Sound, CheckInvariants, SafetyState, Phase, InFlight

\* The handle's shadow, and then its permit, is replaced.
LEMMA ShadowCoherent ==
    ASSUME NEW w, Coherent(w), NEW h \in Handle, NEW st, Sound(st)
    PROVE  /\ Coherent([w EXCEPT !.veh[h].shadow = st])
           /\ Coherent([w EXCEPT !.veh[h] =
                         [w.veh[h] EXCEPT !.shadow = st, !.permit = NoPermit]])
  <1> DEFINE u == [w.veh[h] EXCEPT !.shadow = st]
             v == [w.veh[h] EXCEPT !.shadow = st, !.permit = NoPermit]
  <1>1. st \in SafetyState
    BY DEF Sound
  <1>2. u \in Vehicle /\ u.shadow = st /\ u.permit = w.veh[h].permit
    BY <1>1, FieldsCoherent DEF Vehicle
  <1>3. v \in Vehicle /\ v.shadow = st /\ v.permit = NoPermit
    BY <1>1, FieldsCoherent, NoPermitType DEF Vehicle
  <1>4. Ordered(u.permit, w.body.epoch) /\ Ordered(v.permit, w.body.epoch)
    BY <1>2, <1>3, FieldsCoherent, NoPermitType DEF Ordered
  <1>5. [w EXCEPT !.veh[h].shadow = st] = [w EXCEPT !.veh[h] = u]
    OBVIOUS
  <1> HIDE DEF u, v
  <1>6. Coherent([w EXCEPT !.veh[h] = u]) /\ Coherent([w EXCEPT !.veh[h] = v])
    BY <1>2, <1>3, <1>4, PutCoherent
  <1> QED
    BY <1>5, <1>6 DEF v

LEMMA SetpointCoherent ==
    ASSUME NEW w, Coherent(w), NEW h \in Handle, NEW c \in Setpoint
    PROVE  Coherent([w EXCEPT !.veh[h].setpoint = c])
  <1> DEFINE u == [w.veh[h] EXCEPT !.setpoint = c]
  <1>1. u \in Vehicle /\ u.shadow = w.veh[h].shadow /\ u.permit = w.veh[h].permit
    BY FieldsCoherent DEF Vehicle
  <1>2. [w EXCEPT !.veh[h].setpoint = c] = [w EXCEPT !.veh[h] = u]
    OBVIOUS
  <1> HIDE DEF u
  <1> QED
    BY <1>1, <1>2, FieldsCoherent, PutCoherent

LEMMA StepType ==
    ASSUME NEW st \in StepOf
    PROVE  /\ st.op \in StepName
           /\ st.op \in {"plant", "attempt", "shadow"} => st.e \in Event
  BY DEF StepOf

\* Every step a call is made of.
LEMMA RunCoherent ==
    ASSUME NEW w, Coherent(w), NEW h \in Handle, NEW st \in StepOf
    PROVE  Coherent(Run(w, h, st))
  <1> DEFINE v == w.veh[h]
             s == w.body.safety
             r == Run(w, h, st)
  <1>1. CASE st.op = "plant"
    <2>1. r = IF Admits(s, st.e) THEN aerial_event(w, st.e) ELSE Refuse(w)
      BY <1>1 DEF Run
    <2> QED
      BY <1>1, <2>1, StepType, EventCoherent, RequireCoherent
  <1>2. CASE st.op = "attempt"
    <2>1. r = IF Admits(s, st.e) THEN aerial_event(w, st.e) ELSE w
      BY <1>2 DEF Run
    <2> QED
      BY <1>2, <2>1, StepType, EventCoherent
  <1>3. CASE st.op = "shadow"
    <2>1. r = IF Admits(v.shadow, st.e)
                THEN [w EXCEPT !.veh[h].shadow = After(v.shadow, st.e)] ELSE Refuse(w)
      BY <1>3 DEF Run
    <2>2. Admits(v.shadow, st.e) => Sound(After(v.shadow, st.e))
      BY <1>3, StepType, AfterSound, FieldsCoherent
    <2>3. Admits(v.shadow, st.e) => Coherent([w EXCEPT !.veh[h].shadow = After(v.shadow, st.e)])
      BY <2>2, ShadowCoherent
    <2>4. Coherent(Refuse(w))
      BY RequireCoherent
    <2> QED
      BY <2>1, <2>3, <2>4
  <1>4. CASE st.op \in {"epoch", "lease", "heartbeat", "unrevoked", "sensors",
                       "preflight", "ready", "refused"}
    <2>1. r = Refuse(w) \/ \E cond \in BOOLEAN : r = Require(w, cond)
      BY <1>4 DEF Run, Require
    <2>2. \A cond \in BOOLEAN : Coherent(Require(w, cond))
      BY RequireCoherent
    <2>3. Coherent(Refuse(w))
      BY RequireCoherent
    <2> QED
      BY <2>1, <2>2, <2>3
  <1>5. CASE st.op \in {"issue", "reissue", "issue_bounded"}
    <2>1. /\ Renewed(v.permit.standing) \in Standing \ {"lost"}
          /\ "now" \in Standing \ {"lost"}
          /\ Unbounded \in Nat \cup {Unbounded} /\ Lease \in Nat \cup {Unbounded}
      BY LeaseAssumption DEF Renewed, Standing
    <2>2. \/ r = issue(w, h, Unbounded, "now")
          \/ r = issue(w, h, Unbounded, Renewed(v.permit.standing))
          \/ r = issue(w, h, Lease, Renewed(v.permit.standing))
      BY <1>5 DEF Run
    <2> QED
      BY <2>1, <2>2, IssueCoherent
  <1>6. CASE st.op = "revoke"
    <2>1. r = [Suffer(w, "lost") EXCEPT !.body.epoch = bump_authority(@)]
      BY <1>6 DEF Run
    <2> QED
      BY <2>1, RevokeCoherent
  <1>7. CASE st.op \in {"stage", "unstage"}
    <2>1. v.permit.standing \in Setpoint /\ "none" \in Setpoint
      BY FieldsCoherent DEF Vehicle, Permit, Setpoint
    <2>2. \/ r = [w EXCEPT !.veh[h].setpoint = v.permit.standing]
          \/ r = [w EXCEPT !.veh[h].setpoint = "none"]
      BY <1>7 DEF Run
    <2> QED
      BY <2>1, <2>2, SetpointCoherent
  <1>8. CASE st.op \in {"flush", "clear", "granted", "cut"}
    <2> DEFINE u == [w EXCEPT !.body.command = "none"]
    <2>1. v.setpoint \in Setpoint /\ "none" \in Setpoint
      BY FieldsCoherent DEF Vehicle, Setpoint
    <2>2. Coherent(u) /\ Coherent([w EXCEPT !.body.command = v.setpoint])
      BY <2>1, CommandCoherent
    <2>3. \/ r = w \/ r = u \/ r = [w EXCEPT !.body.command = v.setpoint]
          \/ r = Advance(w) \/ r = Advance(u)
      BY <1>8 DEF Run
    <2> HIDE DEF u
    <2>4. Coherent(Advance(w)) /\ Coherent(Advance(u))
      BY <2>2, AdvanceCoherent
    <2> QED
      BY <2>2, <2>3, <2>4
  <1>9. CASE st.op \in {"new", "read"}
    <2>1. \/ r = [w EXCEPT !.veh[h] = [v EXCEPT !.shadow = Disconnected, !.permit = NoPermit]]
          \/ r = [w EXCEPT !.veh[h] = [v EXCEPT !.shadow = s, !.permit = NoPermit]]
      BY <1>9 DEF Run
    <2>2. Coherent([w EXCEPT !.veh[h] = [v EXCEPT !.shadow = Disconnected, !.permit = NoPermit]])
      BY DisconnectedSound, ShadowCoherent
    <2>3. Coherent([w EXCEPT !.veh[h] = [v EXCEPT !.shadow = s, !.permit = NoPermit]])
      BY FieldsCoherent, ShadowCoherent
    <2> QED
      BY <2>1, <2>2, <2>3
  <1>10. CASE st.op = "wrap"
    <2>1. r = w \/ r = issue(w, h, Unbounded, "now")
      BY <1>10 DEF Run
    <2>2. "now" \in Standing /\ Unbounded \in Nat \cup {Unbounded}
      BY DEF Standing
    <2>3. Coherent(issue(w, h, Unbounded, "now"))
      BY <2>2, IssueCoherent
    <2> QED
      BY <2>1, <2>3
  <1> QED
    BY <1>1, <1>2, <1>3, <1>4, <1>5, <1>6, <1>7, <1>8, <1>9, <1>10, StepType DEF StepName

-----------------------------------------------------------------------------
(* The calls are made of those steps. *)

Script == Seq(StepOf)

LEMMA ConcatScript == \A a, b \in Script : a \o b \in Script
  BY DEF Script

LEMMA StepScripts ==
    /\ \A op \in StepName \ {"plant", "attempt", "shadow"} : Op(op) \in Script
    /\ \A e \in Event : /\ Plant(e) \in Script
                        /\ Attempt(e) \in Script
                        /\ Shadow(e) \in Script
  <1>1. "none" \notin Event
    BY DEF Event
  <1>2. ASSUME NEW op \in StepName, NEW e \in Event \cup {"none"},
               op \in {"plant", "attempt", "shadow"} <=> e \in Event
        PROVE  <<[op |-> op, e |-> e]>> \in Script
    BY <1>2 DEF Script, StepOf
  <1> QED
    BY <1>1, <1>2 DEF Op, On, Plant, Attempt, Shadow, StepName

LEMMA PieceScripts ==
    /\ require_permit \in Script
    /\ require_live_permit \in Script
    /\ \A e \in Event : Gated(e) \in Script
    /\ accept_mission \in Script
    /\ EnterOffboard \in Script
    /\ StartTakeoff \in Script
    /\ Airborne \in Script
    /\ admit_offboard_now \in Script
    /\ Command \in Script
    /\ Touchdown \in Script
    /\ Disarm \in Script
    /\ tick_body("granted") \in Script
  <1> USE ConcatScript, StepScripts
  <1>1. require_permit \in Script
    BY DEF require_permit, StepName
  <1>2. require_live_permit \in Script
    BY <1>1 DEF require_live_permit, StepName
  <1>3. \A e \in Event : Gated(e) \in Script
    BY DEF Gated, StepName
  <1>4. accept_mission \in Script
    BY <1>3 DEF accept_mission, Event
  <1>5. EnterOffboard \in Script
    <2>1. /\ Shadow("HeartbeatFresh") \in Script /\ Gated("HeartbeatFresh") \in Script
          /\ Plant("EnterOffboard") \in Script /\ Shadow("EnterOffboard") \in Script
          /\ Shadow("EnableActuators") \in Script /\ Gated("EnableActuators") \in Script
      BY <1>3 DEF Event
    <2>2. Op("stage") \in Script /\ Op("reissue") \in Script
      BY DEF StepName
    <2> QED
      BY <1>1, <2>1, <2>2 DEF EnterOffboard
  <1>6. StartTakeoff \in Script
    BY <1>2, <1>3 DEF StartTakeoff, Event
  <1>7. Airborne \in Script
    BY <1>2, <1>3 DEF Airborne, Event
  <1>8. admit_offboard_now \in Script
    BY <1>2 DEF admit_offboard_now, Event
  <1>9. Command \in Script
    BY <1>4, <1>8 DEF Command, StepName
  <1>10. Touchdown \in Script /\ Disarm \in Script /\ tick_body("granted") \in Script
    BY DEF Touchdown, Disarm, tick_body, StepName, Event
  <1> QED
    BY <1>1, <1>2, <1>3, <1>4, <1>5, <1>6, <1>7, <1>8, <1>9, <1>10

Target == Kind \cup {"same", "shadow"}

\* A call is a script, and names the typestate it leads to.
LEMMA NamedType ==
    ASSUME NEW name \in CallName, NEW v
    PROVE  Named(name, v).does \in Script /\ Named(name, v).into \in Target
  <1> DEFINE c == Named(name, v)
  <1> USE ConcatScript, StepScripts, PieceScripts DEF Call, Target, Kind
  <1>1. CASE name \in {"attach", "new", "connect"}
    <2>1. c \in {attach, new, connect}
      BY <1>1 DEF Named
    <2>2. attach.does \in Script /\ attach.into \in Target
      BY DEF attach, StepName
    <2>3. new.does \in Script /\ new.into \in Target
      BY DEF new, StepName
    <2>4. connect.does \in Script /\ connect.into \in Target
      BY DEF connect, StepName, Event
    <2> QED
      BY <2>1, <2>2, <2>3, <2>4
  <1>2. CASE name \in {"arm", "enter_offboard", "acquire", "renew"}
    <2>1. c \in {arm_now, enter_offboard_now, acquire_offboard_control_now,
                 renew_offboard_control_now}
      BY <1>2 DEF Named
    <2>2. arm_now.does \in Script /\ arm_now.into \in Target
      BY DEF arm_now, StepName, Event
    <2>3. enter_offboard_now.does \in Script /\ enter_offboard_now.into \in Target
      BY DEF enter_offboard_now
    <2>4. /\ acquire_offboard_control_now.does \in Script
          /\ acquire_offboard_control_now.into \in Target
      BY DEF acquire_offboard_control_now, StepName
    <2>5. /\ renew_offboard_control_now.does \in Script
          /\ renew_offboard_control_now.into \in Target
      BY DEF renew_offboard_control_now, StepName
    <2> QED
      BY <2>1, <2>2, <2>3, <2>4, <2>5
  <1>3. CASE name \in {"start_takeoff", "declare_airborne", "command", "begin_land"}
    <2>1. c \in {start_takeoff_now, declare_airborne_now, offboard_command, begin_land_now}
      BY <1>3 DEF Named
    <2>2. start_takeoff_now.does \in Script /\ start_takeoff_now.into \in Target
      BY DEF start_takeoff_now
    <2>3. declare_airborne_now.does \in Script /\ declare_airborne_now.into \in Target
      BY DEF declare_airborne_now
    <2>4. offboard_command.does \in Script /\ offboard_command.into \in Target
      BY DEF offboard_command
    <2>5. begin_land_now.does \in Script /\ begin_land_now.into \in Target
      BY DEF begin_land_now, Event
    <2> QED
      BY <2>1, <2>2, <2>3, <2>4, <2>5
  <1>4. CASE name \in {"touchdown", "disarm", "failsafe_disarm", "failsafe", "recover"}
    <2>1. c \in {touchdown_now, disarm_now, failsafe_disarm_now, failsafe_now, recover_now}
      BY <1>4 DEF Named
    <2>2. touchdown_now.does \in Script /\ touchdown_now.into \in Target
      BY DEF touchdown_now, Event
    <2>3. disarm_now.does \in Script /\ disarm_now.into \in Target
      BY DEF disarm_now, Event
    <2>4. failsafe_disarm_now.does \in Script /\ failsafe_disarm_now.into \in Target
      BY DEF failsafe_disarm_now, Event
    <2>5. failsafe_now.does \in Script /\ failsafe_now.into \in Target
      BY DEF failsafe_now, StepName, Event
    <2>6. recover_now.does \in Script /\ recover_now.into \in Target
      BY DEF recover_now, StepName, Event
    <2> QED
      BY <2>1, <2>2, <2>3, <2>4, <2>5, <2>6
  <1>5. CASE name \in {"thrust", "tick"}
    <2>1. c \in {set_motor_thrust_now(v), tick("granted")}
      BY <1>5 DEF Named
    <2>2. set_motor_thrust_now(v).does \in Script /\ set_motor_thrust_now(v).into \in Target
      <3>1. <<>> \in Script
        BY DEF Script
      <3>2. /\ Shadow("EnableActuators") \o Gated("EnableActuators") \in Script
            /\ Shadow("HeartbeatFresh") \in Script /\ Shadow("MissionCommand") \in Script
        BY DEF Event
      <3> QED
        BY <3>1, <3>2 DEF set_motor_thrust_now
    <2>3. tick("granted").does \in Script /\ tick("granted").into \in Target
      BY DEF tick
    <2> QED
      BY <2>1, <2>2, <2>3
  <1> QED
    BY <1>1, <1>2, <1>3, <1>4, <1>5 DEF CallName

-----------------------------------------------------------------------------
(* Running a script: what Result computes, one step after another.         *)

LEMMA SetInduction ==
    ASSUME NEW T, 0 \in T, \A n \in Nat : n \in T => n + 1 \in T
    PROVE  Nat \subseteq T
  <1> DEFINE R == {p \in Nat \X Nat : p[1] < p[2]}
             U == {n \in Nat : n \notin T}
  <1>1. IsWellFoundedOn(R, Nat)
    <2>1. OpToRel(<, Nat) = R
      BY DEF OpToRel
    <2> QED BY <2>1, NatLessThanWellFounded
  <1>2. SUFFICES ASSUME U # {} PROVE FALSE
    OBVIOUS
  <1>3. PICK x \in U : \A y \in U : ~(<<y, x>> \in R)
    <2>1. U \subseteq Nat
      OBVIOUS
    <2> HIDE DEF R, U
    <2> QED BY <1>1, <1>2, <2>1, WFMin
  <1>4. x # 0 /\ x \in Nat
    OBVIOUS
  <1>5. x - 1 \in Nat /\ (x - 1) + 1 = x /\ x - 1 < x
    BY <1>4
  <1>6. x - 1 \notin U
    BY <1>3, <1>4, <1>5
  <1> QED
    BY <1>5, <1>6

\* g holds the worlds that the steps of a script lead through.
Trace(h, g, w, does) ==
    /\ g[0] = w
    /\ \A i \in 1..Len(does) : g[i] = Proceed(h, g[i - 1], does[i])

\* The script leads from w to r.
Leads(h, w, does, r) == \E g : Trace(h, g, w, does) /\ g[Len(does)] = r

\* A call leads where its script does.
LEMMA ChosenLeads ==
    ASSUME NEW h, NEW w, NEW does \in Script
    PROVE  Leads(h, w, does,
             (CHOOSE g : g = [i \in 0..Len(does) |->
                IF i = 0 THEN w ELSE Proceed(h, g[i - 1], does[i])])[Len(does)])
  <1> DEFINE Fix(g) == g = [i \in 0..Len(does) |->
                              IF i = 0 THEN w ELSE Proceed(h, g[i - 1], does[i])]
  <1>1. \E g : Fix(g)
    <2> DEFINE Upto(n, g) == /\ g[0] = w
                             /\ \A i \in 1..n : g[i] = Proceed(h, g[i - 1], does[i])
               T == {n \in Nat : \E g : Upto(n, g)}
    <2>1. 0 \in T
      <3>1. Upto(0, [i \in {0} |-> w])
        OBVIOUS
      <3> QED BY <3>1
    <2>2. ASSUME NEW n \in Nat, n \in T PROVE n + 1 \in T
      <3>1. PICK g : Upto(n, g)
        BY <2>2
      <3> DEFINE f == [i \in 0..(n + 1) |-> IF i <= n THEN g[i]
                                            ELSE Proceed(h, g[n], does[n + 1])]
      <3>2. f[0] = w
        BY <3>1
      <3>3. ASSUME NEW i \in 1..(n + 1) PROVE f[i] = Proceed(h, f[i - 1], does[i])
        <4>1. CASE i <= n
          <5>1. f[i] = g[i] /\ f[i - 1] = g[i - 1] /\ i \in 1..n
            BY <4>1
          <5> QED BY <3>1, <5>1
        <4>2. CASE i = n + 1
          <5>1. f[i] = Proceed(h, g[n], does[n + 1]) /\ f[i - 1] = g[n] /\ i - 1 = n
            BY <4>2
          <5> QED BY <4>2, <5>1
        <4> QED BY <4>1, <4>2
      <3>4. Upto(n + 1, f)
        BY <3>2, <3>3
      <3> HIDE DEF f, Upto
      <3> QED BY <3>4
    <2>3. Nat \subseteq T
      <3> HIDE DEF T
      <3> QED BY <2>1, <2>2, SetInduction
    <2>4. Len(does) \in Nat
      BY DEF Script
    <2>5. PICK g : Upto(Len(does), g)
      BY <2>3, <2>4
    <2> DEFINE f == [i \in 0..Len(does) |-> g[i]]
               F == [i \in 0..Len(does) |-> IF i = 0 THEN w ELSE Proceed(h, f[i - 1], does[i])]
    <2>6. ASSUME NEW i \in 0..Len(does) PROVE f[i] = F[i]
      <3>1. CASE i = 0
        BY <2>4, <2>5, <3>1
      <3>2. CASE i # 0
        <4>1. i \in 1..Len(does) /\ i - 1 \in 0..Len(does)
          BY <2>4, <3>2
        <4>2. f[i] = g[i] /\ f[i - 1] = g[i - 1]
          BY <4>1
        <4>3. g[i] = Proceed(h, g[i - 1], does[i])
          BY <2>5, <4>1
        <4>4. F[i] = Proceed(h, f[i - 1], does[i])
          BY <3>2
        <4> QED BY <4>2, <4>3, <4>4
      <3> QED BY <3>1, <3>2
    <2>7. f = F
      BY <2>6
    <2> QED BY <2>7
  <1>2. ASSUME NEW f, Fix(f) PROVE Leads(h, w, does, f[Len(does)])
    <2>1. Len(does) \in Nat
      BY DEF Script
    <2>2. f[0] = w
      BY <1>2, <2>1
    <2>3. \A i \in 1..Len(does) : f[i] = Proceed(h, f[i - 1], does[i])
      BY <1>2, <2>1
    <2> QED BY <2>2, <2>3 DEF Trace, Leads
  <1> HIDE DEF Fix
  <1>3. Fix(CHOOSE g : Fix(g))
    BY <1>1
  <1>4. Leads(h, w, does, (CHOOSE g : Fix(g))[Len(does)])
    BY <1>2, <1>3
  <1> QED BY <1>4 DEF Fix

LEMMA ResultLeads ==
    ASSUME NEW h, NEW c, c.does \in Script
    PROVE  Leads(h, World, c.does, Result(h, c))
  <1>1. ASSUME NEW w, NEW does \in Script
        PROVE  Leads(h, w, does,
                 (CHOOSE g : g = [i \in 0..Len(does) |->
                    IF i = 0 THEN w ELSE Proceed(h, g[i - 1], does[i])])[Len(does)])
    BY ChosenLeads
  <1>2. Leads(h, World, c.does,
          (CHOOSE g : g = [i \in 0..Len(c.does) |->
             IF i = 0 THEN World ELSE Proceed(h, g[i - 1], c.does[i])])[Len(c.does)])
    BY <1>1
  <1> QED BY <1>2 DEF Result

LEMMA LeadsSplit ==
    ASSUME NEW h, NEW w, NEW r, NEW a \in Script, NEW b \in Script, Leads(h, w, a \o b, r)
    PROVE  \E m : Leads(h, w, a, m) /\ Leads(h, m, b, r)
  <1>1. PICK g : Trace(h, g, w, a \o b) /\ g[Len(a \o b)] = r
    BY DEF Leads
  <1>2. /\ Len(a) \in Nat /\ Len(b) \in Nat
        /\ Len(a \o b) = Len(a) + Len(b)
        /\ \A i \in 1..Len(a) : (a \o b)[i] = a[i]
        /\ \A i \in 1..Len(b) : (a \o b)[Len(a) + i] = b[i]
    BY DEF Script
  <1> DEFINE m == g[Len(a)]
             f == [i \in 0..Len(b) |-> g[Len(a) + i]]
  <1>3. Trace(h, g, w, a)
    BY <1>1, <1>2 DEF Trace
  <1>4. Trace(h, f, m, b)
    <2>1. f[0] = m
      BY <1>2
    <2>2. ASSUME NEW i \in 1..Len(b) PROVE f[i] = Proceed(h, f[i - 1], b[i])
      <3>1. /\ f[i] = g[Len(a) + i] /\ f[i - 1] = g[Len(a) + i - 1]
            /\ Len(a) + i \in 1..Len(a \o b)
        BY <1>2
      <3>2. g[Len(a) + i] = Proceed(h, g[Len(a) + i - 1], (a \o b)[Len(a) + i])
        BY <1>1, <3>1 DEF Trace
      <3> QED BY <1>2, <3>1, <3>2
    <2> HIDE DEF f, m
    <2> QED BY <2>1, <2>2 DEF Trace
  <1>5. f[Len(b)] = r
    BY <1>1, <1>2
  <1>6. Leads(h, w, a, m)
    BY <1>3 DEF Leads
  <1> HIDE DEF f
  <1>7. Leads(h, m, b, r)
    BY <1>4, <1>5 DEF Leads
  <1> QED BY <1>6, <1>7

LEMMA LeadsOne ==
    ASSUME NEW h, NEW w, NEW r, NEW st, Leads(h, w, <<st>>, r)
    PROVE  r = Proceed(h, w, st)
  <1>1. PICK g : Trace(h, g, w, <<st>>) /\ g[1] = r
    BY DEF Leads
  <1> QED BY <1>1 DEF Trace

\* What holds of the first world and is kept by every step holds of the last.
LEMMA LeadsIn ==
    ASSUME NEW h, NEW W, NEW T, NEW w \in W, NEW does \in Seq(T), NEW r,
           Leads(h, w, does, r),
           \A x \in W, st \in T : x.ok => Run(x, h, st) \in W
    PROVE  r \in W
  <1>1. PICK g : Trace(h, g, w, does) /\ g[Len(does)] = r
    BY DEF Leads
  <1>2. Len(does) \in Nat /\ \A i \in 1..Len(does) : does[i] \in T
    OBVIOUS
  <1> DEFINE S == {n \in Nat : n <= Len(does) => g[n] \in W}
  <1>3. 0 \in S
    BY <1>1 DEF Trace
  <1>4. ASSUME NEW n \in Nat, n \in S PROVE n + 1 \in S
    <2>1. SUFFICES ASSUME n + 1 <= Len(does) PROVE g[n + 1] \in W
      OBVIOUS
    <2>2. n + 1 \in 1..Len(does) /\ g[n] \in W /\ (n + 1) - 1 = n
      BY <1>2, <1>4, <2>1
    <2>3. g[n + 1] = Proceed(h, g[n], does[n + 1])
      BY <1>1, <2>2 DEF Trace
    <2> QED BY <1>2, <2>2, <2>3 DEF Proceed
  <1>5. Nat \subseteq S
    <2> HIDE DEF S
    <2> QED BY <1>3, <1>4, SetInduction
  <1> QED BY <1>1, <1>2, <1>5

\* A call that has failed takes no further step.
LEMMA LeadsFailed ==
    ASSUME NEW h, NEW w, NEW does \in Script, NEW r, Leads(h, w, does, r), ~w.ok
    PROVE  r = w
  <1>1. \A x \in {w}, st \in StepOf : x.ok => Run(x, h, st) \in {w}
    OBVIOUS
  <1>2. w \in {w} /\ does \in Seq(StepOf)
    BY DEF Script
  <1> DEFINE W == {w}
             T == StepOf
  <1>3. /\ w \in W /\ does \in Seq(T)
        /\ \A x \in W, st \in T : x.ok => Run(x, h, st) \in W
    BY <1>1, <1>2
  <1> HIDE DEF W, T
  <1>4. r \in W
    BY <1>3, LeadsIn
  <1> QED BY <1>4 DEF W

-----------------------------------------------------------------------------
(* What one step does to the fields authority is made of.                  *)

\* The world r is w after event e; w after a permit was issued to h.
Taken(w, e, r) ==
    LET s == w.body.safety
        n == After(s, e) IN
    /\ r.body.safety = n
    /\ r.body.epoch = IF Revokes(s, n, e) THEN bump_authority(w.body.epoch) ELSE w.body.epoch
    /\ \A g \in Handle : r.veh[g] = Demoted(w.veh[g], Loss(s, n, e))
    /\ r.ok = w.ok

Issued(w, h, left, standing, r) ==
    /\ r.body = w.body /\ r.ok = w.ok
    /\ r.veh[h].permit = [held |-> TRUE, epoch |-> w.body.epoch, left |-> left,
                          standing |-> standing]
    /\ \A g \in Handle :
         /\ r.veh[g].kind = w.veh[g].kind /\ r.veh[g].shadow = w.veh[g].shadow
         /\ r.veh[g].setpoint = w.veh[g].setpoint
         /\ g # h => r.veh[g] = w.veh[g]

LEMMA EventIs ==
    ASSUME NEW w, Coherent(w), NEW e
    PROVE  Taken(w, e, aerial_event(w, e))
  <1> DEFINE s == w.body.safety
             n == After(s, e)
             loss == Loss(s, n, e)
             ep == IF Revokes(s, n, e) THEN bump_authority(w.body.epoch) ELSE w.body.epoch
             cmd == IF n.failsafe \/ e \in {"Touchdown", "Recover"} THEN "none" ELSE w.body.command
             b == [safety |-> n, epoch |-> ep, command |-> cmd]
             x == [w EXCEPT !.body = b]
  <1> HIDE DEF s, n, loss, ep, cmd
  <1>1. aerial_event(w, e) = Suffer(x, loss)
    BY DEF aerial_event, s, n, loss, ep, cmd
  <1>2. x = [body |-> b, veh |-> w.veh, ok |-> w.ok]
    BY DEF Coherent, WorldType
  <1>3. aerial_event(w, e) =
          [body |-> [safety |-> n, epoch |-> ep, command |-> Downgrade(cmd, loss)],
           veh |-> [g \in Handle |-> Demoted(w.veh[g], loss)], ok |-> w.ok]
    BY <1>1, <1>2, SufferIs
  <1> DEFINE r == aerial_event(w, e)
  <1>4. /\ r.body.safety = n /\ r.body.epoch = ep /\ r.ok = w.ok
        /\ \A g \in Handle : r.veh[g] = Demoted(w.veh[g], loss)
    BY <1>3
  <1> HIDE DEF r
  <1>5. Taken(w, e, r)
    BY <1>4 DEF Taken, s, n, loss, ep
  <1> QED BY <1>5 DEF r

LEMMA DemotedIs ==
    ASSUME NEW v \in Vehicle, NEW loss
    PROVE  /\ Demoted(v, loss).kind = v.kind
           /\ Demoted(v, loss).shadow = v.shadow
           /\ Demoted(v, loss).permit.held = v.permit.held
           /\ Demoted(v, loss).permit.epoch = v.permit.epoch
           /\ Demoted(v, loss).permit.standing = Downgrade(v.permit.standing, loss)
           /\ Demoted(v, loss).setpoint = Downgrade(v.setpoint, loss)
  BY DEF Demoted, Vehicle, Permit

\* The steps that touch neither a kernel nor an epoch nor a permit's standing.
Quiet == {"epoch", "lease", "heartbeat", "unrevoked", "sensors", "preflight", "ready",
          "refused", "stage", "unstage", "flush", "clear", "granted", "cut"}

SamePermit(p, q) == p.held = q.held /\ p.epoch = q.epoch /\ p.standing = q.standing

SameStanding(w, r) ==
    /\ r.body.safety = w.body.safety /\ r.body.epoch = w.body.epoch
    /\ \A g \in Handle :
         /\ r.veh[g].kind = w.veh[g].kind /\ r.veh[g].shadow = w.veh[g].shadow
         /\ SamePermit(r.veh[g].permit, w.veh[g].permit)

LEMMA AdvanceIs ==
    ASSUME NEW w, Coherent(w)
    PROVE  /\ SameStanding(w, Advance(w)) /\ Advance(w).ok = w.ok
           /\ \A g \in Handle : Advance(w).veh[g].setpoint = w.veh[g].setpoint
  <1>1. Advance(w).body = w.body /\ Advance(w).ok = w.ok
        /\ Advance(w).veh = [g \in Handle |-> Aged(w.veh[g])]
    BY DEF Advance, Coherent, WorldType
  <1>2. ASSUME NEW v \in Vehicle
        PROVE  /\ Aged(v).kind = v.kind /\ Aged(v).shadow = v.shadow
               /\ SamePermit(Aged(v).permit, v.permit) /\ Aged(v).setpoint = v.setpoint
    BY DEF Aged, Vehicle, Permit, SamePermit
  <1>3. \A g \in Handle : w.veh[g] \in Vehicle
    BY FieldsCoherent
  <1> QED BY <1>1, <1>2, <1>3 DEF SameStanding

LEMMA CommandIs ==
    ASSUME NEW w, Coherent(w), NEW c
    PROVE  LET r == [w EXCEPT !.body.command = c] IN
           SameStanding(w, r) /\ r.ok = w.ok /\ r.veh = w.veh
  BY DEF Coherent, WorldType, Body, SameStanding, SamePermit

\* The world in which handle h has the setpoint c staged.
Staging(w, h, c) == [w EXCEPT !.veh[h].setpoint = c]

LEMMA SetpointIs ==
    ASSUME NEW w, Coherent(w), NEW h \in Handle, NEW c
    PROVE  LET r == Staging(w, h, c) IN
           /\ SameStanding(w, r) /\ r.ok = w.ok /\ r.body = w.body
           /\ \A g \in Handle : r.veh[g].setpoint = IF g = h THEN c ELSE w.veh[g].setpoint
  BY DEF Coherent, WorldType, Vehicle, SameStanding, SamePermit, Staging

LEMMA QuietIs ==
    ASSUME NEW w, Coherent(w), NEW h \in Handle, NEW st \in StepOf, st.op \in Quiet
    PROVE  LET r == Run(w, h, st) IN
           /\ SameStanding(w, r)
           /\ \A g \in Handle :
                r.veh[g].setpoint =
                  CASE g = h /\ st.op = "stage"   -> w.veh[h].permit.standing
                    [] g = h /\ st.op = "unstage" -> "none"
                    [] OTHER -> w.veh[g].setpoint
  <1> DEFINE r == Run(w, h, st)
  <1>0. \A x \in {w, Refuse(w)} : SameStanding(w, x) /\ x.veh = w.veh /\ x.body = w.body
    BY DEF Refuse, Coherent, WorldType, SameStanding, SamePermit
  <1>1. CASE st.op \in {"epoch", "lease", "heartbeat", "unrevoked", "sensors",
                       "preflight", "ready", "refused"}
    <2>1. r \in {w, Refuse(w)}
      BY <1>1 DEF Run, Require
    <2> HIDE DEF r
    <2>2. SameStanding(w, r) /\ r.veh = w.veh
      BY <1>0, <2>1
    <2> QED BY <1>1, <2>2 DEF r
  <1>2. CASE st.op = "stage"
    <2> DEFINE c == w.veh[h].permit.standing
               x == Staging(w, h, c)
    <2>1. r = x
      BY <1>2 DEF Run, Staging
    <2> HIDE DEF c
    <2>2. /\ SameStanding(w, x)
          /\ \A g \in Handle : x.veh[g].setpoint = IF g = h THEN c ELSE w.veh[g].setpoint
      BY SetpointIs
    <2> HIDE DEF x, r
    <2>3. /\ SameStanding(w, r)
          /\ \A g \in Handle : r.veh[g].setpoint = IF g = h THEN c ELSE w.veh[g].setpoint
      BY <2>1, <2>2
    <2> QED BY <1>2, <2>3 DEF r, c
  <1>3. CASE st.op = "unstage"
    <2> DEFINE x == Staging(w, h, "none")
    <2>1. r = x
      BY <1>3 DEF Run, Staging
    <2>2. /\ SameStanding(w, x)
          /\ \A g \in Handle : x.veh[g].setpoint = IF g = h THEN "none" ELSE w.veh[g].setpoint
      BY SetpointIs
    <2> HIDE DEF x, r
    <2>3. /\ SameStanding(w, r)
          /\ \A g \in Handle : r.veh[g].setpoint = IF g = h THEN "none" ELSE w.veh[g].setpoint
      BY <2>1, <2>2
    <2> QED BY <1>3, <2>3 DEF r
  <1>4. CASE st.op \in {"flush", "clear", "granted", "cut"}
    <2> DEFINE u == [w EXCEPT !.body.command = "none"]
               x == [w EXCEPT !.body.command = w.veh[h].setpoint]
    <2>1. \/ r = w \/ r = u \/ r = x \/ r = Advance(w) \/ r = Advance(u)
      BY <1>4 DEF Run
    <2>2. w.veh[h].setpoint \in Setpoint /\ "none" \in Setpoint
      BY FieldsCoherent DEF Vehicle, Setpoint
    <2>3. Coherent(u) /\ SameStanding(w, u) /\ u.veh = w.veh
          /\ SameStanding(w, x) /\ x.veh = w.veh
      BY <2>2, CommandCoherent, CommandIs
    <2> HIDE DEF r, u, x
    <2>4. \A y \in {w, u} : /\ SameStanding(y, Advance(y))
                            /\ \A g \in Handle : Advance(y).veh[g].setpoint = y.veh[g].setpoint
      BY <2>3, AdvanceIs
    <2>5. SameStanding(w, Advance(u)) /\ SameStanding(w, Advance(w)) /\ SameStanding(w, w)
      BY <2>3, <2>4 DEF SameStanding, SamePermit
    <2>6. SameStanding(w, r) /\ \A g \in Handle : r.veh[g].setpoint = w.veh[g].setpoint
      BY <2>1, <2>3, <2>4, <2>5
    <2> QED BY <1>4, <2>6 DEF r
  <1> QED BY <1>1, <1>2, <1>3, <1>4 DEF Quiet

LEMMA ShadowIs ==
    ASSUME NEW w, Coherent(w), NEW h \in Handle, NEW s
    PROVE  LET r == [w EXCEPT !.veh[h].shadow = s] IN
           /\ r.body = w.body /\ r.ok = w.ok
           /\ \A g \in Handle :
                /\ r.veh[g].kind = w.veh[g].kind /\ r.veh[g].permit = w.veh[g].permit
                /\ r.veh[g].setpoint = w.veh[g].setpoint
                /\ r.veh[g].shadow = IF g = h THEN s ELSE w.veh[g].shadow
  BY DEF Coherent, WorldType, Vehicle

LEMMA IssueIs ==
    ASSUME NEW w, Coherent(w), NEW h \in Handle, NEW left, NEW standing
    PROVE  Issued(w, h, left, standing, issue(w, h, left, standing))
  BY DEF Issued, issue, Coherent, WorldType, Vehicle

LEMMA RevokeIs ==
    ASSUME NEW w, Coherent(w)
    PROVE  LET r == [Suffer(w, "lost") EXCEPT !.body.epoch = bump_authority(@)] IN
           /\ r.body.safety = w.body.safety /\ r.ok = w.ok
           /\ r.body.epoch = bump_authority(w.body.epoch)
           /\ r.veh = [g \in Handle |-> Demoted(w.veh[g], "lost")]
           /\ \A g \in Handle : r.veh[g] = Demoted(w.veh[g], "lost")
  BY DEF Suffer, Coherent, WorldType, Body

-----------------------------------------------------------------------------
(* Permits that count agree with the plant, the shadow and the typestate.  *)

\* Issued at the plant's epoch, and no touchdown since.
Live(w, g) ==
    /\ w.veh[g].permit.held /\ w.veh[g].permit.epoch = w.body.epoch
    /\ w.veh[g].permit.standing = "now"

Flying(s) == s.armed /\ ~s.failsafe

\* What a permit of g promises, but for the typestate of handle h, which is
\* given at the end of its call.
AgreesBut(w, h) ==
    w.body.epoch < EpochMax =>
      \A g \in Handle : Live(w, g) =>
        /\ Flying(w.body.safety) /\ Flying(w.veh[g].shadow)
        /\ g # h => grants_actuation(w.veh[g].kind)

Agrees(w) ==
    w.body.epoch < EpochMax =>
      \A g \in Handle : Live(w, g) =>
        /\ Flying(w.body.safety) /\ Flying(w.veh[g].shadow)
        /\ grants_actuation(w.veh[g].kind)

Consistent == {w \in WorldType : Coherent(w) /\ Agrees(w)}

\* The events after which a kernel that was armed and clear still is.
KeepsFlying == Event \ {"Disconnect", "Disarm", "Touchdown", "TriggerFailsafe",
                        "ImuUnhealthy", "EstimatorInvalid", "HeartbeatStale"}

LEMMA KeptFlying ==
    ASSUME NEW s, Sound(s), NEW e \in KeepsFlying, Flying(s)
    PROVE  Flying(After(s, e))
  BY AfterAuthority DEF KeepsFlying, Flying, Sound

LEMMA DowngradeNow ==
    ASSUME NEW tag, NEW loss \in {"lost", "landed", "none"}, Downgrade(tag, loss) = "now"
    PROVE  tag = "now" /\ loss = "none"
  BY DEF Downgrade

LEMMA BumpUp ==
    ASSUME NEW epoch \in 0..EpochMax
    PROVE  /\ bump_authority(epoch) \in 0..EpochMax /\ epoch <= bump_authority(epoch)
           /\ bump_authority(epoch) < EpochMax => epoch < bump_authority(epoch)
  BY EpochMaxAssumption DEF bump_authority

\* If the demoted permit counts, the permit did, nothing was lost, and the
\* epoch has not moved.
LEMMA LiveDemoted ==
    ASSUME NEW w, Coherent(w), NEW r, NEW g \in Handle, NEW loss \in {"lost", "landed", "none"},
           r.veh[g] = Demoted(w.veh[g], loss), Live(r, g),
           r.body.epoch \in 0..EpochMax, w.body.epoch <= r.body.epoch
    PROVE  Live(w, g) /\ loss = "none" /\ r.body.epoch = w.body.epoch
  <1>1. /\ w.veh[g] \in Vehicle /\ Ordered(w.veh[g].permit, w.body.epoch)
        /\ w.body.epoch \in 0..EpochMax
    BY FieldsCoherent
  <1>2. /\ w.veh[g].permit.held /\ w.veh[g].permit.epoch = r.body.epoch
        /\ Downgrade(w.veh[g].permit.standing, loss) = "now"
    BY <1>1, DemotedIs DEF Live
  <1>3. w.veh[g].permit.standing = "now" /\ loss = "none"
    BY <1>2, DowngradeNow
  <1>4. w.veh[g].permit.epoch <= w.body.epoch
    BY <1>1, <1>2 DEF Ordered
  <1> QED BY <1>1, <1>2, <1>3, <1>4 DEF Live

LEMMA BodyCoherent ==
    ASSUME NEW w, Coherent(w)
    PROVE  Sound(w.body.safety) /\ w.body.epoch \in 0..EpochMax
  BY DEF Coherent, WorldType, Body

LEMMA EventConsistent ==
    ASSUME NEW w \in Consistent, NEW e \in Event, Admits(w.body.safety, e)
    PROVE  aerial_event(w, e) \in Consistent
  <1> DEFINE s == w.body.safety
             n == After(s, e)
             loss == Loss(s, n, e)
             r == aerial_event(w, e)
  <1>1. Coherent(w) /\ Agrees(w)
    BY DEF Consistent
  <1>2. Coherent(r)
    BY <1>1, EventCoherent
  <1>3. /\ r.body.safety = n /\ \A g \in Handle : r.veh[g] = Demoted(w.veh[g], loss)
        /\ r.body.epoch \in {w.body.epoch, bump_authority(w.body.epoch)}
    <2>1. Taken(w, e, r)
      BY <1>1, EventIs
    <2> QED BY <2>1 DEF Taken
  <1>4. Sound(s) /\ w.body.epoch \in 0..EpochMax /\ loss \in {"lost", "landed", "none"}
    BY <1>1, BodyCoherent, LossValues
  <1>5. r.body.epoch \in 0..EpochMax /\ w.body.epoch <= r.body.epoch
    BY <1>3, <1>4, BumpUp
  <1>6. Sound(n)
    BY <1>4, AfterSound
  <1>7. loss = "none" /\ Flying(s) => Flying(n)
    <2>1. s \in SafetyState /\ n \in SafetyState
      BY <1>4, <1>6 DEF Sound
    <2> QED BY <2>1 DEF Loss, Flying, SafetyState
  <1> HIDE DEF r, n, s, loss
  <1>8. ASSUME r.body.epoch < EpochMax, NEW g \in Handle, Live(r, g)
        PROVE  /\ Flying(r.body.safety) /\ Flying(r.veh[g].shadow)
               /\ grants_actuation(r.veh[g].kind)
    <2>1. r.veh[g] = Demoted(w.veh[g], loss) /\ w.veh[g] \in Vehicle
      BY <1>1, <1>3, FieldsCoherent
    <2>2. Live(w, g) /\ loss = "none" /\ r.body.epoch = w.body.epoch
      BY <1>1, <1>4, <1>5, <1>8, <2>1, LiveDemoted
    <2>3. /\ Flying(w.body.safety) /\ Flying(w.veh[g].shadow)
          /\ grants_actuation(w.veh[g].kind)
      BY <1>1, <1>8, <2>2 DEF Agrees
    <2>4. r.veh[g].kind = w.veh[g].kind /\ r.veh[g].shadow = w.veh[g].shadow
      BY <2>1, DemotedIs
    <2>5. Flying(r.body.safety)
      BY <1>3, <1>7, <2>2, <2>3 DEF s
    <2> QED BY <2>3, <2>4, <2>5
  <1>9. Agrees(r)
    BY <1>8 DEF Agrees
  <1> QED BY <1>2, <1>9 DEF Consistent, Coherent, r

LEMMA SameConsistent ==
    ASSUME NEW w \in Consistent, NEW r, Coherent(r), SameStanding(w, r)
    PROVE  r \in Consistent
  <1>1. \A g \in Handle : Live(r, g) => Live(w, g)
    BY DEF SameStanding, SamePermit, Live
  <1>2. Agrees(r)
    BY <1>1 DEF Agrees, Consistent, SameStanding
  <1> QED BY <1>2 DEF Consistent, Coherent

\* A shadow takes an event that keeps it flying, or one that nobody's permit
\* depends on.
LEMMA ShadowConsistent ==
    ASSUME NEW w \in Consistent, NEW h \in Handle, NEW e \in Event,
           Admits(w.veh[h].shadow, e),
           e \in KeepsFlying \/ ~Flying(w.body.safety)
    PROVE  [w EXCEPT !.veh[h].shadow = After(w.veh[h].shadow, e)] \in Consistent
  <1> DEFINE n == After(w.veh[h].shadow, e)
             r == [w EXCEPT !.veh[h].shadow = n]
  <1>1. Coherent(w) /\ Agrees(w) /\ Sound(w.veh[h].shadow)
    BY FieldsCoherent DEF Consistent
  <1>2. Sound(n) /\ (e \in KeepsFlying /\ Flying(w.veh[h].shadow) => Flying(n))
    BY <1>1, AfterSound, KeptFlying
  <1> HIDE DEF n
  <1>3. Coherent(r)
    BY <1>1, <1>2, ShadowCoherent
  <1>4. /\ r.body = w.body
        /\ \A g \in Handle :
             /\ r.veh[g].kind = w.veh[g].kind /\ r.veh[g].permit = w.veh[g].permit
             /\ r.veh[g].shadow = IF g = h THEN n ELSE w.veh[g].shadow
    BY <1>1, ShadowIs
  <1> HIDE DEF r
  <1>5. \A g \in Handle : Live(r, g) => Live(w, g)
    BY <1>4 DEF Live
  <1>6. Agrees(r)
    BY <1>1, <1>2, <1>4, <1>5 DEF Agrees
  <1> QED BY <1>3, <1>6 DEF Consistent, Coherent, r, n

\* A permit is lost, or replaced by none.
LEMMA RevokeConsistent ==
    ASSUME NEW w \in Consistent
    PROVE  [Suffer(w, "lost") EXCEPT !.body.epoch = bump_authority(@)] \in Consistent
  <1> DEFINE r == [Suffer(w, "lost") EXCEPT !.body.epoch = bump_authority(@)]
  <1>1. Coherent(w)
    BY DEF Consistent
  <1>2. Coherent(r)
    BY <1>1, RevokeCoherent
  <1>3. r.veh = [g \in Handle |-> Demoted(w.veh[g], "lost")]
        /\ r.body.epoch = bump_authority(w.body.epoch)
    BY <1>1, RevokeIs
  <1>4. w.body.epoch \in 0..EpochMax
    BY <1>1, BodyCoherent
  <1> HIDE DEF r
  <1>5. \A g \in Handle : ~Live(r, g)
    BY <1>1, <1>3, <1>4, BumpUp, LiveDemoted
  <1>6. Agrees(r)
    BY <1>5 DEF Agrees
  <1> QED BY <1>2, <1>6 DEF Consistent, Coherent, r

LEMMA BindConsistent ==
    ASSUME NEW w \in Consistent, NEW h \in Handle, NEW s, Sound(s)
    PROVE  [w EXCEPT !.veh[h] = [w.veh[h] EXCEPT !.shadow = s, !.permit = NoPermit]]
             \in Consistent
  <1> DEFINE r == [w EXCEPT !.veh[h] = [w.veh[h] EXCEPT !.shadow = s, !.permit = NoPermit]]
  <1>1. Coherent(w) /\ Agrees(w)
    BY DEF Consistent
  <1>2. Coherent(r)
    BY <1>1, ShadowCoherent
  <1>3. /\ r.body = w.body
        /\ r.veh[h].permit = NoPermit
        /\ \A g \in Handle : g # h => r.veh[g] = w.veh[g]
    BY <1>1 DEF Coherent, WorldType, Vehicle
  <1> HIDE DEF r
  <1>4. \A g \in Handle : Live(r, g) => g # h /\ Live(w, g)
    BY <1>3, NoPermitType DEF Live
  <1>5. Agrees(r)
    BY <1>1, <1>3, <1>4 DEF Agrees
  <1> QED BY <1>2, <1>5 DEF Consistent, Coherent, r

\* A permit the epoch admits is renewed: it counts for what it counted before.
LEMMA RenewConsistent ==
    ASSUME NEW w \in Consistent, NEW h \in Handle, EpochCurrent(w, h),
           NEW left \in Nat \cup {Unbounded}
    PROVE  LET r == issue(w, h, left, Renewed(w.veh[h].permit.standing)) IN
           r \in Consistent /\ EpochCurrent(r, h)
  <1> DEFINE standing == Renewed(w.veh[h].permit.standing)
             r == issue(w, h, left, standing)
  <1>1. Coherent(w) /\ Agrees(w) /\ Ordered(w.veh[h].permit, w.body.epoch)
        /\ w.veh[h].permit.standing \in Standing /\ w.body.epoch \in 0..EpochMax
    BY FieldsCoherent DEF Consistent, Vehicle, Permit
  <1>2. standing \in Standing /\ standing # "lost"
    BY DEF Renewed, Standing
  <1>3. Coherent(r)
    BY <1>1, <1>2, IssueCoherent
  <1>4. w.body.epoch < EpochMax => w.veh[h].permit.standing # "lost"
    BY <1>1 DEF Ordered, EpochCurrent
  <1>5. w.body.epoch < EpochMax => standing = w.veh[h].permit.standing
    BY <1>1, <1>4 DEF Renewed, Standing
  <1> HIDE DEF standing
  <1>6. /\ r.body = w.body
        /\ r.veh[h].permit = [held |-> TRUE, epoch |-> w.body.epoch, left |-> left,
                              standing |-> standing]
        /\ \A g \in Handle :
             /\ r.veh[g].kind = w.veh[g].kind /\ r.veh[g].shadow = w.veh[g].shadow
             /\ g # h => r.veh[g] = w.veh[g]
    <2>1. Issued(w, h, left, standing, r)
      BY <1>1, IssueIs
    <2> QED BY <2>1 DEF Issued
  <1> HIDE DEF r
  <1>7. \A g \in Handle : w.body.epoch < EpochMax /\ Live(r, g) => Live(w, g)
    BY <1>5, <1>6 DEF Live, EpochCurrent
  <1>8. Agrees(r)
    BY <1>1, <1>6, <1>7 DEF Agrees
  <1>9. EpochCurrent(r, h)
    BY <1>6 DEF EpochCurrent
  <1> QED BY <1>3, <1>8, <1>9 DEF Consistent, Coherent, r, standing

\* The steps that need nothing of what came before them in their call.
Tame == {st \in StepOf : /\ st.op \notin {"issue", "reissue", "issue_bounded", "wrap"}
                         /\ st.op = "shadow" => st.e \in KeepsFlying}

LEMMA TameConsistent ==
    ASSUME NEW w \in Consistent, NEW h \in Handle, NEW st \in Tame
    PROVE  Run(w, h, st) \in Consistent
  <1> DEFINE v == w.veh[h]
             s == w.body.safety
             r == Run(w, h, st)
  <1>0. Coherent(w) /\ st \in StepOf /\ st.op \in StepName
        /\ (st.op \in {"plant", "attempt", "shadow"} => st.e \in Event)
    BY StepType DEF Tame, Consistent
  <1>1. CASE st.op \in Quiet
    BY <1>0, <1>1, QuietIs, RunCoherent, SameConsistent
  <1>2. Refuse(w) \in Consistent
    <2>1. Coherent(Refuse(w)) /\ SameStanding(w, Refuse(w))
      BY <1>0, RequireCoherent DEF Refuse, Coherent, WorldType, SameStanding, SamePermit
    <2> QED BY <2>1, SameConsistent
  <1>3. CASE st.op = "plant"
    <2>1. r = IF Admits(s, st.e) THEN aerial_event(w, st.e) ELSE Refuse(w)
      BY <1>3 DEF Run
    <2> QED BY <1>0, <1>2, <1>3, <2>1, EventConsistent
  <1>4. CASE st.op = "attempt"
    <2>1. r = IF Admits(s, st.e) THEN aerial_event(w, st.e) ELSE w
      BY <1>4 DEF Run
    <2> QED BY <1>0, <1>4, <2>1, EventConsistent
  <1>5. CASE st.op = "shadow"
    <2>1. r = IF Admits(v.shadow, st.e)
                THEN [w EXCEPT !.veh[h].shadow = After(v.shadow, st.e)] ELSE Refuse(w)
      BY <1>5 DEF Run
    <2>2. st.e \in Event /\ st.e \in KeepsFlying
      BY <1>0, <1>5 DEF Tame
    <2> QED BY <1>2, <2>1, <2>2, ShadowConsistent
  <1>6. CASE st.op = "revoke"
    <2>1. r = [Suffer(w, "lost") EXCEPT !.body.epoch = bump_authority(@)]
      BY <1>6 DEF Run
    <2> QED BY <2>1, RevokeConsistent
  <1>7. CASE st.op \in {"new", "read"}
    <2>1. PICK x \in {Disconnected, s} :
            r = [w EXCEPT !.veh[h] = [w.veh[h] EXCEPT !.shadow = x, !.permit = NoPermit]]
      BY <1>7 DEF Run
    <2>2. Sound(x)
      BY <1>0, <2>1, DisconnectedSound, BodyCoherent
    <2>3. [w EXCEPT !.veh[h] = [w.veh[h] EXCEPT !.shadow = x, !.permit = NoPermit]]
            \in Consistent
      BY <2>2, BindConsistent
    <2> QED BY <2>1, <2>3
  <1> QED BY <1>0, <1>1, <1>3, <1>4, <1>5, <1>6, <1>7 DEF Tame, StepName, Quiet

-----------------------------------------------------------------------------
(* What a step leaves alone.                                               *)

\* The events of a flight: they revoke nothing, and nothing is lost by them.
Flight == {"HeartbeatFresh", "MissionCommand", "EnterOffboard", "EnableActuators",
           "Takeoff", "ReachedAltitude", "Land"}

LEMMA FlightKeeps ==
    ASSUME NEW s, Sound(s), NEW e \in Flight, Admits(s, e)
    PROVE  ~Revokes(s, After(s, e), e) /\ Loss(s, After(s, e), e) = "none"
  <1>1. s \in SafetyState /\ e \in Event
    BY DEF Sound, Flight, Event
  <1>2. /\ After(s, e).failsafe => s.failsafe
        /\ s.armed => After(s, e).armed
    BY <1>1, AfterAuthority DEF Flight
  <1> QED BY <1>2 DEF Revokes, Loss, event_revokes_authority, Flight

LEMMA DowngradeNone ==
    ASSUME NEW loss
    PROVE  /\ Downgrade("none", loss) = "none"
           /\ \A tag : Downgrade(tag, "none") = tag
           /\ \A tag : loss # "lost" /\ tag # "lost" => Downgrade(tag, loss) # "lost"
  BY DEF Downgrade

\* A step retypes no handle, and puts no setpoint where there is none but where
\* it stages the one of its own handle.
LEMMA RunFrame ==
    ASSUME NEW w, Coherent(w), NEW h \in Handle, NEW st \in StepOf, NEW g \in Handle
    PROVE  LET r == Run(w, h, st) IN
           /\ r.veh[g].kind = w.veh[g].kind
           /\ w.veh[g].setpoint = "none" /\ (g # h \/ st.op # "stage")
                => r.veh[g].setpoint = "none"
  <1> DEFINE v == w.veh[h]
             s == w.body.safety
             r == Run(w, h, st)
             Framed(x) == /\ x.veh[g].kind = w.veh[g].kind
                          /\ w.veh[g].setpoint = "none" => x.veh[g].setpoint = "none"
  <1>0. /\ st.op \in StepName /\ w.veh \in [Handle -> Vehicle] /\ w.veh[g] \in Vehicle
        /\ (st.op \in {"plant", "attempt", "shadow"} => st.e \in Event)
    BY StepType, FieldsCoherent DEF Coherent, WorldType
  <1>1. CASE st.op \in Quiet
    <2>1. SameStanding(w, r)
      BY <1>1, QuietIs
    <2>2. w.veh[g].setpoint = "none" /\ (g # h \/ st.op # "stage")
            => r.veh[g].setpoint = "none"
      BY <1>1, QuietIs
    <2> QED BY <2>1, <2>2 DEF SameStanding
  <1>2. Framed(w) /\ Framed(Refuse(w))
    BY DEF Refuse, Coherent, WorldType
  <1>3. ASSUME NEW e PROVE Framed(aerial_event(w, e))
    <2>0. Taken(w, e, aerial_event(w, e))
      BY EventIs
    <2>1. \E loss : aerial_event(w, e).veh[g] = Demoted(w.veh[g], loss)
      BY <2>0 DEF Taken
    <2> QED BY <1>0, <2>1, DemotedIs, DowngradeNone
  <1>4. CASE st.op = "plant"
    <2>1. r = IF Admits(s, st.e) THEN aerial_event(w, st.e) ELSE Refuse(w)
      BY <1>4 DEF Run
    <2> QED BY <1>2, <1>3, <2>1
  <1>5. CASE st.op = "attempt"
    <2>1. r = IF Admits(s, st.e) THEN aerial_event(w, st.e) ELSE w
      BY <1>5 DEF Run
    <2> QED BY <1>2, <1>3, <2>1
  <1>6. CASE st.op = "shadow"
    <2>1. r = IF Admits(v.shadow, st.e)
                THEN [w EXCEPT !.veh[h].shadow = After(v.shadow, st.e)] ELSE Refuse(w)
      BY <1>6 DEF Run
    <2>2. Framed([w EXCEPT !.veh[h].shadow = After(v.shadow, st.e)])
      BY ShadowIs
    <2> QED BY <1>2, <2>1, <2>2
  <1>7. CASE st.op = "revoke"
    <2>1. r = [Suffer(w, "lost") EXCEPT !.body.epoch = bump_authority(@)]
      BY <1>7 DEF Run
    <2> DEFINE x == [Suffer(w, "lost") EXCEPT !.body.epoch = bump_authority(@)]
    <2>2. x.veh[g] = Demoted(w.veh[g], "lost")
      BY RevokeIs
    <2> HIDE DEF x
    <2>3. r.veh[g] = Demoted(w.veh[g], "lost")
      BY <2>1, <2>2 DEF x
    <2> QED BY <1>0, <2>3, DemotedIs, DowngradeNone
  <1>8. CASE st.op \in {"new", "read"}
    <2>1. PICK x : r = [w EXCEPT !.veh[h] = [w.veh[h] EXCEPT !.shadow = x, !.permit = NoPermit]]
      BY <1>8 DEF Run
    <2>2. Framed([w EXCEPT !.veh[h] = [w.veh[h] EXCEPT !.shadow = x, !.permit = NoPermit]])
      BY <1>0 DEF Coherent, WorldType, Vehicle
    <2> QED BY <2>1, <2>2
  <1>9. CASE st.op \in {"issue", "reissue", "issue_bounded", "wrap"}
    <2>1. r = w \/ \E left, standing : r = issue(w, h, left, standing)
      BY <1>9 DEF Run
    <2>2. ASSUME NEW left, NEW standing PROVE Framed(issue(w, h, left, standing))
      <3>1. Issued(w, h, left, standing, issue(w, h, left, standing))
        BY IssueIs
      <3> QED BY <3>1 DEF Issued
    <2> QED BY <1>2, <2>1, <2>2
  <1> QED BY <1>0, <1>1, <1>4, <1>5, <1>6, <1>7, <1>8, <1>9 DEF StepName, Quiet

\* The steps of a call between its check of the permit and its landing.
Calm == {st \in StepOf :
           /\ st.op \in Quiet \cup {"plant", "shadow", "reissue", "issue_bounded"}
           /\ st.op = "plant" => st.e \in Flight
           /\ st.op = "shadow" => st.e \in KeepsFlying}

\* They leave the permit of their handle current and their world consistent,
\* and they stage no setpoint of lost authority.
Current(h) == {w \in Consistent : w.ok => EpochCurrent(w, h)}
Clean(h) == {w \in Consistent : w.body.epoch < EpochMax => w.veh[h].setpoint # "lost"}

LEMMA CurrentNotLost ==
    ASSUME NEW w \in Consistent, NEW h \in Handle, EpochCurrent(w, h), w.body.epoch < EpochMax
    PROVE  w.veh[h].permit.standing # "lost"
  <1>1. Ordered(w.veh[h].permit, w.body.epoch) /\ w.body.epoch \in 0..EpochMax
    BY FieldsCoherent DEF Consistent
  <1> QED BY <1>1 DEF Ordered, EpochCurrent

LEMMA CalmKeeps ==
    ASSUME NEW h \in Handle, NEW w \in Current(h), w.ok, NEW st \in Calm
    PROVE  /\ Run(w, h, st) \in Current(h)
           /\ w \in Clean(h) => Run(w, h, st) \in Clean(h)
  <1> DEFINE v == w.veh[h]
             s == w.body.safety
             r == Run(w, h, st)
  <1>0. /\ w \in Consistent /\ Coherent(w) /\ EpochCurrent(w, h) /\ st \in StepOf
        /\ v \in Vehicle /\ Sound(s)
        /\ (st.op \in {"plant", "attempt", "shadow"} => st.e \in Event)
    BY StepType, FieldsCoherent DEF Calm, Current, Consistent
  <1>1. CASE st.op \in {"reissue", "issue_bounded"}
    <2>1. PICK left \in Nat \cup {Unbounded} :
            r = issue(w, h, left, Renewed(v.permit.standing))
      BY <1>1, LeaseAssumption DEF Run
    <2>2. r \in Consistent /\ EpochCurrent(r, h)
      BY <1>0, <2>1, RenewConsistent
    <2>3. Issued(w, h, left, Renewed(v.permit.standing), r)
      BY <1>0, <2>1, IssueIs
    <2>4. r.body = w.body /\ r.veh[h].setpoint = v.setpoint
      BY <2>3 DEF Issued
    <2> HIDE DEF r
    <2>5. r \in Current(h) /\ (w \in Clean(h) => r \in Clean(h))
      BY <2>2, <2>4 DEF Current, Clean
    <2> QED BY <2>5 DEF r
  <1>2. st.op \notin {"reissue", "issue_bounded"} => r \in Consistent
    <2>1. st.op \notin {"reissue", "issue_bounded"} => st \in Tame
      BY DEF Calm, Tame, Quiet
    <2> QED BY <1>0, <2>1, TameConsistent
  <1>3. CASE st.op \in Quiet
    <2>1. SameStanding(w, r) /\ r.veh[h].setpoint \in {v.permit.standing, "none", v.setpoint}
      BY <1>0, <1>3, QuietIs
    <2>2. EpochCurrent(r, h)
      BY <1>0, <2>1 DEF SameStanding, SamePermit, EpochCurrent
    <2>3. w.body.epoch < EpochMax => v.permit.standing # "lost"
      BY <1>0, CurrentNotLost
    <2>4. r \in Consistent
      BY <1>2, <1>3 DEF Quiet
    <2> QED BY <2>1, <2>2, <2>3, <2>4 DEF Current, Clean, SameStanding
  <1>4. Refuse(w) \in Consistent /\ ~Refuse(w).ok
        /\ Refuse(w).body = w.body /\ Refuse(w).veh = w.veh
    <2>1. Coherent(Refuse(w)) /\ SameStanding(w, Refuse(w))
      BY <1>0, RequireCoherent DEF Refuse, Coherent, WorldType, SameStanding, SamePermit
    <2> QED BY <1>0, <2>1, SameConsistent DEF Refuse, Coherent, WorldType
  <1>5. CASE st.op = "plant"
    <2>1. r = IF Admits(s, st.e) THEN aerial_event(w, st.e) ELSE Refuse(w)
      BY <1>5 DEF Run
    <2>2. CASE Admits(s, st.e)
      <3>1. st.e \in Flight
        BY <1>5 DEF Calm
      <3>2. ~Revokes(s, After(s, st.e), st.e) /\ Loss(s, After(s, st.e), st.e) = "none"
        BY <1>0, <2>2, <3>1, FlightKeeps
      <3> DEFINE x == aerial_event(w, st.e)
      <3>5. Taken(w, st.e, x)
        BY <1>0, EventIs
      <3> HIDE DEF x
      <3>6. x.body.epoch = w.body.epoch /\ x.veh[h] = Demoted(v, "none")
        BY <3>2, <3>5 DEF Taken
      <3>3. r.body.epoch = w.body.epoch /\ r.veh[h] = Demoted(v, "none")
        BY <2>1, <2>2, <3>6 DEF x
      <3>4. /\ r.veh[h].permit.held = v.permit.held
            /\ r.veh[h].permit.epoch = v.permit.epoch
            /\ r.veh[h].setpoint = v.setpoint
        BY <1>0, <3>3, DemotedIs, DowngradeNone
      <3> QED BY <1>0, <1>2, <1>5, <3>3, <3>4 DEF Current, Clean, EpochCurrent
    <2>3. CASE ~Admits(s, st.e)
      BY <1>4, <2>1, <2>3 DEF Current, Clean
    <2> QED BY <2>2, <2>3
  <1>6. CASE st.op = "shadow"
    <2> DEFINE x == [w EXCEPT !.veh[h].shadow = After(v.shadow, st.e)]
    <2>1. r = IF Admits(v.shadow, st.e) THEN x ELSE Refuse(w)
      BY <1>6 DEF Run
    <2>2. /\ x.body = w.body /\ x.veh[h].permit = v.permit
          /\ x.veh[h].setpoint = v.setpoint
      BY <1>0, ShadowIs
    <2> HIDE DEF x
    <2>3. r = x => r \in Current(h) /\ (w \in Clean(h) => r \in Clean(h))
      BY <1>0, <1>2, <1>6, <2>2 DEF Current, Clean, EpochCurrent
    <2>4. r = Refuse(w) => r \in Current(h) /\ (w \in Clean(h) => r \in Clean(h))
      BY <1>4 DEF Current, Clean
    <2> QED BY <2>1, <2>3, <2>4
  <1> QED BY <1>1, <1>3, <1>5, <1>6 DEF Calm

-----------------------------------------------------------------------------
(* The calls, by what their scripts begin with and are made of.            *)

\* From a world in P, the script leads to worlds in Q.
Brings(h, P, does, Q) == \A w \in P : \A r : Leads(h, w, does, r) => r \in Q

LEMMA BringsSeq ==
    ASSUME NEW h, NEW P, NEW Q, NEW R, NEW a \in Script, NEW b \in Script,
           Brings(h, P, a, Q), Brings(h, Q, b, R)
    PROVE  Brings(h, P, a \o b, R)
  BY LeadsSplit DEF Brings

LEMMA BringsOne ==
    ASSUME NEW h, NEW P, NEW Q, NEW st,
           \A w \in P : IF w.ok THEN Run(w, h, st) \in Q ELSE w \in Q
    PROVE  Brings(h, P, <<st>>, Q)
  <1> SUFFICES ASSUME NEW w \in P, NEW r, Leads(h, w, <<st>>, r) PROVE r \in Q
    BY DEF Brings
  <1>1. r = Proceed(h, w, st)
    BY LeadsOne
  <1> QED BY <1>1 DEF Proceed

LEMMA BringsIn ==
    ASSUME NEW h, NEW W, NEW T, NEW does \in Seq(T),
           \A w \in W, st \in T : w.ok => Run(w, h, st) \in W
    PROVE  Brings(h, W, does, W)
  <1> SUFFICES ASSUME NEW w \in W, NEW r, Leads(h, w, does, r) PROVE r \in W
    BY DEF Brings
  <1> QED BY LeadsIn

LEMMA Assoc ==
    ASSUME NEW T, NEW a \in Seq(T), NEW b \in Seq(T), NEW c \in Seq(T)
    PROVE  (a \o b) \o c = a \o (b \o c)
  OBVIOUS

LEMMA OneIn ==
    ASSUME NEW T
    PROVE  /\ \A op : [op |-> op, e |-> "none"] \in T => Op(op) \in Seq(T)
           /\ \A op, e : [op |-> op, e |-> e] \in T => On(op, e) \in Seq(T)
  BY DEF Op, On

LEMMA InKinds ==
    /\ \A op \in StepName \ {"plant", "attempt", "shadow"} : [op |-> op, e |-> "none"] \in StepOf
    /\ \A op \in {"plant", "attempt", "shadow"}, e \in Event : [op |-> op, e |-> e] \in StepOf
  <1>1. "none" \notin Event
    BY DEF Event
  <1> QED BY <1>1 DEF StepOf, StepName

LEMMA CalmPieces ==
    /\ \A op \in Quiet \cup {"reissue", "issue_bounded"} : Op(op) \in Seq(Calm)
    /\ \A e \in Flight : Plant(e) \in Seq(Calm) /\ Gated(e) \in Seq(Calm)
    /\ \A e \in KeepsFlying : Shadow(e) \in Seq(Calm)
  <1>1. ASSUME NEW op \in Quiet \cup {"reissue", "issue_bounded"}
        PROVE  Op(op) \in Seq(Calm)
    <2>1. [op |-> op, e |-> "none"] \in StepOf
      BY InKinds DEF Quiet, StepName
    <2>2. [op |-> op, e |-> "none"] \in Calm
      BY <2>1 DEF Calm, Quiet
    <2> QED BY <2>2, OneIn
  <1>2. ASSUME NEW e \in Flight
        PROVE  Plant(e) \in Seq(Calm)
    <2>1. [op |-> "plant", e |-> e] \in StepOf
      BY InKinds DEF Flight, Event
    <2>2. [op |-> "plant", e |-> e] \in Calm
      BY <2>1 DEF Calm
    <2> QED BY <2>2, OneIn DEF Plant
  <1>3. ASSUME NEW e \in KeepsFlying
        PROVE  Shadow(e) \in Seq(Calm)
    <2>1. [op |-> "shadow", e |-> e] \in StepOf
      BY InKinds DEF KeepsFlying
    <2>2. [op |-> "shadow", e |-> e] \in Calm
      BY <2>1 DEF Calm
    <2> QED BY <2>2, OneIn DEF Shadow
  <1>4. Op("unrevoked") \in Seq(Calm)
    BY <1>1 DEF Quiet
  <1> QED BY <1>1, <1>2, <1>3, <1>4 DEF Gated

LEMMA CalmParts ==
    /\ require_permit \in Seq(Calm) /\ require_live_permit \in Seq(Calm)
    /\ accept_mission \in Seq(Calm) /\ Command \in Seq(Calm)
    /\ StartTakeoff \in Seq(Calm) /\ Airborne \in Seq(Calm)
    /\ \A o \in StepOutcome : tick_body(o) \in Seq(Calm)
  <1> USE CalmPieces
  <1>1. \A op \in {"epoch", "lease", "heartbeat", "stage", "flush", "granted", "cut", "refused"} :
          Op(op) \in Seq(Calm)
    BY DEF Quiet
  <1>2. \A e \in {"HeartbeatFresh", "MissionCommand", "Takeoff", "EnableActuators",
                  "ReachedAltitude"} :
          Plant(e) \in Seq(Calm) /\ Gated(e) \in Seq(Calm) /\ Shadow(e) \in Seq(Calm)
    BY DEF Flight, KeepsFlying, Event
  <1>3. require_permit \in Seq(Calm)
    BY <1>1 DEF require_permit
  <1>4. require_live_permit \in Seq(Calm)
    BY <1>1, <1>3 DEF require_live_permit
  <1>5. accept_mission \in Seq(Calm)
    BY <1>2 DEF accept_mission
  <1>6. admit_offboard_now \in Seq(Calm)
    BY <1>2, <1>4 DEF admit_offboard_now
  <1>7. Command \in Seq(Calm)
    BY <1>1, <1>5, <1>6 DEF Command
  <1>8. StartTakeoff \in Seq(Calm) /\ Airborne \in Seq(Calm)
    BY <1>2, <1>4 DEF StartTakeoff, Airborne
  <1>9. \A o \in StepOutcome : tick_body(o) \in Seq(Calm)
    BY <1>1 DEF tick_body, StepOutcome
  <1> QED BY <1>3, <1>4, <1>5, <1>7, <1>8, <1>9

\* The scripts that check the permit before anything else.
Guarded == {require_permit \o rest : rest \in Seq(Calm)}

LEMMA GuardedThen ==
    ASSUME NEW a \in Guarded, NEW b \in Seq(Calm)
    PROVE  a \o b \in Guarded
  <1>1. PICK rest \in Seq(Calm) : a = require_permit \o rest
    BY DEF Guarded
  <1>2. require_permit \in Seq(Calm)
    BY CalmParts
  <1>3. a \o b = require_permit \o (rest \o b) /\ rest \o b \in Seq(Calm)
    BY <1>1, <1>2, Assoc
  <1> QED BY <1>3 DEF Guarded

LEMMA GuardedCalls ==
    /\ EnterOffboard \in Guarded /\ EnterOffboard \o Op("issue_bounded") \in Guarded
    /\ require_live_permit \o Op("issue_bounded") \in Guarded
    /\ StartTakeoff \in Guarded /\ Airborne \in Guarded /\ Command \in Guarded
    /\ \A o \in StepOutcome : Climb(o) \in Guarded /\ EnterOffboard \o Climb(o) \in Guarded
    /\ begin_land_now.does \in Guarded
    /\ \A v : set_motor_thrust_now(v).does \in Guarded
  <1> USE GuardedThen
  <1>1. \A op \in {"heartbeat", "stage", "reissue", "issue_bounded", "lease", "epoch"} :
          Op(op) \in Seq(Calm)
    BY CalmPieces DEF Quiet
  <1>2. \A e \in {"HeartbeatFresh", "EnterOffboard", "Takeoff", "EnableActuators",
                  "ReachedAltitude", "Land", "MissionCommand"} :
          Plant(e) \in Seq(Calm) /\ Gated(e) \in Seq(Calm) /\ Shadow(e) \in Seq(Calm)
    BY CalmPieces DEF Flight, KeepsFlying, Event
  <1>3. require_permit \in Guarded
    <2>1. require_permit \o <<>> = require_permit /\ <<>> \in Seq(Calm)
      BY CalmParts
    <2> QED BY <2>1 DEF Guarded
  <1>4. require_live_permit \in Guarded
    BY <1>1, <1>3 DEF require_live_permit
  <1>5. EnterOffboard \in Guarded
    BY <1>1, <1>2, <1>3 DEF EnterOffboard
  <1>6. StartTakeoff \in Guarded /\ Airborne \in Guarded
    BY <1>2, <1>4 DEF StartTakeoff, Airborne
  <1>7. admit_offboard_now \in Guarded
    BY <1>2, <1>4 DEF admit_offboard_now
  <1>8. Command \in Guarded
    BY <1>1, <1>7, CalmParts DEF Command
  <1>9. ASSUME NEW o \in StepOutcome
        PROVE  /\ Climb(o) \in Guarded /\ Climb(o) \in Seq(Calm)
               /\ EnterOffboard \o Climb(o) \in Guarded
    <2>1. Climb(o) \in Guarded /\ Climb(o) \in Seq(Calm)
      BY <1>6, CalmParts DEF Climb
    <2> QED BY <1>5, <2>1
  <1>10. begin_land_now.does \in Guarded
    BY <1>2, <1>4 DEF begin_land_now, Call
  <1>11. ASSUME NEW v PROVE set_motor_thrust_now(v).does \in Guarded
    <2> DEFINE enable == IF v.shadow.actuators_enabled THEN <<>>
                         ELSE Shadow("EnableActuators") \o Gated("EnableActuators")
    <2>1. enable \in Seq(Calm)
      BY <1>2
    <2> HIDE DEF enable
    <2>2. require_live_permit \o enable \o Shadow("HeartbeatFresh")
            \o Shadow("MissionCommand") \o accept_mission \in Guarded
      BY <1>2, <1>4, <2>1, CalmParts
    <2> QED BY <2>2 DEF set_motor_thrust_now, Call, enable
  <1>12. EnterOffboard \o Op("issue_bounded") \in Guarded
         /\ require_live_permit \o Op("issue_bounded") \in Guarded
    BY <1>1, <1>4, <1>5
  <1> QED BY <1>5, <1>6, <1>8, <1>9, <1>10, <1>11, <1>12

-----------------------------------------------------------------------------
(* What the kinds of script do to the worlds they start from.              *)

LEMMA RunConsistentFails ==
    ASSUME NEW w \in Consistent
    PROVE  Refuse(w) \in Consistent /\ ~Refuse(w).ok
           /\ Refuse(w).body = w.body /\ Refuse(w).veh = w.veh
  <1>1. Coherent(Refuse(w)) /\ SameStanding(w, Refuse(w)) /\ Refuse(w).body = w.body
        /\ Refuse(w).veh = w.veh /\ ~Refuse(w).ok
    BY RequireCoherent DEF Refuse, Coherent, WorldType, SameStanding, SamePermit, Consistent
  <1> QED BY <1>1, SameConsistent

LEMMA GuardedKeeps ==
    ASSUME NEW h \in Handle, NEW does \in Guarded
    PROVE  /\ Brings(h, Consistent, does, Current(h))
           /\ Brings(h, Clean(h), does, Current(h) \cap Clean(h))
  <1>1. PICK rest \in Seq(Calm) : does = Op("epoch") \o Op("lease") \o rest
    BY DEF Guarded, require_permit
  <1>2. Op("epoch") \in Script /\ Op("lease") \in Script /\ rest \in Script
        /\ Op("lease") \in Seq(Calm) /\ Op("epoch") \in Seq(Calm)
    <2>1. "epoch" \in StepName /\ "lease" \in StepName /\ "epoch" \in Quiet /\ "lease" \in Quiet
      BY DEF StepName, Quiet
    <2>2. Op("lease") \in Seq(Calm) /\ Op("epoch") \in Seq(Calm)
      BY <2>1, CalmPieces
    <2>3. Calm \subseteq StepOf
      BY DEF Calm
    <2>4. \A c \in Seq(Calm) : c \in Seq(StepOf)
      BY <2>3
    <2> QED BY <2>2, <2>4 DEF Script
  <1>3. does = Op("epoch") \o (Op("lease") \o rest)
        /\ Op("lease") \o rest \in Seq(Calm) /\ Op("lease") \o rest \in Script
    <2> DEFINE e == Op("epoch")
               l == Op("lease")
    <2>1. does = (e \o l) \o rest
      BY <1>1
    <2>2. e \in Seq(StepOf) /\ l \in Seq(StepOf) /\ rest \in Seq(StepOf) /\ l \in Seq(Calm)
      BY <1>2 DEF Script
    <2> HIDE DEF e, l
    <2>3. (e \o l) \o rest = e \o (l \o rest)
      BY <2>2, Assoc
    <2>4. l \o rest \in Seq(Calm) /\ l \o rest \in Seq(StepOf)
      BY <2>2
    <2> QED BY <2>1, <2>3, <2>4 DEF e, l, Script
  <1>4. ASSUME NEW w \in Consistent, w.ok
        PROVE  LET r == Run(w, h, [op |-> "epoch", e |-> "none"]) IN
               /\ r \in Current(h)
               /\ w \in Clean(h) => r \in Clean(h)
    <2>1. Run(w, h, [op |-> "epoch", e |-> "none"]) = Require(w, EpochCurrent(w, h))
      BY DEF Run
    <2>2. CASE EpochCurrent(w, h)
      BY <2>1, <2>2 DEF Require, Current
    <2>3. CASE ~EpochCurrent(w, h)
      <3>1. Run(w, h, [op |-> "epoch", e |-> "none"]) = Refuse(w)
        BY <2>1, <2>3 DEF Require
      <3> QED BY <3>1, RunConsistentFails DEF Current, Clean
    <2> QED BY <2>2, <2>3
  <1>5. Brings(h, Consistent, Op("epoch"), Current(h))
    <2>1. \A w \in Consistent : IF w.ok THEN Run(w, h, [op |-> "epoch", e |-> "none"]) \in Current(h)
                                ELSE w \in Current(h)
      BY <1>4 DEF Current
    <2> QED BY <2>1, BringsOne DEF Op
  <1>6. Brings(h, Clean(h), Op("epoch"), Current(h) \cap Clean(h))
    <2>1. \A w \in Clean(h) : IF w.ok THEN Run(w, h, [op |-> "epoch", e |-> "none"]) \in Current(h) \cap Clean(h)
                                ELSE w \in Current(h) \cap Clean(h)
      BY <1>4 DEF Current, Clean
    <2> QED BY <2>1, BringsOne DEF Op
  <1>7. Brings(h, Current(h), Op("lease") \o rest, Current(h))
    BY <1>3, CalmKeeps, BringsIn
  <1>8. Brings(h, Current(h) \cap Clean(h), Op("lease") \o rest, Current(h) \cap Clean(h))
    <2>1. \A w \in Current(h) \cap Clean(h), st \in Calm :
            w.ok => Run(w, h, st) \in Current(h) \cap Clean(h)
      BY CalmKeeps
    <2> QED BY <1>3, <2>1, BringsIn
  <1> QED BY <1>2, <1>3, <1>5, <1>6, <1>7, <1>8, BringsSeq

LEMMA TameKeeps ==
    ASSUME NEW h \in Handle, NEW does \in Seq(Tame)
    PROVE  Brings(h, Consistent, does, Consistent)
  BY TameConsistent, BringsIn

\* A handle that is not typed for actuation has no permit that counts, and
\* keeps its typestate.
Unpowered(h) == {w \in Consistent : ~grants_actuation(w.veh[h].kind)}

LEMMA UnpoweredKeeps ==
    ASSUME NEW h \in Handle, NEW does \in Seq(Tame)
    PROVE  Brings(h, Unpowered(h), does, Unpowered(h))
  <1>1. ASSUME NEW w \in Unpowered(h), NEW st \in Tame PROVE Run(w, h, st) \in Unpowered(h)
    <2>1. w \in Consistent /\ Coherent(w) /\ st \in StepOf
      BY DEF Unpowered, Consistent, Tame
    <2>2. Run(w, h, st) \in Consistent
      BY <2>1, TameConsistent
    <2>3. Run(w, h, st).veh[h].kind = w.veh[h].kind
      BY <2>1, RunFrame
    <2> QED BY <2>2, <2>3 DEF Unpowered
  <1> QED BY <1>1, BringsIn

\* A plant that is down admits any event on a shadow.
Down == {w \in Consistent : w.ok => ~Flying(w.body.safety)}
Settling == {st \in StepOf : \/ st.op \in {"unstage", "clear", "shadow"}
                             \/ st.op = "attempt" /\ st.e = "Disarm"}

LEMMA DisarmedDown ==
    ASSUME NEW w \in Consistent, NEW e \in Event, Admits(w.body.safety, e),
           e \in {"Disarm", "Touchdown", "TriggerFailsafe"}
    PROVE  aerial_event(w, e) \in Down
  <1>1. Coherent(w) /\ w.body.safety \in SafetyState
    BY BodyCoherent DEF Consistent, Sound
  <1>2. Taken(w, e, aerial_event(w, e))
    BY <1>1, EventIs
  <1>3. aerial_event(w, e).body.safety = After(w.body.safety, e)
    BY <1>2 DEF Taken
  <1>4. ~Flying(After(w.body.safety, e))
    BY <1>1, AfterAuthority DEF Flying
  <1>5. aerial_event(w, e) \in Consistent
    BY EventConsistent
  <1> QED BY <1>3, <1>4, <1>5 DEF Down

\* Only a plant that is disconnected refuses to be disarmed.
LEMMA AttemptDown ==
    ASSUME NEW h \in Handle, NEW w \in Consistent
    PROVE  Run(w, h, [op |-> "attempt", e |-> "Disarm"]) \in Down
  <1> DEFINE s == w.body.safety
             r == Run(w, h, [op |-> "attempt", e |-> "Disarm"])
  <1>1. r = IF Admits(s, "Disarm") THEN aerial_event(w, "Disarm") ELSE w
    BY DEF Run
  <1>2. CASE Admits(s, "Disarm")
    <2>1. "Disarm" \in Event
      BY DEF Event
    <2> QED BY <1>1, <1>2, <2>1, DisarmedDown
  <1>3. CASE ~Admits(s, "Disarm")
    <2>1. Sound(s)
      BY BodyCoherent DEF Consistent
    <2>2. ~s.armed
      BY <1>3, <2>1 DEF Admits, LegalIn, NeedsSensors, NeedsArmed, Latched, Sound,
                        CheckInvariants, SafetyState
    <2> QED BY <1>1, <1>3, <2>2 DEF Down, Flying
  <1> QED BY <1>2, <1>3

LEMMA SettlingDown ==
    ASSUME NEW h \in Handle, NEW w \in Down, NEW st \in Settling
    PROVE  w.ok => Run(w, h, st) \in Down
  <1> SUFFICES ASSUME w.ok PROVE Run(w, h, st) \in Down
    OBVIOUS
  <1> DEFINE v == w.veh[h]
             r == Run(w, h, st)
  <1>0. w \in Consistent /\ Coherent(w) /\ st \in StepOf /\ ~Flying(w.body.safety)
    BY DEF Down, Consistent, Settling
  <1>1. CASE st.op \in {"unstage", "clear"}
    <2>1. SameStanding(w, r)
      BY <1>0, <1>1, QuietIs DEF Quiet
    <2>2. r \in Consistent
      BY <1>0, <1>1, TameConsistent DEF Tame
    <2> QED BY <1>0, <2>1, <2>2 DEF Down, SameStanding
  <1>2. CASE st.op = "shadow"
    <2> DEFINE x == [w EXCEPT !.veh[h].shadow = After(v.shadow, st.e)]
    <2>1. r = IF Admits(v.shadow, st.e) THEN x ELSE Refuse(w)
      BY <1>2 DEF Run
    <2>2. Admits(v.shadow, st.e) => x \in Consistent
      BY <1>0, <1>2, StepType, ShadowConsistent
    <2>3. x.body = w.body
      BY <1>0, ShadowIs
    <2> HIDE DEF x
    <2>4. Refuse(w) \in Down
      BY <1>0, RunConsistentFails DEF Down
    <2>5. Admits(v.shadow, st.e) => x \in Down
      BY <1>0, <2>2, <2>3 DEF Down
    <2> QED BY <2>1, <2>4, <2>5
  <1>3. CASE st.op = "attempt" /\ st.e = "Disarm"
    <2>1. st = [op |-> "attempt", e |-> "Disarm"]
      BY <1>3 DEF Settling, StepOf
    <2> QED BY <1>0, <2>1, AttemptDown
  <1> QED BY <1>1, <1>2, <1>3 DEF Settling

LEMMA DownKeeps ==
    ASSUME NEW h \in Handle, NEW does \in Seq(Settling)
    PROVE  Brings(h, Down, does, Down)
  BY SettlingDown, BringsIn

\* A plant that took the event, or the call has failed.
LEMMA PlantDown ==
    ASSUME NEW h \in Handle, NEW e \in {"Touchdown", "TriggerFailsafe"}
    PROVE  Brings(h, Consistent, Plant(e), Down)
  <1>1. ASSUME NEW w \in Consistent
        PROVE  Run(w, h, [op |-> "plant", e |-> e]) \in Down
    <2>1. Run(w, h, [op |-> "plant", e |-> e])
            = IF Admits(w.body.safety, e) THEN aerial_event(w, e) ELSE Refuse(w)
      BY DEF Run
    <2>2. e \in Event
      BY DEF Event
    <2>3. Refuse(w) \in Down
      BY RunConsistentFails DEF Down
    <2> QED BY <2>1, <2>2, <2>3, DisarmedDown
  <1> QED BY <1>1, BringsOne DEF Plant, On, Down

LEMMA DisarmDown ==
    ASSUME NEW h \in Handle
    PROVE  Brings(h, Consistent, Attempt("Disarm"), Down)
  BY AttemptDown, BringsOne DEF Attempt, On, Down

\* A setpoint is staged by the stage step of its own handle only.
Coherents == {w \in WorldType : Coherent(w)}
Unstaged(g) == {w \in Coherents : w.veh[g].setpoint = "none"}
Stageless == {st \in StepOf : st.op # "stage"}

LEMMA UnstagedKeeps ==
    ASSUME NEW h \in Handle, NEW g \in Handle, NEW does,
           IF g = h THEN does \in Seq(Stageless) ELSE does \in Script
    PROVE  Brings(h, Unstaged(g), does, Unstaged(g))
  <1>1. ASSUME NEW w \in Unstaged(g), NEW st \in StepOf, g # h \/ st \in Stageless
        PROVE  Run(w, h, st) \in Unstaged(g)
    <2>1. Coherent(w) /\ w.veh[g].setpoint = "none" /\ (g # h \/ st.op # "stage")
      BY <1>1 DEF Unstaged, Coherents, Stageless
    <2>2. Coherent(Run(w, h, st))
      BY <2>1, RunCoherent
    <2>3. Run(w, h, st).veh[g].setpoint = "none"
      BY <2>1, RunFrame
    <2> QED BY <2>2, <2>3 DEF Unstaged, Coherents, Coherent
  <1>2. CASE g = h
    BY <1>1, <1>2, BringsIn DEF Stageless
  <1>3. CASE g # h
    BY <1>1, <1>3, BringsIn DEF Script
  <1> QED BY <1>2, <1>3

\* A call keeps the typestate of every handle until it returns.
KindOf(g, k) == {w \in Coherents : w.veh[g].kind = k}

LEMMA KindKeeps ==
    ASSUME NEW h \in Handle, NEW g \in Handle, NEW k, NEW does \in Script
    PROVE  Brings(h, KindOf(g, k), does, KindOf(g, k))
  <1>1. ASSUME NEW w \in KindOf(g, k), NEW st \in StepOf PROVE Run(w, h, st) \in KindOf(g, k)
    <2>1. Coherent(w) /\ w.veh[g].kind = k
      BY DEF KindOf, Coherents
    <2>2. Coherent(Run(w, h, st)) /\ Run(w, h, st).veh[g].kind = k
      BY <2>1, RunCoherent, RunFrame
    <2> QED BY <2>2 DEF KindOf, Coherents, Coherent
  <1> QED BY <1>1, BringsIn DEF Script

\* A guarded call without a live permit changes nothing.
LEMMA BarredFails ==
    ASSUME NEW h \in Handle, NEW does \in Guarded, NEW w \in Consistent, w.ok,
           ~(EpochCurrent(w, h) /\ LeaseLive(w, h)), NEW r, Leads(h, w, does, r)
    PROVE  r = Refuse(w)
  <1>1. PICK rest \in Seq(Calm) : does = Op("epoch") \o Op("lease") \o rest
    BY DEF Guarded, require_permit
  <1>2. Op("epoch") \in Script /\ Op("lease") \in Script /\ rest \in Script
    BY StepScripts DEF StepName, Calm, Script
  <1>3. Op("epoch") \o Op("lease") \in Script
    BY <1>2, ConcatScript
  <1>4. PICK m : Leads(h, w, Op("epoch") \o Op("lease"), m) /\ Leads(h, m, rest, r)
    BY <1>1, <1>2, <1>3, LeadsSplit
  <1>5. PICK n : Leads(h, w, Op("epoch"), n) /\ Leads(h, n, Op("lease"), m)
    BY <1>2, <1>4, LeadsSplit
  <1>6. n = Require(w, EpochCurrent(w, h))
    <2>1. n = Proceed(h, w, [op |-> "epoch", e |-> "none"])
      BY <1>5, LeadsOne DEF Op
    <2> QED BY <2>1 DEF Proceed, Run
  <1>7. m = IF n.ok THEN Require(n, LeaseLive(n, h)) ELSE n
    <2>1. m = Proceed(h, n, [op |-> "lease", e |-> "none"])
      BY <1>5, LeadsOne DEF Op
    <2> QED BY <2>1 DEF Proceed, Run
  <1>8. m = Refuse(w) /\ ~m.ok
    BY <1>6, <1>7, RunConsistentFails DEF Require
  <1> QED BY <1>2, <1>4, <1>8, LeadsFailed
-----------------------------------------------------------------------------
(* What each call makes of a consistent world.                             *)

LEMMA BringsBoth ==
    ASSUME NEW h, NEW does, NEW P, NEW Q, NEW R, NEW S,
           Brings(h, P, does, Q), Brings(h, R, does, S)
    PROVE  Brings(h, P \cap R, does, Q \cap S)
  BY DEF Brings

LEMMA BringsFromTo ==
    ASSUME NEW h, NEW does, NEW P, NEW Q, NEW R, NEW S,
           Brings(h, P, does, Q), R \subseteq P, Q \subseteq S
    PROVE  Brings(h, R, does, S)
  BY DEF Brings

Started(h, from) == {w \in Consistent : w.veh[h].kind \in from}

\* What the script of a call leaves for its return: if it succeeded, the
\* typestate it compiles to goes with the permit.
Returned(h, to) ==
    {w \in Coherents :
       /\ AgreesBut(w, h)
       /\ ~w.ok => Agrees(w)
       /\ w.ok /\ w.body.epoch < EpochMax /\ Live(w, h)
            => grants_actuation(Into(to, w.veh[h]))}

Unlost(g) == {w \in Coherents : w.body.epoch < EpochMax => w.veh[g].setpoint # "lost"}

\* A call that keeps to all of it.
Faithful(h, c) ==
    /\ c.does \in Script /\ c.into \in Target
    /\ Brings(h, Started(h, c.from), c.does, Returned(h, c.into))
    /\ \A g \in Handle : Brings(h, Started(h, c.from) \cap Unstaged(g), c.does, Unlost(g))

LEMMA ConsistentReturned ==
    ASSUME NEW h \in Handle, NEW w \in Consistent, NEW to,
           w.ok /\ w.body.epoch < EpochMax /\ Live(w, h)
             => grants_actuation(Into(to, w.veh[h]))
    PROVE  w \in Returned(h, to)
  BY DEF Returned, Consistent, Coherents, Agrees, AgreesBut

LEMMA UnstagedUnlost ==
    ASSUME NEW h \in Handle, NEW g \in Handle
    PROVE  /\ Unstaged(g) \subseteq Unlost(g)
           /\ Clean(g) \subseteq Unlost(g)
           /\ Consistent \cap Unstaged(g) \subseteq Clean(g)
  BY DEF Unstaged, Unlost, Clean, Consistent, Coherents

LEMMA StagelessUnlost ==
    ASSUME NEW h \in Handle, NEW does \in Seq(Stageless), NEW P, NEW g \in Handle
    PROVE  Brings(h, P \cap Unstaged(g), does, Unlost(g))
  <1>1. does \in Script
    BY DEF Script, Stageless
  <1>2. Brings(h, Unstaged(g), does, Unstaged(g))
    BY <1>1, UnstagedKeeps
  <1> QED BY <1>2, UnstagedUnlost, BringsFromTo

LEMMA OtherUnlost ==
    ASSUME NEW h \in Handle, NEW does \in Script, NEW P, NEW g \in Handle, g # h
    PROVE  Brings(h, P \cap Unstaged(g), does, Unlost(g))
  <1>1. Brings(h, Unstaged(g), does, Unstaged(g))
    BY UnstagedKeeps
  <1> QED BY <1>1, UnstagedUnlost, BringsFromTo

LEMMA GuardedScript == Guarded \subseteq Script /\ Seq(Calm) \subseteq Script
  <1>1. Seq(Calm) \subseteq Script
    BY DEF Calm, Script
  <1> QED BY <1>1, PieceScripts, ConcatScript DEF Guarded

\* A call that shows its permit first.
LEMMA GuardedFaithful ==
    ASSUME NEW h \in Handle, NEW from, NEW does \in Guarded,
           NEW to \in MotorsEnabled \cup {"same"}
    PROVE  Faithful(h, Call(from, does, to))
  <1> DEFINE c == Call(from, does, to)
  <1>1. c.does = does /\ c.into = to /\ c.from = from
    BY DEF Call
  <1>2. does \in Script /\ to \in Target
    BY GuardedScript DEF Target, Kind, MotorsEnabled, OffboardControl
  <1>3. Brings(h, Started(h, from), does, Returned(h, to))
    <2>1. Brings(h, Consistent, does, Current(h))
      BY GuardedKeeps
    <2>2. Current(h) \subseteq Returned(h, to)
      <3> SUFFICES ASSUME NEW w \in Current(h) PROVE w \in Returned(h, to)
        OBVIOUS
      <3>1. w \in Consistent
        BY DEF Current
      <3>2. w.body.epoch < EpochMax /\ Live(w, h) => grants_actuation(w.veh[h].kind)
        BY <3>1 DEF Consistent, Agrees
      <3>3. grants_actuation(w.veh[h].kind) => grants_actuation(Into(to, w.veh[h]))
        BY DEF Into, grants_actuation, MotorsEnabled, OffboardControl
      <3> QED BY <3>1, <3>2, <3>3, ConsistentReturned
    <2>3. Started(h, from) \subseteq Consistent
      BY DEF Started
    <2> QED BY <2>1, <2>2, <2>3, BringsFromTo
  <1>4. ASSUME NEW g \in Handle
        PROVE  Brings(h, Started(h, from) \cap Unstaged(g), does, Unlost(g))
    <2>1. CASE g = h
      <3>1. Brings(h, Clean(h), does, Current(h) \cap Clean(h))
        BY GuardedKeeps
      <3>2. Started(h, from) \cap Unstaged(h) \subseteq Clean(h)
            /\ Current(h) \cap Clean(h) \subseteq Unlost(h)
        BY UnstagedUnlost DEF Started
      <3> QED BY <2>1, <3>1, <3>2, BringsFromTo
    <2>2. CASE g # h
      BY <1>2, <2>2, OtherUnlost
    <2> QED BY <2>1, <2>2
  <1> QED BY <1>1, <1>2, <1>3, <1>4 DEF Faithful

\* A call on a handle without authority, or one that gives and takes none.
LEMMA TameFaithful ==
    ASSUME NEW h \in Handle, NEW from, NEW does \in Seq(Tame), does \in Seq(Stageless),
           NEW to \in Target, to = "same" \/ from \cap MotorsEnabled = {}
    PROVE  Faithful(h, Call(from, does, to))
  <1> DEFINE c == Call(from, does, to)
  <1>1. c.does = does /\ c.into = to /\ c.from = from
    BY DEF Call
  <1>2. does \in Script
    BY DEF Script, Tame
  <1>3. Brings(h, Started(h, from), does, Returned(h, to))
    <2>1. CASE to = "same"
      <3>1. Brings(h, Consistent, does, Consistent)
        BY TameKeeps
      <3>2. ASSUME NEW w \in Consistent PROVE w \in Returned(h, to)
        <4>1. w.body.epoch < EpochMax /\ Live(w, h) => grants_actuation(w.veh[h].kind)
          BY DEF Consistent, Agrees
        <4> QED BY <2>1, <4>1, ConsistentReturned DEF Into
      <3>3. Started(h, from) \subseteq Consistent /\ Consistent \subseteq Returned(h, to)
        BY <3>2 DEF Started
      <3> QED BY <3>1, <3>3, BringsFromTo
    <2>2. CASE from \cap MotorsEnabled = {}
      <3>1. Brings(h, Unpowered(h), does, Unpowered(h))
        BY UnpoweredKeeps
      <3>2. ASSUME NEW w \in Unpowered(h) PROVE w \in Returned(h, to)
        <4>1. w \in Consistent /\ ~(w.body.epoch < EpochMax /\ Live(w, h))
          BY DEF Consistent, Agrees, Unpowered
        <4> QED BY <4>1, ConsistentReturned
      <3>3. Started(h, from) \subseteq Unpowered(h) /\ Unpowered(h) \subseteq Returned(h, to)
        BY <2>2, <3>2 DEF Started, Unpowered, grants_actuation, MotorsEnabled, OffboardControl
      <3> QED BY <3>1, <3>3, BringsFromTo
    <2> QED BY <2>1, <2>2
  <1> QED BY <1>1, <1>2, <1>3, StagelessUnlost DEF Faithful

LEMMA DownReturned ==
    ASSUME NEW h \in Handle, NEW to
    PROVE  Down \subseteq Returned(h, to)
  <1> SUFFICES ASSUME NEW w \in Down PROVE w \in Returned(h, to)
    OBVIOUS
  <1>1. w \in Consistent /\ (w.ok => ~(w.body.epoch < EpochMax /\ Live(w, h)))
    BY DEF Down, Consistent, Agrees
  <1> QED BY <1>1, ConsistentReturned

\* A call that takes the plant down first.
LEMMA DownFaithful ==
    ASSUME NEW h \in Handle, NEW from, NEW first \in Seq(Stageless),
           NEW rest \in Seq(Settling), rest \in Seq(Stageless), NEW to \in Target,
           Brings(h, Consistent, first, Down)
    PROVE  Faithful(h, Call(from, first \o rest, to))
  <1> DEFINE c == Call(from, first \o rest, to)
  <1>1. c.does = first \o rest /\ c.into = to /\ c.from = from
    BY DEF Call
  <1>2. first \in Script /\ rest \in Script /\ first \o rest \in Script
        /\ first \o rest \in Seq(Stageless)
    BY DEF Script, Stageless
  <1>3. Brings(h, Started(h, from), first \o rest, Returned(h, to))
    <2>1. Brings(h, Down, rest, Down)
      BY DownKeeps
    <2>2. Brings(h, Consistent, first \o rest, Down)
      BY <1>2, <2>1, BringsSeq
    <2>3. Started(h, from) \subseteq Consistent
      BY DEF Started
    <2> QED BY <2>2, <2>3, DownReturned, BringsFromTo
  <1> HIDE DEF c
  <1>4. \A g \in Handle : Brings(h, Started(h, from) \cap Unstaged(g), first \o rest, Unlost(g))
    BY <1>2, StagelessUnlost
  <1>5. Faithful(h, c)
    BY <1>1, <1>2, <1>3, <1>4 DEF Faithful
  <1> QED BY <1>5 DEF c

\* Arming gives a permit to a plant and a shadow that have just been armed.
LEMMA ArmFaithful == ASSUME NEW h \in Handle PROVE Faithful(h, arm_now)
  <1> DEFINE plant == [op |-> "plant", e |-> "Arm"]
             shadow == [op |-> "shadow", e |-> "Arm"]
             give == [op |-> "issue", e |-> "none"]
             P == {w \in Consistent : w.ok => Flying(w.body.safety)}
             Q == {w \in Consistent : w.ok => Flying(w.body.safety) /\ Flying(w.veh[h].shadow)}
  <1>1. /\ arm_now.does = Plant("Arm") \o Shadow("Arm") \o Op("issue")
        /\ arm_now.into = "Armed" /\ arm_now.from = {"PreflightReady"}
    BY DEF arm_now, Call
  <1>2. /\ Plant("Arm") = <<plant>> /\ Shadow("Arm") = <<shadow>> /\ Op("issue") = <<give>>
        /\ plant \in Stageless /\ shadow \in Stageless /\ give \in Stageless
    BY InKinds DEF Plant, Shadow, Op, On, Stageless, Event, StepName
  <1>3. "Arm" \in Event /\ "Arm" \in KeepsFlying
    BY DEF Event, KeepsFlying
  <1>4. ASSUME NEW s, Sound(s), Admits(s, "Arm") PROVE Flying(After(s, "Arm"))
    <2>1. s \in SafetyState /\ ~s.failsafe
      BY <1>4 DEF Sound, CheckInvariants, Admits, LegalIn
    <2> QED BY <1>3, <2>1, AfterAuthority DEF Flying
  <1>5. Brings(h, Consistent, Plant("Arm"), P)
    <2>1. ASSUME NEW w \in Consistent PROVE Run(w, h, plant) \in P
      <3>1. Run(w, h, plant) = IF Admits(w.body.safety, "Arm")
                                 THEN aerial_event(w, "Arm") ELSE Refuse(w)
        BY DEF Run
      <3>2. ASSUME Admits(w.body.safety, "Arm") PROVE aerial_event(w, "Arm") \in P
        <4>1. aerial_event(w, "Arm") \in Consistent
          BY <1>3, <3>2, EventConsistent
        <4>2. Taken(w, "Arm", aerial_event(w, "Arm")) /\ Sound(w.body.safety)
          BY EventIs, BodyCoherent DEF Consistent
        <4>3. Flying(aerial_event(w, "Arm").body.safety)
          BY <1>4, <3>2, <4>2 DEF Taken
        <4> QED BY <4>1, <4>3
      <3>3. Refuse(w) \in P
        BY RunConsistentFails
      <3> HIDE DEF P
      <3> QED BY <3>1, <3>2, <3>3
    <2>2. \A w \in Consistent : IF w.ok THEN Run(w, h, plant) \in P ELSE w \in P
      BY <2>1
    <2> HIDE DEF P, plant
    <2> QED BY <1>2, <2>2, BringsOne
  <1>6. Brings(h, P, Shadow("Arm"), Q)
    <2>1. ASSUME NEW w \in P, w.ok PROVE Run(w, h, shadow) \in Q
      <3> DEFINE x == [w EXCEPT !.veh[h].shadow = After(w.veh[h].shadow, "Arm")]
      <3>0. w \in Consistent /\ Coherent(w) /\ Flying(w.body.safety)
        BY <2>1 DEF Consistent
      <3>1. Run(w, h, shadow) = IF Admits(w.veh[h].shadow, "Arm") THEN x ELSE Refuse(w)
        BY DEF Run
      <3>2. x.body = w.body /\ x.veh[h].shadow = After(w.veh[h].shadow, "Arm")
        BY <3>0, ShadowIs
      <3>3. ASSUME Admits(w.veh[h].shadow, "Arm") PROVE x \in Consistent /\ Flying(x.veh[h].shadow)
        <4>1. x \in Consistent
          BY <1>3, <3>0, <3>3, ShadowConsistent
        <4>2. Sound(w.veh[h].shadow)
          BY <3>0, FieldsCoherent
        <4>3. Flying(After(w.veh[h].shadow, "Arm"))
          BY <1>4, <3>3, <4>2
        <4> HIDE DEF x
        <4> QED BY <3>2, <4>1, <4>3
      <3>4. Refuse(w) \in Q
        BY <3>0, RunConsistentFails
      <3> HIDE DEF x
      <3>5. Admits(w.veh[h].shadow, "Arm") => x \in Q
        BY <3>0, <3>2, <3>3
      <3> HIDE DEF Q
      <3> QED BY <3>1, <3>4, <3>5
    <2>2. \A w \in P : IF w.ok THEN Run(w, h, shadow) \in Q ELSE w \in Q
      BY <2>1
    <2> HIDE DEF P, Q, shadow
    <2> QED BY <1>2, <2>2, BringsOne
  <1>7. Brings(h, Q, Op("issue"), Returned(h, "Armed"))
    <2>1. ASSUME NEW w \in Q, w.ok PROVE Run(w, h, give) \in Returned(h, "Armed")
      <3> DEFINE r == issue(w, h, Unbounded, "now")
      <3>0. /\ w \in Consistent /\ Coherent(w) /\ Agrees(w)
            /\ Flying(w.body.safety) /\ Flying(w.veh[h].shadow)
        BY <2>1 DEF Consistent
      <3>1. Run(w, h, give) = r
        BY DEF Run
      <3>2. Coherent(r)
        BY <3>0, IssueCoherent DEF Standing
      <3>3. Issued(w, h, Unbounded, "now", r)
        BY <3>0, IssueIs
      <3> HIDE DEF r
      <3>4. AgreesBut(r, h)
        <4>1. \A g \in Handle : g # h /\ Live(r, g) => Live(w, g)
          BY <3>3 DEF Issued, Live
        <4> QED BY <3>0, <3>3, <4>1 DEF AgreesBut, Agrees, Issued
      <3>5. r.ok /\ grants_actuation(Into("Armed", r.veh[h]))
        BY <2>1, <3>3 DEF Issued, Into, grants_actuation
      <3> QED BY <3>1, <3>2, <3>4, <3>5 DEF Returned, Coherents, Coherent
    <2>2. \A w \in Q : ~w.ok => w \in Returned(h, "Armed")
      BY ConsistentReturned
    <2>3. \A w \in Q : IF w.ok THEN Run(w, h, give) \in Returned(h, "Armed")
                       ELSE w \in Returned(h, "Armed")
      BY <2>1, <2>2
    <2> HIDE DEF Q, give
    <2> QED BY <1>2, <2>3, BringsOne
  <1> HIDE DEF P, Q, plant, shadow, give
  <1>8. /\ Plant("Arm") \in Seq(Stageless) /\ Shadow("Arm") \in Seq(Stageless)
        /\ Op("issue") \in Seq(Stageless) /\ Seq(Stageless) \subseteq Script
    <2>1. Seq(Stageless) \subseteq Script
      BY DEF Stageless, Script
    <2>2. plant \in Stageless /\ shadow \in Stageless /\ give \in Stageless
      BY <1>2
    <2>3. /\ On("plant", "Arm") \in Seq(Stageless) /\ On("shadow", "Arm") \in Seq(Stageless)
          /\ Op("issue") \in Seq(Stageless)
      BY <2>2, OneIn DEF plant, shadow, give
    <2> QED BY <2>1, <2>3 DEF Plant, Shadow
  <1>9. Plant("Arm") \o Shadow("Arm") \o Op("issue") \in Seq(Stageless)
        /\ Plant("Arm") \o Shadow("Arm") \in Seq(Stageless)
    BY <1>8
  <1>10. Brings(h, Consistent, Plant("Arm") \o Shadow("Arm"), Q)
    BY <1>5, <1>6, <1>8, BringsSeq
  <1>11. Brings(h, Consistent, arm_now.does, Returned(h, "Armed"))
    <2>1. Plant("Arm") \o Shadow("Arm") \in Script /\ Op("issue") \in Script
      BY <1>8, <1>9
    <2>2. Brings(h, Consistent, Plant("Arm") \o Shadow("Arm") \o Op("issue"), Returned(h, "Armed"))
      BY <1>7, <1>10, <2>1, BringsSeq
    <2> QED BY <1>1, <2>2
  <1>12. Started(h, arm_now.from) \subseteq Consistent /\ "Armed" \in Target
    BY DEF Started, Target, Kind
  <1>13. Brings(h, Started(h, arm_now.from), arm_now.does, Returned(h, "Armed"))
    BY <1>11, <1>12, BringsFromTo
  <1> QED BY <1>1, <1>8, <1>9, <1>12, <1>13, StagelessUnlost DEF Faithful

\* A plant that grants actuation is armed and not in failsafe.
LEMMA GrantsFlying ==
    ASSUME NEW s, Sound(s), grants_actuation(aerial_kind(s))
    PROVE  Flying(s)
  BY DEF Sound, CheckInvariants, aerial_kind, grants_actuation, Flying, InFlight, SafetyState,
         Phase

\* A handle bound to the plant takes its state, and a permit if that grants it.
LEMMA BindFaithful ==
    ASSUME NEW h \in Handle, NEW from
    PROVE  /\ Faithful(h, Call(from, Op("read") \o Op("wrap"), "shadow"))
           /\ Faithful(h, Call(from, Op("unstage") \o Op("read") \o Op("wrap"), "shadow"))
  <1> DEFINE read == [op |-> "read", e |-> "none"]
             wrap == [op |-> "wrap", e |-> "none"]
             unstage == [op |-> "unstage", e |-> "none"]
             P == {w \in Consistent : w.ok => /\ w.veh[h].shadow = w.body.safety
                                              /\ ~w.veh[h].permit.held}
  <1>1. /\ Op("read") = <<read>> /\ Op("wrap") = <<wrap>> /\ Op("unstage") = <<unstage>>
        /\ read \in Stageless /\ wrap \in Stageless /\ unstage \in Stageless
        /\ unstage \in Tame
    BY InKinds DEF Op, Stageless, StepName, Tame
  <1>2. Brings(h, Consistent, Op("read"), P)
    <2>1. ASSUME NEW w \in Consistent PROVE Run(w, h, read) \in P
      <3> DEFINE s == w.body.safety
                 x == [w EXCEPT !.veh[h] = [w.veh[h] EXCEPT !.shadow = s, !.permit = NoPermit]]
      <3>1. Run(w, h, read) = x
        BY DEF Run
      <3>2. Sound(s) /\ Coherent(w)
        BY BodyCoherent DEF Consistent
      <3>3. x \in Consistent
        BY <3>2, BindConsistent
      <3>4. x.body = w.body /\ x.veh[h].shadow = s /\ x.veh[h].permit = NoPermit
        BY <3>2 DEF Coherent, WorldType, Vehicle
      <3> HIDE DEF x
      <3>5. x \in P
        BY <3>3, <3>4, NoPermitType
      <3> HIDE DEF P
      <3> QED BY <3>1, <3>5
    <2>2. \A w \in Consistent : IF w.ok THEN Run(w, h, read) \in P ELSE w \in P
      BY <2>1
    <2> HIDE DEF P, read
    <2> QED BY <1>1, <2>2, BringsOne
  <1>3. Brings(h, P, Op("wrap"), Returned(h, "shadow"))
    <2>1. ASSUME NEW w \in P, w.ok PROVE Run(w, h, wrap) \in Returned(h, "shadow")
      <3> DEFINE r == issue(w, h, Unbounded, "now")
                 grants == grants_actuation(aerial_kind(w.veh[h].shadow))
      <3>0. /\ w \in Consistent /\ Coherent(w) /\ Agrees(w)
            /\ w.veh[h].shadow = w.body.safety /\ ~w.veh[h].permit.held
        BY <2>1 DEF Consistent
      <3>1. Run(w, h, wrap) = IF grants THEN r ELSE w
        BY DEF Run
      <3>2. Coherent(r)
        BY <3>0, IssueCoherent DEF Standing
      <3>3. Issued(w, h, Unbounded, "now", r)
        BY <3>0, IssueIs
      <3>4. grants => Flying(w.body.safety) /\ Flying(w.veh[h].shadow)
        BY <3>0, BodyCoherent, GrantsFlying
      <3> HIDE DEF r
      <3>5. grants => AgreesBut(r, h)
        <4>1. \A g \in Handle : g # h /\ Live(r, g) => Live(w, g)
          BY <3>3 DEF Issued, Live
        <4> HIDE DEF grants
        <4> QED BY <3>0, <3>3, <3>4, <4>1 DEF AgreesBut, Agrees, Issued
      <3>6. r.ok /\ (grants => grants_actuation(Into("shadow", r.veh[h])))
        BY <2>1, <3>3 DEF Issued, Into
      <3>7. w \in Returned(h, "shadow")
        BY <3>0, ConsistentReturned DEF Live
      <3> HIDE DEF grants
      <3>8. grants => r \in Returned(h, "shadow")
        BY <3>2, <3>5, <3>6 DEF Returned, Coherents, Coherent
      <3> QED BY <3>1, <3>7, <3>8
    <2>2. \A w \in P : ~w.ok => w \in Returned(h, "shadow")
      BY ConsistentReturned
    <2>3. \A w \in P : IF w.ok THEN Run(w, h, wrap) \in Returned(h, "shadow")
                       ELSE w \in Returned(h, "shadow")
      BY <2>1, <2>2
    <2> HIDE DEF P, wrap
    <2> QED BY <1>1, <2>3, BringsOne
  <1> HIDE DEF P
  <1>4. /\ Op("read") \in Seq(Stageless) /\ Op("wrap") \in Seq(Stageless)
        /\ Op("unstage") \in Seq(Stageless) /\ Op("unstage") \in Seq(Tame)
        /\ Seq(Stageless) \subseteq Script
    <2>1. Seq(Stageless) \subseteq Script
      BY DEF Stageless, Script
    <2> QED BY <1>1, <2>1, OneIn
  <1>5. Brings(h, Consistent, Op("unstage"), Consistent)
    BY <1>4, TameKeeps
  <1> HIDE DEF read, wrap, unstage
  <1>6. Brings(h, Consistent, Op("unstage") \o Op("read"), P)
    BY <1>2, <1>4, <1>5, BringsSeq
  <1>7. /\ Brings(h, Consistent, Op("read") \o Op("wrap"), Returned(h, "shadow"))
        /\ Brings(h, Consistent, Op("unstage") \o Op("read") \o Op("wrap"), Returned(h, "shadow"))
    <2>1. Op("unstage") \o Op("read") \in Script
      BY <1>4, ConcatScript
    <2> QED BY <1>2, <1>3, <1>4, <1>6, <2>1, BringsSeq
  <1>8. Started(h, from) \subseteq Consistent /\ "shadow" \in Target
    BY DEF Started, Target
  <1>9. ASSUME NEW does \in Seq(Stageless), Brings(h, Consistent, does, Returned(h, "shadow"))
        PROVE  Faithful(h, Call(from, does, "shadow"))
    <2>1. Brings(h, Started(h, from), does, Returned(h, "shadow"))
      BY <1>8, <1>9, BringsFromTo
    <2>2. does \in Script
      BY <1>4
    <2>3. \A g \in Handle : Brings(h, Started(h, from) \cap Unstaged(g), does, Unlost(g))
      BY StagelessUnlost
    <2> QED BY <1>8, <2>1, <2>2, <2>3 DEF Faithful, Call
  <1>10. Op("read") \o Op("wrap") \in Seq(Stageless)
         /\ Op("unstage") \o Op("read") \o Op("wrap") \in Seq(Stageless)
    BY <1>4
  <1> QED BY <1>7, <1>9, <1>10

\* A new handle has no permit.
LEMMA NewFaithful == ASSUME NEW h \in Handle PROVE Faithful(h, new)
  <1> DEFINE make == [op |-> "new", e |-> "none"]
             unstage == [op |-> "unstage", e |-> "none"]
             P == {w \in Consistent : w.ok => ~w.veh[h].permit.held}
  <1>1. /\ new.does = Op("unstage") \o Op("new") /\ new.into = "Disconnected"
        /\ new.from = Kind
    BY DEF new, Call
  <1>2. make \in Stageless /\ unstage \in Stageless /\ unstage \in Tame
    BY InKinds DEF Stageless, StepName, Tame
  <1>3. Brings(h, Consistent, Op("new"), P)
    <2>1. ASSUME NEW w \in Consistent PROVE Run(w, h, make) \in P
      <3> DEFINE x == [w EXCEPT !.veh[h] = [w.veh[h] EXCEPT !.shadow = Disconnected,
                                                           !.permit = NoPermit]]
      <3>1. Run(w, h, make) = x
        BY DEF Run
      <3>2. x \in Consistent
        BY DisconnectedSound, BindConsistent
      <3>3. x.veh[h].permit = NoPermit
        BY DEF Consistent, Coherent, WorldType, Vehicle
      <3> HIDE DEF x
      <3>4. x \in P
        BY <3>2, <3>3, NoPermitType
      <3> HIDE DEF P
      <3> QED BY <3>1, <3>4
    <2>2. \A w \in Consistent : IF w.ok THEN Run(w, h, make) \in P ELSE w \in P
      BY <2>1
    <2> HIDE DEF P
    <2> QED BY <2>2, BringsOne DEF Op
  <1>4. P \subseteq Returned(h, "Disconnected")
    <2>1. \A w \in P : w \in Consistent /\ (w.ok => ~Live(w, h))
      BY DEF Live
    <2> HIDE DEF P
    <2> QED BY <2>1, ConsistentReturned
  <1> HIDE DEF P
  <1>5. /\ Op("new") \in Seq(Stageless) /\ Op("unstage") \in Seq(Stageless)
        /\ Op("unstage") \in Seq(Tame) /\ Seq(Stageless) \subseteq Script
    <2>1. Seq(Stageless) \subseteq Script
      BY DEF Stageless, Script
    <2> QED BY <1>2, <2>1, OneIn
  <1>6. Brings(h, Consistent, Op("unstage"), Consistent)
    BY <1>5, TameKeeps
  <1>7. Brings(h, Consistent, Op("unstage") \o Op("new"), P)
    BY <1>3, <1>5, <1>6, BringsSeq
  <1>8. Started(h, new.from) \subseteq Consistent /\ "Disconnected" \in Target
    BY DEF Started, Target, Kind
  <1>9. Brings(h, Started(h, new.from), new.does, Returned(h, "Disconnected"))
    BY <1>1, <1>4, <1>7, <1>8, BringsFromTo
  <1>10. Op("unstage") \o Op("new") \in Seq(Stageless)
    BY <1>5
  <1> QED BY <1>1, <1>5, <1>8, <1>9, <1>10, StagelessUnlost DEF Faithful

\* Touching down loses nothing but what had landed before.
LEMMA TouchdownUnlost ==
    ASSUME NEW h \in Handle, NEW w \in Clean(h), Admits(w.body.safety, "Touchdown")
    PROVE  aerial_event(w, "Touchdown") \in Unlost(h)
  <1> DEFINE s == w.body.safety
             n == After(s, "Touchdown")
             r == aerial_event(w, "Touchdown")
  <1>1. Coherent(w) /\ Sound(s) /\ s \in SafetyState /\ w.veh[h] \in Vehicle
        /\ w.body.epoch \in 0..EpochMax /\ "Touchdown" \in Event
    BY FieldsCoherent DEF Clean, Consistent, Sound, Event
  <1>2. Taken(w, "Touchdown", r) /\ Coherent(r)
    BY <1>1, EventIs, EventCoherent
  <1>3. Loss(s, n, "Touchdown") # "lost"
    BY <1>1, AfterAuthority DEF Loss
  <1>4. r.veh[h].setpoint = Downgrade(w.veh[h].setpoint, Loss(s, n, "Touchdown"))
    <2>1. r.veh[h] = Demoted(w.veh[h], Loss(s, n, "Touchdown"))
      BY <1>2 DEF Taken
    <2> HIDE DEF r, n, s
    <2> QED BY <1>1, <2>1, DemotedIs
  <1>5. r.body.epoch \in {w.body.epoch, bump_authority(w.body.epoch)}
    BY <1>2 DEF Taken
  <1>6. r.body.epoch < EpochMax => w.body.epoch < EpochMax
    BY <1>1, <1>5, EpochMaxAssumption DEF bump_authority
  <1> HIDE DEF r, n, s
  <1>7. r.body.epoch < EpochMax => r.veh[h].setpoint # "lost"
    BY <1>3, <1>4, <1>6, DowngradeNone DEF Clean
  <1>8. r \in Unlost(h)
    BY <1>2, <1>7 DEF Unlost, Coherents, Coherent
  <1> QED BY <1>8 DEF r

\* Calm steps keep what a check of the permit has found.
LEMMA CalmThen ==
    ASSUME NEW h \in Handle, NEW P, NEW a \in Script, NEW b \in Seq(Calm),
           NEW K \in {Current(h), Current(h) \cap Clean(h)}, Brings(h, P, a, K)
    PROVE  Brings(h, P, a \o b, K) /\ a \o b \in Script
  <1>1. b \in Script
    BY GuardedScript
  <1>2. Brings(h, K, b, K)
    <2>1. \A w \in K, st \in Calm : w.ok => Run(w, h, st) \in K
      BY CalmKeeps
    <2> QED BY <2>1, BringsIn
  <1> QED BY <1>1, <1>2, BringsSeq, ConcatScript

\* land takes the vehicle down from wherever its permit lets it.
LEMMA LandFaithful ==
    ASSUME NEW h \in Handle, NEW o \in StepOutcome
    PROVE  Faithful(h, land(o))
  <1> DEFINE descend == Plant("Land") \o Shadow("Land") \o Shadow("HeartbeatFresh")
             checked == descend \o require_permit
             steered == checked \o Shadow("MissionCommand") \o accept_mission \o Op("stage")
                          \o tick_body(o)
             settle == Shadow("Touchdown") \o Disarm
             K == Current(h) \cap Clean(h)
             Ended == {w \in Unlost(h) : w.ok => w.veh[h].setpoint = "none"}
             down == [op |-> "plant", e |-> "Touchdown"]
             unstage == [op |-> "unstage", e |-> "none"]
  <1>1. /\ Plant("Land") \in Seq(Calm) /\ Shadow("Land") \in Seq(Calm)
        /\ Shadow("HeartbeatFresh") \in Seq(Calm) /\ Shadow("MissionCommand") \in Seq(Calm)
        /\ Op("stage") \in Seq(Calm) /\ accept_mission \in Seq(Calm)
        /\ tick_body(o) \in Seq(Calm) /\ require_permit \in Seq(Calm)
    BY CalmPieces, CalmParts DEF Flight, KeepsFlying, Event, Quiet
  <1>2. /\ Plant("Touchdown") \in Script /\ Op("unstage") \in Script /\ Op("clear") \in Script
        /\ Shadow("Touchdown") \in Script /\ Attempt("Disarm") \in Script
        /\ Seq(Calm) \subseteq Script
    BY StepScripts, GuardedScript DEF StepName, Event
  <1>3. descend \in Script /\ settle \in Script /\ Touchdown \in Script
        /\ require_permit \in Script /\ checked \in Script /\ steered \in Script
    BY <1>1, <1>2, ConcatScript DEF Touchdown, Disarm
  <1>4. /\ land(o).does = steered \o Touchdown \o settle /\ steered \o Touchdown \in Script
        /\ land(o).into = "PreflightReady" /\ land(o).from = CanBeginLand
    <2>1. /\ land(o).does = steered \o Touchdown \o Shadow("Touchdown") \o Disarm
          /\ land(o).into = "PreflightReady" /\ land(o).from = CanBeginLand
      BY DEF land, Call
    <2> DEFINE x == steered \o Touchdown
    <2>2. x \in Script /\ Disarm \in Script /\ Shadow("Touchdown") \in Script
      BY <1>2, <1>3, ConcatScript, PieceScripts
    <2> HIDE DEF x, steered
    <2>3. (x \o Shadow("Touchdown")) \o Disarm = x \o settle
      BY <2>2 DEF Script
    <2> QED BY <2>1, <2>2, <2>3 DEF x
  \* The descent, before the permit is looked at.
  <1>5. descend \in Seq(Tame) /\ descend \in Seq(Stageless)
    <2>1. /\ [op |-> "plant", e |-> "Land"] \in Tame \cap Stageless
          /\ [op |-> "shadow", e |-> "Land"] \in Tame \cap Stageless
          /\ [op |-> "shadow", e |-> "HeartbeatFresh"] \in Tame \cap Stageless
      BY InKinds DEF Tame, Stageless, KeepsFlying, Event
    <2> QED BY <2>1, OneIn DEF Plant, Shadow
  <1>7. settle \in Seq(Settling) /\ settle \in Seq(Stageless)
    <2>1. /\ [op |-> "shadow", e |-> "Touchdown"] \in Settling \cap Stageless
          /\ [op |-> "attempt", e |-> "Disarm"] \in Settling \cap Stageless
          /\ [op |-> "clear", e |-> "none"] \in Settling \cap Stageless
          /\ unstage \in Settling \cap Stageless
      BY InKinds DEF Settling, Stageless, Event, StepName
    <2>2. \A T \in {Settling, Stageless} :
             /\ Shadow("Touchdown") \in Seq(T) /\ Attempt("Disarm") \in Seq(T)
             /\ Op("clear") \in Seq(T) /\ Op("unstage") \in Seq(T)
      BY <2>1, OneIn DEF Shadow, Attempt
    <2> QED BY <2>2 DEF Disarm
  <1> HIDE DEF descend, settle
  <1>8. require_permit \in Guarded
    <2>1. require_permit \o <<>> = require_permit /\ <<>> \in Seq(Calm)
      BY <1>1
    <2> QED BY <2>1 DEF Guarded
  <1>9. ASSUME NEW P, NEW C \in {Current(h), K}, Brings(h, P, checked, C)
        PROVE  Brings(h, P, steered, C)
    <2> DEFINE a == checked \o Shadow("MissionCommand")
               b == a \o accept_mission
               c == b \o Op("stage")
    <2>1. Brings(h, P, a, C) /\ a \in Script
      BY <1>1, <1>3, <1>9, CalmThen
    <2> HIDE DEF a
    <2>2. Brings(h, P, b, C) /\ b \in Script
      BY <1>1, <2>1, CalmThen
    <2> HIDE DEF b
    <2>3. Brings(h, P, c, C) /\ c \in Script
      BY <1>1, <2>2, CalmThen
    <2> HIDE DEF c
    <2> HIDE DEF c
    <2>4. tick_body(o) \in Seq(Calm)
      BY <1>1
    <2>5. Brings(h, P, c \o tick_body(o), C)
      BY <2>3, <2>4, CalmThen
    <2> QED BY <2>5 DEF a, b, c
  <1>10. /\ Brings(h, Consistent, steered, Current(h))
         /\ Brings(h, Consistent \cap Unstaged(h), steered, K)
    <2>1. Brings(h, Consistent, descend, Consistent)
      BY <1>5, TameKeeps
    <2>2. Brings(h, Consistent, checked, Current(h))
      BY <1>3, <1>8, <2>1, GuardedKeeps, BringsSeq
    <2>3. Brings(h, Consistent \cap Unstaged(h), descend, Clean(h))
      <3>1. Brings(h, Unstaged(h), descend, Unstaged(h))
        BY <1>5, UnstagedKeeps
      <3>2. Brings(h, Consistent \cap Unstaged(h), descend, Consistent \cap Unstaged(h))
        BY <2>1, <3>1, BringsBoth
      <3> QED BY <3>2, UnstagedUnlost, BringsFromTo
    <2>4. Brings(h, Consistent \cap Unstaged(h), checked, K)
      BY <1>3, <1>8, <2>3, GuardedKeeps, BringsSeq
    <2> HIDE DEF K, checked, steered
    <2> QED BY <1>9, <2>2, <2>4
  <1> HIDE DEF checked, steered
  <1>11. Brings(h, Consistent, Touchdown \o settle, Down)
    <2>1. Brings(h, Consistent, Plant("Touchdown"), Down)
      BY PlantDown
    <2>2. [op |-> "unstage", e |-> "none"] \in Settling
      BY InKinds DEF Settling, StepName
    <2>3. Op("unstage") \in Seq(Settling)
      BY <2>2, OneIn
    <2>4. Brings(h, Down, Op("unstage"), Down) /\ Brings(h, Down, settle, Down)
      BY <1>7, <2>3, DownKeeps
    <2>5. Brings(h, Consistent, Touchdown, Down)
      BY <1>2, <2>1, <2>4, BringsSeq DEF Touchdown
    <2> QED BY <1>3, <2>4, <2>5, BringsSeq
  <1>12. Brings(h, Clean(h), Touchdown, Ended)
    <2>1. ASSUME NEW w \in Clean(h) PROVE Run(w, h, down) \in Unlost(h)
      <3>1. Run(w, h, down) = IF Admits(w.body.safety, "Touchdown")
                                THEN aerial_event(w, "Touchdown") ELSE Refuse(w)
        BY DEF Run
      <3>2. Refuse(w) \in Unlost(h)
        BY RunConsistentFails DEF Clean, Unlost, Consistent, Coherents
      <3> QED BY <3>1, <3>2, TouchdownUnlost
    <2>2. Brings(h, Clean(h), Plant("Touchdown"), Unlost(h))
      <3>1. \A w \in Clean(h) : IF w.ok THEN Run(w, h, down) \in Unlost(h) ELSE w \in Unlost(h)
        BY <2>1, UnstagedUnlost
      <3> QED BY <3>1, BringsOne DEF Plant, On
    <2>3. ASSUME NEW w \in Unlost(h), w.ok PROVE Run(w, h, unstage) \in Ended
      <3> DEFINE x == [w EXCEPT !.veh[h].setpoint = "none"]
      <3>1. Run(w, h, unstage) = x
        BY DEF Run
      <3>2. Coherent(w) /\ Coherent(x)
        BY SetpointCoherent DEF Unlost, Coherents, Setpoint
      <3>3. x.veh[h].setpoint = "none"
        BY <3>2 DEF Coherent, WorldType, Vehicle
      <3> HIDE DEF x
      <3>4. x \in Ended
        BY <3>2, <3>3 DEF Unlost, Coherents, Coherent
      <3> HIDE DEF Ended
      <3> QED BY <3>1, <3>4
    <2>4. Brings(h, Unlost(h), Op("unstage"), Ended)
      <3>1. \A w \in Unlost(h) : IF w.ok THEN Run(w, h, unstage) \in Ended ELSE w \in Ended
        BY <2>3
      <3> HIDE DEF Ended
      <3> QED BY <3>1, BringsOne DEF Op
    <2> HIDE DEF Ended
    <2> QED BY <1>2, <2>2, <2>4, BringsSeq DEF Touchdown
  <1>13. Brings(h, Ended, settle, Unlost(h))
    <2>1. ASSUME NEW w \in Ended, NEW st \in Stageless, w.ok PROVE Run(w, h, st) \in Ended
      <3>1. Coherent(w) /\ w.veh[h].setpoint = "none" /\ st \in StepOf /\ st.op # "stage"
        BY <2>1 DEF Unlost, Coherents, Stageless
      <3>2. Coherent(Run(w, h, st)) /\ Run(w, h, st).veh[h].setpoint = "none"
        BY <3>1, RunCoherent, RunFrame
      <3> QED BY <3>2 DEF Unlost, Coherents, Coherent
    <2>2. Ended \subseteq Unlost(h)
      OBVIOUS
    <2> HIDE DEF Ended
    <2>3. Brings(h, Ended, settle, Ended)
      BY <1>7, <2>1, BringsIn
    <2> QED BY <2>2, <2>3, BringsFromTo
  <1> HIDE DEF K, Ended
  <1>14. Brings(h, Consistent, land(o).does, Down)
    <2>1. Brings(h, Current(h), Touchdown \o settle, Down)
      <3>1. Current(h) \subseteq Consistent /\ Down \subseteq Down
        BY DEF Current
      <3> QED BY <1>11, <3>1, BringsFromTo
    <2>2. /\ Touchdown \o settle \in Script
          /\ (steered \o Touchdown) \o settle = steered \o (Touchdown \o settle)
      BY <1>3 DEF Script
    <2>3. Brings(h, Consistent, steered \o (Touchdown \o settle), Down)
      BY <1>3, <1>10, <2>1, <2>2, BringsSeq
    <2> QED BY <1>4, <2>2, <2>3
  <1>15. Brings(h, Consistent \cap Unstaged(h), land(o).does, Unlost(h))
    <2>1. Brings(h, K, Touchdown, Ended)
      <3>1. K \subseteq Clean(h) /\ Ended \subseteq Ended
        BY DEF K
      <3> QED BY <1>12, <3>1, BringsFromTo
    <2>2. Brings(h, Consistent \cap Unstaged(h), steered \o Touchdown, Ended)
      BY <1>3, <1>10, <2>1, BringsSeq
    <2>3. Brings(h, Consistent \cap Unstaged(h), (steered \o Touchdown) \o settle, Unlost(h))
      BY <1>3, <1>4, <1>13, <2>2, BringsSeq
    <2> QED BY <1>4, <2>3
  <1>16. land(o).does \in Script /\ "PreflightReady" \in Target
    BY <1>3, <1>4, ConcatScript DEF Target, Kind
  <1>17. Brings(h, Started(h, CanBeginLand), land(o).does, Returned(h, "PreflightReady"))
    <2>1. Started(h, CanBeginLand) \subseteq Consistent
      BY DEF Started
    <2> QED BY <1>14, <2>1, DownReturned, BringsFromTo
  <1>18. ASSUME NEW g \in Handle
         PROVE  Brings(h, Started(h, CanBeginLand) \cap Unstaged(g), land(o).does, Unlost(g))
    <2>1. CASE g = h
      <3>1. Started(h, CanBeginLand) \cap Unstaged(h) \subseteq Consistent \cap Unstaged(h)
            /\ Unlost(h) \subseteq Unlost(h)
        BY DEF Started
      <3> QED BY <1>15, <2>1, <3>1, BringsFromTo
    <2>2. CASE g # h
      BY <1>16, <2>2, OtherUnlost
    <2> QED BY <2>1, <2>2
  <1> QED BY <1>4, <1>16, <1>17, <1>18 DEF Faithful

-----------------------------------------------------------------------------
(* Every call of the session, in one go.                                   *)

SessionCalls(v) ==
    {attach, reattach, new, connect, verify_preflight("ready"), verify_preflight("preflight"),
     arm_now, enter_offboard_now, acquire_offboard_control_now, renew_offboard_control_now,
     start_takeoff_now, declare_airborne_now, offboard_command, set_motor_thrust_now(v),
     begin_land_now, touchdown_now, disarm_now, failsafe_disarm_now, failsafe_now,
     recover_now, flush}
    \cup {takeoff(o) : o \in StepOutcome} \cup {armed_takeoff(o) : o \in StepOutcome}
    \cup {land(o) : o \in StepOutcome} \cup {tick(o) : o \in StepOutcome}

LEMMA GuardedSession ==
    ASSUME NEW h \in Handle, NEW v
    PROVE  /\ Faithful(h, enter_offboard_now) /\ Faithful(h, acquire_offboard_control_now)
           /\ Faithful(h, renew_offboard_control_now)
           /\ Faithful(h, start_takeoff_now) /\ Faithful(h, declare_airborne_now)
           /\ Faithful(h, offboard_command) /\ Faithful(h, set_motor_thrust_now(v))
           /\ Faithful(h, begin_land_now)
           /\ \A o \in StepOutcome : Faithful(h, takeoff(o)) /\ Faithful(h, armed_takeoff(o))
  <1> USE GuardedFaithful, GuardedCalls DEF MotorsEnabled, OffboardControl
  <1>1. Faithful(h, enter_offboard_now)
    BY DEF enter_offboard_now
  <1>2. Faithful(h, acquire_offboard_control_now)
    BY DEF acquire_offboard_control_now
  <1>3. Faithful(h, renew_offboard_control_now)
    BY DEF renew_offboard_control_now
  <1>4. Faithful(h, start_takeoff_now)
    BY DEF start_takeoff_now
  <1>5. Faithful(h, declare_airborne_now)
    BY DEF declare_airborne_now
  <1>6. Faithful(h, offboard_command)
    BY DEF offboard_command
  <1>7. Faithful(h, set_motor_thrust_now(v))
    <2>1. set_motor_thrust_now(v).does \in Guarded
      OBVIOUS
    <2>2. set_motor_thrust_now(v) = Call(MotorsEnabled, set_motor_thrust_now(v).does, "same")
      BY DEF set_motor_thrust_now, Call
    <2>3. Faithful(h, Call(MotorsEnabled, set_motor_thrust_now(v).does, "same"))
      BY <2>1
    <2> QED BY <2>2, <2>3
  <1>8. Faithful(h, begin_land_now)
    <2>1. begin_land_now = Call(CanBeginLand, begin_land_now.does, "Landing")
      BY DEF begin_land_now, Call
    <2>2. Faithful(h, Call(CanBeginLand, begin_land_now.does, "Landing"))
      OBVIOUS
    <2> QED BY <2>1, <2>2
  <1>9. ASSUME NEW o \in StepOutcome PROVE Faithful(h, takeoff(o)) /\ Faithful(h, armed_takeoff(o))
    BY DEF takeoff, armed_takeoff
  <1> QED BY <1>1, <1>2, <1>3, <1>4, <1>5, <1>6, <1>7, <1>8, <1>9

LEMMA TameSession ==
    ASSUME NEW h \in Handle
    PROVE  /\ Faithful(h, connect) /\ Faithful(h, recover_now) /\ Faithful(h, flush)
           /\ \A phase \in {"ready", "preflight"} : Faithful(h, verify_preflight(phase))
           /\ \A o \in StepOutcome : Faithful(h, tick(o))
  <1> DEFINE T == Tame \cap Stageless
  <1>1. \A op \in {"revoke", "sensors", "ready", "preflight", "unstage", "flush", "granted",
                   "cut", "refused"} : Op(op) \in Seq(T)
    <2>1. \A op \in {"revoke", "sensors", "ready", "preflight", "unstage", "flush", "granted",
                     "cut", "refused"} : [op |-> op, e |-> "none"] \in T
      BY InKinds DEF Tame, Stageless, StepName
    <2> HIDE DEF T
    <2> QED BY <2>1, OneIn
  <1>2. \A e \in {"Connect", "InitComplete", "Initialized", "ImuHealthy", "EstimatorValid",
                  "PreflightPassed", "Recover"} : Shadow(e) \in Seq(T)
    <2>1. \A e \in {"Connect", "InitComplete", "Initialized", "ImuHealthy", "EstimatorValid",
                    "PreflightPassed", "Recover"} : [op |-> "shadow", e |-> e] \in T
      BY InKinds DEF Tame, Stageless, KeepsFlying, Event
    <2> HIDE DEF T
    <2> QED BY <2>1, OneIn DEF Shadow
  <1>3. Plant("Recover") \in Seq(T)
    <2>1. [op |-> "plant", e |-> "Recover"] \in T
      BY InKinds DEF Tame, Stageless, Event
    <2> HIDE DEF T
    <2> QED BY <2>1, OneIn DEF Plant
  <1>4. Seq(T) \subseteq Seq(Tame) /\ Seq(T) \subseteq Seq(Stageless)
    OBVIOUS
  <1> HIDE DEF T
  <1>5. ASSUME NEW from, NEW does \in Seq(T), NEW to \in Target,
               to = "same" \/ from \cap MotorsEnabled = {}
        PROVE  Faithful(h, Call(from, does, to))
    BY <1>4, <1>5, TameFaithful
  <1>6. {"Disconnected"} \cap MotorsEnabled = {} /\ {"Disarmed"} \cap MotorsEnabled = {}
        /\ {"Recovery"} \cap MotorsEnabled = {}
        /\ "Disarmed" \in Target /\ "PreflightReady" \in Target /\ "same" \in Target
    BY DEF MotorsEnabled, OffboardControl, Target, Kind
  <1>7. Faithful(h, connect)
    <2>1. Op("revoke") \o Shadow("Connect") \o Shadow("InitComplete") \o Shadow("Initialized")
            \in Seq(T)
      BY <1>1, <1>2
    <2> QED BY <1>5, <1>6, <2>1 DEF connect
  <1>8. Faithful(h, recover_now)
    <2>1. Plant("Recover") \o Op("unstage") \o Shadow("Recover") \in Seq(T)
      BY <1>1, <1>2, <1>3
    <2> QED BY <1>5, <1>6, <2>1 DEF recover_now
  <1>9. Faithful(h, flush)
    BY <1>1, <1>5, <1>6 DEF flush
  <1>10. ASSUME NEW phase \in {"ready", "preflight"} PROVE Faithful(h, verify_preflight(phase))
    <2>1. Op("sensors") \o Op(phase) \o
            (IF phase = "ready" THEN <<>>
             ELSE Shadow("ImuHealthy") \o Shadow("EstimatorValid") \o Shadow("PreflightPassed"))
            \in Seq(T)
      BY <1>1, <1>2
    <2> QED BY <1>5, <1>6, <2>1 DEF verify_preflight
  <1>11. ASSUME NEW o \in StepOutcome PROVE Faithful(h, tick(o))
    <2>1. tick_body(o) \in Seq(T)
      BY <1>1 DEF tick_body, StepOutcome
    <2> QED BY <1>5, <1>6, <2>1 DEF tick
  <1> QED BY <1>7, <1>8, <1>9, <1>10, <1>11

LEMMA DownSession ==
    ASSUME NEW h \in Handle
    PROVE  /\ Faithful(h, touchdown_now) /\ Faithful(h, failsafe_now)
           /\ Faithful(h, disarm_now) /\ Faithful(h, failsafe_disarm_now)
  <1> DEFINE T == Settling \cap Stageless
  <1>1. /\ Op("unstage") \in Seq(T) /\ Op("clear") \in Seq(T)
        /\ \A e \in {"Touchdown", "TriggerFailsafe", "Disarm"} : Shadow(e) \in Seq(T)
    <2>1. /\ [op |-> "unstage", e |-> "none"] \in T /\ [op |-> "clear", e |-> "none"] \in T
          /\ \A e \in {"Touchdown", "TriggerFailsafe", "Disarm"} : [op |-> "shadow", e |-> e] \in T
      BY InKinds DEF Settling, Stageless, StepName, Event
    <2> HIDE DEF T
    <2> QED BY <2>1, OneIn DEF Shadow
  <1>2. /\ Plant("Touchdown") \in Seq(Stageless) /\ Plant("TriggerFailsafe") \in Seq(Stageless)
        /\ Attempt("Disarm") \in Seq(Stageless)
    <2>1. /\ [op |-> "plant", e |-> "Touchdown"] \in Stageless
          /\ [op |-> "plant", e |-> "TriggerFailsafe"] \in Stageless
          /\ [op |-> "attempt", e |-> "Disarm"] \in Stageless
      BY InKinds DEF Stageless, Event
    <2> QED BY <2>1, OneIn DEF Plant, Attempt
  <1>3. Seq(T) \subseteq Seq(Settling) /\ Seq(T) \subseteq Seq(Stageless)
    OBVIOUS
  <1>4. "PreflightReady" \in Target /\ "Recovery" \in Target /\ "Failsafe" \in Target
    BY DEF Target, Kind
  <1> HIDE DEF T
  <1>5. ASSUME NEW first \in {Plant("Touchdown"), Plant("TriggerFailsafe"), Attempt("Disarm")},
               NEW a \in Seq(T), NEW b \in Seq(T), NEW from, NEW to \in Target
        PROVE  /\ Faithful(h, Call(from, first \o a \o b, to))
               /\ \A c \in Seq(T) : Faithful(h, Call(from, first \o a \o b \o c, to))
    <2>1. Brings(h, Consistent, first, Down) /\ first \in Seq(Stageless)
      BY <1>2, PlantDown, DisarmDown
    <2>2. first \o a \o b = first \o (a \o b) /\ a \o b \in Seq(T)
      BY <1>3, <2>1, Assoc
    <2>3. ASSUME NEW c \in Seq(T)
          PROVE  first \o a \o b \o c = first \o (a \o b \o c) /\ a \o b \o c \in Seq(T)
      <3> DEFINE d == a \o b
      <3>1. d \in Seq(T) /\ first \o a \o b = first \o d
        BY <2>2
      <3> HIDE DEF d
      <3>2. d \o c \in Seq(T)
        BY <3>1
      <3>3. first \in Seq(Stageless) /\ d \in Seq(Stageless) /\ c \in Seq(Stageless)
        BY <1>3, <2>1, <3>1
      <3>4. first \o d \o c = first \o (d \o c)
        BY <3>3, Assoc
      <3> QED BY <3>1, <3>2, <3>4 DEF d
    <2>4. \A rest \in Seq(T) : Faithful(h, Call(from, first \o rest, to))
      BY <1>3, <2>1, DownFaithful
    <2> QED BY <2>2, <2>3, <2>4
  <1>6. Faithful(h, touchdown_now)
    BY <1>1, <1>4, <1>5 DEF touchdown_now, Touchdown
  <1>7. Faithful(h, failsafe_now)
    BY <1>1, <1>4, <1>5 DEF failsafe_now
  <1>8. Faithful(h, disarm_now)
    BY <1>1, <1>4, <1>5 DEF disarm_now, Disarm
  <1>9. Faithful(h, failsafe_disarm_now)
    BY <1>1, <1>4, <1>5 DEF failsafe_disarm_now, Disarm
  <1> QED BY <1>6, <1>7, <1>8, <1>9

LEMMA FaithfulCalls ==
    ASSUME NEW h \in Handle, NEW v, NEW c \in SessionCalls(v)
    PROVE  Faithful(h, c)
  <1>1. Faithful(h, attach) /\ Faithful(h, reattach)
    BY BindFaithful DEF attach, reattach
  <1> QED BY <1>1, NewFaithful, ArmFaithful, LandFaithful, GuardedSession, TameSession,
             DownSession DEF SessionCalls

-----------------------------------------------------------------------------
(* The session: its inductive invariant is that the world between two      *)
(* calls is consistent.                                                    *)

InvariantSession == World \in Consistent

LEMMA WorldFields ==
    /\ World.body = body /\ World.veh = veh /\ World.ok = TRUE
    /\ World \in WorldType <=> TypeOK
  <1>1. World.body = body /\ World.veh = veh /\ World.ok = TRUE
    BY DEF World
  <1>2. TypeOK => World \in WorldType
    BY DEF World, TypeOK, WorldType
  <1>3. World \in WorldType => TypeOK
    BY <1>1 DEF TypeOK, WorldType
  <1> QED BY <1>1, <1>2, <1>3

LEMMA InitConsistent == Init => InvariantSession
  <1> SUFFICES ASSUME Init PROVE World \in Consistent
    BY DEF InvariantSession
  <1>1. body \in Body /\ Sound(body.safety)
    BY DisconnectedSound, EpochMaxAssumption DEF Init, aerial_ready, Body, Sound, Setpoint
  <1>2. Fresh \in Vehicle /\ Sound(Fresh.shadow) /\ Fresh.permit = NoPermit
    BY DisconnectedSound, NoPermitType DEF Fresh, Vehicle, Sound, Setpoint, Kind
  <1>3. veh \in [Handle -> Vehicle] /\ \A h \in Handle : veh[h] = Fresh
    BY <1>2 DEF Init
  <1>4. TypeOK
    BY <1>1, <1>3 DEF TypeOK
  <1>5. \A h \in Handle : /\ Sound(veh[h].shadow) /\ Ordered(veh[h].permit, body.epoch)
                          /\ ~veh[h].permit.held
    BY <1>2, <1>3, NoPermitType DEF Ordered
  <1>6. Coherent(World) /\ Agrees(World)
    BY <1>1, <1>4, <1>5, WorldFields DEF Coherent, Agrees, Live
  <1> QED BY <1>4, <1>6, WorldFields DEF Consistent

\* The typestate a call compiles to, or that from_state picks.
LEMMA IntoType ==
    ASSUME NEW t \in Target, NEW v \in Vehicle
    PROVE  Into(t, v) \in Kind
  <1>1. v.kind \in Kind /\ v.shadow.phase \in Phase
    BY DEF Vehicle, SafetyState
  <1>2. CASE t = "same"
    BY <1>1, <1>2 DEF Into
  <1>3. CASE t = "shadow"
    <2>1. Into(t, v) = aerial_kind(v.shadow)
      BY <1>3 DEF Into
    <2>2. aerial_kind(v.shadow) \in Kind
      BY <1>1 DEF aerial_kind, Kind, Phase
    <2> QED
      BY <2>1, <2>2
  <1>4. CASE t \notin {"same", "shadow"}
    BY <1>4 DEF Into, Target
  <1> QED
    BY <1>2, <1>3, <1>4

\* A handle given a typestate, in a world that is coherent.
LEMMA GivenCoherent ==
    ASSUME NEW w, Coherent(w), NEW h \in Handle, NEW k \in Kind, NEW r \in WorldType,
           r.body = w.body, r.veh = [w.veh EXCEPT ![h].kind = k]
    PROVE  /\ Coherent(r)
           /\ \A g \in Handle : /\ r.veh[g].shadow = w.veh[g].shadow
                                /\ r.veh[g].permit = w.veh[g].permit
                                /\ r.veh[g].setpoint = w.veh[g].setpoint
                                /\ r.veh[g].kind = IF g = h THEN k ELSE w.veh[g].kind
  <1>1. w.veh \in [Handle -> Vehicle]
    BY DEF Coherent, WorldType
  <1>2. \A g \in Handle : /\ r.veh[g].shadow = w.veh[g].shadow
                          /\ r.veh[g].permit = w.veh[g].permit
                          /\ r.veh[g].setpoint = w.veh[g].setpoint
                          /\ r.veh[g].kind = IF g = h THEN k ELSE w.veh[g].kind
    BY <1>1 DEF Vehicle
  <1> QED BY <1>2 DEF Coherent

\* What a call leaves is the world its script leads to, and if it succeeded,
\* its typestate.
LEMMA PerformIs ==
    ASSUME World \in Consistent, NEW h \in Handle, NEW c, Faithful(h, c), Perform(h, c)
    PROVE  \E r \in Returned(h, c.into) :
             /\ Leads(h, World, c.does, r)
             /\ \A g \in Handle : veh[g].setpoint = "none" => r \in Unlost(g)
             /\ body' = r.body
             /\ veh' = IF r.ok THEN [r.veh EXCEPT ![h].kind = Into(c.into, r.veh[h])] ELSE r.veh
  <1> DEFINE r == Result(h, c)
  <1>1. Leads(h, World, c.does, r)
    BY ResultLeads DEF Faithful
  <1>2. World \in Started(h, c.from)
    BY WorldFields DEF Started, Perform
  <1>3. r \in Returned(h, c.into)
    BY <1>1, <1>2 DEF Faithful, Brings
  <1>4. ASSUME NEW g \in Handle, veh[g].setpoint = "none" PROVE r \in Unlost(g)
    <2>1. World \in Unstaged(g)
      BY <1>4, WorldFields DEF Unstaged, Coherents, Consistent
    <2> QED BY <1>1, <1>2, <2>1 DEF Faithful, Brings
  <1>5. body' = r.body /\ veh' = IF r.ok THEN [r.veh EXCEPT ![h].kind = Into(c.into, r.veh[h])]
                                         ELSE r.veh
    BY DEF Perform
  <1> HIDE DEF r
  <1> QED BY <1>1, <1>3, <1>4, <1>5

\* Between two calls, whatever handle is in play is what its permit promises.
LEMMA PerformConsistent ==
    ASSUME World \in Consistent, NEW h \in Handle, NEW c, Faithful(h, c), Perform(h, c)
    PROVE  /\ World' \in Consistent
           /\ \A g \in Handle : /\ Unsaturated' /\ veh'[g].setpoint = "lost"
                                => veh[g].setpoint # "none"
  <1>1. PICK r \in Returned(h, c.into) :
             /\ \A g \in Handle : veh[g].setpoint = "none" => r \in Unlost(g)
             /\ body' = r.body
             /\ veh' = IF r.ok THEN [r.veh EXCEPT ![h].kind = Into(c.into, r.veh[h])] ELSE r.veh
    BY PerformIs
  <1> DEFINE k == Into(c.into, r.veh[h])
             n == World'
  <1>2. Coherent(r) /\ AgreesBut(r, h) /\ r \in WorldType
    BY DEF Returned, Coherents
  <1>3. k \in Kind
    BY <1>2, IntoType, FieldsCoherent DEF Faithful
  <1>4. n.body = r.body /\ n.veh = veh' /\ n.ok = TRUE
        /\ n = [body |-> body', veh |-> veh', ok |-> TRUE]
    BY <1>1 DEF World
  <1>5. r.body \in Body /\ r.veh \in [Handle -> Vehicle]
    BY <1>2 DEF Coherent, WorldType
  <1>6. veh' \in [Handle -> Vehicle]
    BY <1>1, <1>3, <1>5 DEF Vehicle
  <1>7. n \in WorldType
    BY <1>1, <1>4, <1>5, <1>6 DEF WorldType
  <1>8. CASE r.ok
    <2>1. n.veh = [r.veh EXCEPT ![h].kind = k]
      BY <1>1, <1>4, <1>8
    <2> HIDE DEF n, k
    <2>2. Coherent(n) /\ \A g \in Handle : /\ n.veh[g].shadow = r.veh[g].shadow
                                           /\ n.veh[g].permit = r.veh[g].permit
                                           /\ n.veh[g].setpoint = r.veh[g].setpoint
                                           /\ n.veh[g].kind = IF g = h THEN k ELSE r.veh[g].kind
      BY <1>2, <1>3, <1>4, <1>7, <2>1, GivenCoherent
    <2>3. \A g \in Handle : Live(n, g) => Live(r, g)
      BY <1>4, <2>2 DEF Live
    <2>4. r.body.epoch < EpochMax /\ Live(r, h) => grants_actuation(k)
      BY <1>8 DEF Returned, k
    <2>5. Agrees(n)
      BY <1>2, <1>4, <2>2, <2>3, <2>4 DEF Agrees, AgreesBut
    <2>6. \A g \in Handle : Unsaturated' /\ veh'[g].setpoint = "lost" => veh[g].setpoint # "none"
      BY <1>1, <1>4, <2>2 DEF Unsaturated, Unlost
    <2> QED BY <2>2, <2>5, <2>6, <1>7 DEF Consistent, n
  <1>9. CASE ~r.ok
    <2>1. n.veh = r.veh /\ Agrees(r)
      BY <1>1, <1>4, <1>9 DEF Returned
    <2> HIDE DEF n
    <2>2. Coherent(n)
      BY <1>2, <1>4, <1>7, <2>1 DEF Coherent
    <2>3. Agrees(n)
      BY <1>4, <2>1 DEF Agrees, Live
    <2>4. \A g \in Handle : Unsaturated' /\ veh'[g].setpoint = "lost" => veh[g].setpoint # "none"
      BY <1>1, <1>4, <2>1 DEF Unsaturated, Unlost
    <2> QED BY <2>2, <2>3, <2>4, <1>7 DEF Consistent, n
  <1> QED BY <1>8, <1>9

\* The other actors: they call no handle, and put no setpoint.
LEMMA OthersConsistent ==
    ASSUME World \in Consistent, NEW r \in Consistent, body' = r.body, veh' = r.veh
    PROVE  World' \in Consistent
  <1> DEFINE n == World'
  <1>1. n.body = r.body /\ n.veh = r.veh /\ n.ok = TRUE
        /\ n = [body |-> body', veh |-> veh', ok |-> TRUE]
    BY DEF World
  <1>2. Coherent(r) /\ Agrees(r) /\ r.body \in Body /\ r.veh \in [Handle -> Vehicle]
    BY DEF Consistent, Coherent, WorldType
  <1>3. n \in WorldType
    BY <1>1, <1>2 DEF WorldType
  <1> HIDE DEF n
  <1>4. Coherent(n) /\ Agrees(n)
    BY <1>1, <1>2, <1>3 DEF Coherent, Agrees, Live
  <1> QED BY <1>3, <1>4 DEF Consistent, n

LEMMA EventOthers ==
    ASSUME World \in Consistent, NEW e \in Revokes_on, inject_revoke(e)
    PROVE  /\ World' \in Consistent
           /\ \A g \in Handle : veh'[g].kind = veh[g].kind
           /\ \A g \in Handle : veh[g].setpoint = "none" => veh'[g].setpoint = "none"
  <1> DEFINE r == aerial_event(World, e)
             s == World.body.safety
  <1>1. e \in Event
    BY RevokesAssumption DEF event_revokes_authority, Event
  <1>2. Admits(World.body.safety, e) /\ body' = r.body /\ veh' = r.veh
    BY WorldFields DEF inject_revoke
  <1>3. r \in Consistent /\ Taken(World, e, r)
    BY <1>1, <1>2, EventConsistent, EventIs DEF Consistent
  <1> HIDE DEF r
  <1>4. ASSUME NEW g \in Handle
        PROVE  /\ veh'[g].kind = veh[g].kind
               /\ veh[g].setpoint = "none" => veh'[g].setpoint = "none"
    <2>1. veh'[g] = Demoted(veh[g], Loss(s, After(s, e), e))
      BY <1>2, <1>3, WorldFields DEF Taken
    <2>2. veh[g] \in Vehicle
      BY WorldFields, FieldsCoherent DEF Consistent
    <2> HIDE DEF s
    <2> QED BY <2>1, <2>2, DemotedIs, DowngradeNone
  <1> QED BY <1>2, <1>3, <1>4, OthersConsistent

LEMMA StepOthers ==
    ASSUME World \in Consistent, NEW o \in StepOutcome, step(o)
    PROVE  /\ World' \in Consistent
           /\ \A g \in Handle : veh'[g].kind = veh[g].kind
           /\ \A g \in Handle : veh[g].setpoint = "none" => veh'[g].setpoint = "none"
  <1> DEFINE st == [op |-> o, e |-> "none"]
  <1>1. PICK h \in Handle : body' = Run(World, h, st).body /\ veh' = Run(World, h, st).veh
    BY DEF step
  <1>2. st \in StepOf /\ st \in Tame /\ st.op # "stage"
    BY InKinds DEF StepOutcome, StepName, Tame
  <1> HIDE DEF st
  <1>3. Run(World, h, st) \in Consistent
    BY <1>2, TameConsistent
  <1>4. \A g \in Handle : /\ Run(World, h, st).veh[g].kind = World.veh[g].kind
                          /\ World.veh[g].setpoint = "none"
                               => Run(World, h, st).veh[g].setpoint = "none"
    BY <1>2, RunFrame DEF Consistent
  <1> QED BY <1>1, <1>3, <1>4, OthersConsistent, WorldFields

LEMMA NextCalls ==
    ASSUME Next
    PROVE  \/ \E h \in Handle : \E c \in SessionCalls(veh[h]) : Perform(h, c)
           \/ \E e \in Revokes_on : inject_revoke(e)
           \/ \E o \in StepOutcome : step(o)
  <1>1. ASSUME NEW h \in Handle,
               \/ Attach(h) \/ Reattach(h) \/ New(h) \/ Connect(h) \/ VerifyPreflight(h)
               \/ Arm(h) \/ EnterOffboardNow(h) \/ AcquireOffboard(h) \/ RenewOffboard(h)
        PROVE  \E c \in SessionCalls(veh[h]) : Perform(h, c)
    BY <1>1 DEF Attach, Reattach, New, Connect, VerifyPreflight, Arm, EnterOffboardNow,
                AcquireOffboard, RenewOffboard, SessionCalls
  <1>2. ASSUME NEW h \in Handle,
               \/ StartTakeoffNow(h) \/ TakeoffAll(h) \/ DeclareAirborne(h)
               \/ SetVelocity(h) \/ SetThrust(h) \/ BeginLand(h) \/ LandAll(h)
        PROVE  \E c \in SessionCalls(veh[h]) : Perform(h, c)
    BY <1>2 DEF StartTakeoffNow, TakeoffAll, DeclareAirborne, SetVelocity, SetThrust,
                BeginLand, LandAll, SessionCalls
  <1>3. ASSUME NEW h \in Handle,
               \/ TouchdownNow(h) \/ DisarmNow(h) \/ FailsafeNow(h) \/ RecoverNow(h)
               \/ Tick(h) \/ Flush(h)
        PROVE  \E c \in SessionCalls(veh[h]) : Perform(h, c)
    BY <1>3 DEF TouchdownNow, DisarmNow, FailsafeNow, RecoverNow, Tick, Flush, SessionCalls
  <1> QED BY <1>1, <1>2, <1>3 DEF Next

LEMMA NextConsistent ==
    InvariantSession /\ [Next]_vars => InvariantSession'
  <1> SUFFICES ASSUME World \in Consistent, [Next]_vars PROVE World' \in Consistent
    BY DEF InvariantSession
  <1>1. CASE Next
    BY <1>1, NextCalls, FaithfulCalls, PerformConsistent, EventOthers, StepOthers
  <1>2. CASE UNCHANGED vars
    BY <1>2 DEF vars, World
  <1> QED BY <1>1, <1>2

THEOREM SessionConsistent == Spec => []InvariantSession
  BY InitConsistent, NextConsistent, PTL DEF Spec

\* Every value a session keeps is well formed, for any number of handles and
\* any lease: no call leaves half a permit or a kernel state that
\* check_invariants would turn down.
THEOREM SessionTypes == Spec => []TypeOK
  <1>1. InvariantSession => TypeOK
    BY WorldFields DEF InvariantSession, Consistent
  <1> QED BY <1>1, SessionConsistent, PTL

LEMMA ConsistentOrder == InvariantSession => EpochOrder /\ LostPermitsStale
  <1> SUFFICES ASSUME InvariantSession, NEW h \in Handle
               PROVE  /\ veh[h].permit.held =>
                           /\ veh[h].permit.epoch <= body.epoch
                           /\ Unsaturated /\ veh[h].permit.standing = "lost"
                                => veh[h].permit.epoch < body.epoch
                      /\ Unsaturated /\ veh[h].permit.standing = "lost" => ~PermitCurrent(h)
    BY DEF EpochOrder, LostPermitsStale
  <1>1. Ordered(veh[h].permit, body.epoch) /\ body.epoch \in 0..EpochMax
    BY WorldFields, FieldsCoherent DEF InvariantSession, Consistent
  <1> QED BY <1>1 DEF Ordered, Unsaturated, PermitCurrent

\* Permits never run ahead of the plant's epoch, and those issued before a
\* loss of authority are behind it.
THEOREM EpochsOrdered == Spec => []EpochOrder
  BY ConsistentOrder, SessionConsistent, PTL

\* A permit issued before the vehicle failed safe, was disarmed or reconnected
\* is never admitted by the epoch check after, until the counter saturates.
THEOREM LostStaysStale == Spec => []LostPermitsStale
  BY ConsistentOrder, SessionConsistent, PTL

LEMMA ConsistentLive == InvariantSession => CurrentMeansLive /\ TypedAuthority
  <1> SUFFICES ASSUME InvariantSession, Unsaturated, NEW h \in Handle,
                      PermitCurrent(h), veh[h].permit.standing = "now"
               PROVE  /\ body.safety.armed /\ ~body.safety.failsafe
                      /\ grants_actuation(veh[h].kind)
                      /\ veh[h].shadow.armed /\ ~veh[h].shadow.failsafe
    BY DEF CurrentMeansLive, TypedAuthority
  <1>1. Agrees(World) /\ Live(World, h)
    BY WorldFields DEF InvariantSession, Consistent, PermitCurrent, Live
  <1> QED BY <1>1, WorldFields DEF Agrees, Flying, Unsaturated

\* A permit the epoch admits is held over a plant that is armed and has not
\* failed safe, unless a touchdown came after it.
THEOREM CurrentIsLive == Spec => []CurrentMeansLive
  BY ConsistentLive, SessionConsistent, PTL

\* Such a permit is held by a handle typed for actuation, whose own copy of the
\* kernel is armed and clear: typestate, shadow and plant agree.
THEOREM AuthorityTyped == Spec => []TypedAuthority
  BY ConsistentLive, SessionConsistent, PTL

\* No call, by whatever handle and whatever came before it, stages a setpoint
\* under authority that is lost.
THEOREM SetpointsArePermitted == Spec => SetpointsPermitted
  <1> DEFINE Staged == \A h \in Handle : Unsaturated' /\ veh'[h].setpoint = "lost"
                         => veh[h].setpoint # "none"
             Permitted == Unsaturated' =>
                            \A h \in Handle : veh'[h].setpoint = "lost" => veh[h].setpoint # "none"
  <1>1. InvariantSession /\ [Next]_vars => [Permitted]_vars
    <2> SUFFICES ASSUME World \in Consistent, Next PROVE Staged
      BY DEF InvariantSession
    <2>1. ASSUME NEW h \in Handle, NEW c \in SessionCalls(veh[h]), Perform(h, c) PROVE Staged
      BY <2>1, FaithfulCalls, PerformConsistent
    <2>2. ASSUME NEW e \in Revokes_on, inject_revoke(e) PROVE Staged
      BY <2>2, EventOthers
    <2>3. ASSUME NEW o \in StepOutcome, step(o) PROVE Staged
      BY <2>3, StepOthers
    <2> HIDE DEF Staged
    <2> QED BY <2>1, <2>2, <2>3, NextCalls
  <1> QED BY <1>1, SessionConsistent, PTL DEF Spec, SetpointsPermitted

\* The calls that take a handle from one typestate with motors to another show
\* its permit first, or bind it anew and leave the body alone.
Binding == {st \in StepOf : st.op \in {"unstage", "read", "wrap"}}

Honest(c) ==
    \/ c.does \in Guarded
    \/ c.into = "same"
    \/ c.into \in Kind \ MotorsEnabled
    \/ c.from \cap MotorsEnabled = {}
    \/ c.does \in Seq(Binding)

LEMMA HonestCalls ==
    ASSUME NEW v, NEW c \in SessionCalls(v)
    PROVE  Honest(c)
  <1>1. /\ Op("unstage") \in Seq(Binding) /\ Op("read") \in Seq(Binding)
        /\ Op("wrap") \in Seq(Binding)
    <2>1. \A op \in {"unstage", "read", "wrap"} : [op |-> op, e |-> "none"] \in Binding
      BY InKinds DEF Binding, StepName
    <2> QED BY <2>1, OneIn
  <1>2. Honest(attach) /\ Honest(reattach)
    BY <1>1 DEF attach, reattach, Call, Honest
  <1>3. /\ Honest(enter_offboard_now) /\ Honest(acquire_offboard_control_now)
        /\ Honest(renew_offboard_control_now) /\ Honest(start_takeoff_now)
        /\ Honest(declare_airborne_now) /\ Honest(offboard_command)
        /\ Honest(set_motor_thrust_now(v)) /\ Honest(begin_land_now)
        /\ \A o \in StepOutcome : Honest(takeoff(o)) /\ Honest(armed_takeoff(o))
    BY GuardedCalls
       DEF enter_offboard_now, acquire_offboard_control_now, renew_offboard_control_now,
           start_takeoff_now, declare_airborne_now, offboard_command,
           takeoff, armed_takeoff, Call, Honest
  <1>4. /\ Honest(new) /\ Honest(connect) /\ Honest(touchdown_now) /\ Honest(disarm_now)
        /\ Honest(failsafe_disarm_now) /\ Honest(failsafe_now) /\ Honest(recover_now)
        /\ \A phase \in {"ready", "preflight"} : Honest(verify_preflight(phase))
        /\ \A o \in StepOutcome : Honest(land(o))
    BY DEF new, connect, touchdown_now, disarm_now, failsafe_disarm_now, failsafe_now,
           recover_now, verify_preflight, land, Call, Honest, Kind, MotorsEnabled,
           OffboardControl
  <1>5. Honest(arm_now) /\ Honest(flush) /\ \A o \in StepOutcome : Honest(tick(o))
    BY DEF arm_now, flush, tick, Call, Honest, MotorsEnabled, OffboardControl
  <1> QED BY <1>2, <1>3, <1>4, <1>5 DEF SessionCalls

\* Binding a handle reads the body.
LEMMA BindingReads ==
    ASSUME NEW h \in Handle, NEW w, Coherent(w), NEW does \in Seq(Binding), NEW r,
           Leads(h, w, does, r)
    PROVE  r.body = w.body
  <1> DEFINE W == {x \in Coherents : x.body = w.body}
  <1>1. ASSUME NEW x \in W, NEW st \in Binding PROVE Run(x, h, st) \in W
    <2>1. Coherent(x) /\ x.body = w.body /\ st \in StepOf
      BY DEF Coherents, Binding
    <2>2. Coherent(Run(x, h, st))
      BY <2>1, RunCoherent
    <2>3. CASE st.op = "unstage"
      <3>1. Run(x, h, st) = [x EXCEPT !.veh[h].setpoint = "none"]
        BY <2>3 DEF Run
      <3>2. [x EXCEPT !.veh[h].setpoint = "none"].body = x.body
        BY <2>1 DEF Coherent, WorldType
      <3> QED BY <2>1, <2>2, <3>1, <3>2 DEF Coherents, Coherent
    <2>4. CASE st.op = "read"
      <3> DEFINE y == [x EXCEPT !.veh[h] = [x.veh[h] EXCEPT !.shadow = x.body.safety,
                                                           !.permit = NoPermit]]
      <3>1. Run(x, h, st) = y
        BY <2>4 DEF Run
      <3>2. y.body = x.body
        BY <2>1 DEF Coherent, WorldType
      <3> HIDE DEF y
      <3> QED BY <2>1, <2>2, <3>1, <3>2 DEF Coherents, Coherent
    <2>5. CASE st.op = "wrap"
      <3>1. Run(x, h, st) = x \/ Run(x, h, st) = issue(x, h, Unbounded, "now")
        BY <2>5 DEF Run
      <3>2. issue(x, h, Unbounded, "now").body = x.body
        BY DEF issue
      <3> QED BY <2>1, <2>2, <3>1, <3>2 DEF Coherents, Coherent
    <2> QED BY <2>3, <2>4, <2>5 DEF Binding
  <1>2. w \in W
    BY DEF Coherents, Coherent
  <1> HIDE DEF W
  <1>3. r \in W
    BY <1>1, <1>2, LeadsIn
  <1> QED BY <1>3 DEF W

LEMMA HonestAdvance ==
    ASSUME World \in Consistent, NEW g \in Handle, NEW c, Faithful(g, c), Honest(c),
           Perform(g, c), NEW h \in Handle,
           veh[h].kind \in MotorsEnabled, ~PermitLive(h),
           veh'[h].kind \in MotorsEnabled \ {veh[h].kind}
    PROVE  body' = body
  <1>1. PICK r \in Returned(g, c.into) :
             /\ Leads(g, World, c.does, r)
             /\ body' = r.body
             /\ veh' = IF r.ok THEN [r.veh EXCEPT ![g].kind = Into(c.into, r.veh[g])] ELSE r.veh
    BY PerformIs
  <1>2. Coherent(World) /\ Coherent(r) /\ r.veh \in [Handle -> Vehicle]
    BY DEF Consistent, Returned, Coherents, Coherent, WorldType
  <1>3. \A k \in Handle : r.veh[k].kind = veh[k].kind
    <2> SUFFICES ASSUME NEW k \in Handle PROVE r.veh[k].kind = veh[k].kind
      OBVIOUS
    <2>1. World \in KindOf(k, veh[k].kind)
      BY <1>2, WorldFields DEF KindOf, Coherents, Coherent
    <2>2. r \in KindOf(k, veh[k].kind)
      BY <1>1, <2>1, KindKeeps DEF Brings, Faithful
    <2> QED BY <2>2 DEF KindOf
  <1>4. r.ok /\ g = h /\ Into(c.into, r.veh[h]) = veh'[h].kind
    BY <1>1, <1>2, <1>3 DEF Vehicle
  <1>5. c.does \notin Guarded
    <2>1. SUFFICES ASSUME c.does \in Guarded PROVE FALSE
      OBVIOUS
    <2>2. ~(EpochCurrent(World, h) /\ LeaseLive(World, h))
      BY WorldFields DEF PermitLive, PermitCurrent, EpochCurrent, LeaseLive
    <2>3. r = Refuse(World)
      BY <1>1, <1>4, <2>1, <2>2, WorldFields, BarredFails
    <2> QED BY <1>4, <2>3, RunConsistentFails
  <1>6. c.into # "same" /\ c.into \notin Kind \ MotorsEnabled
    <2>1. "shadow" \notin Kind /\ "same" \notin Kind
      BY DEF Kind
    <2> QED BY <1>3, <1>4, <2>1 DEF Into
  <1>7. c.from \cap MotorsEnabled # {}
    BY <1>4 DEF Perform
  <1>8. c.does \in Seq(Binding)
    BY <1>5, <1>6, <1>7 DEF Honest
  <1> QED BY <1>1, <1>2, <1>8, BindingReads, WorldFields

\* A handle whose permit is dead gets to no other typestate with motors by a
\* call that moves the body.
THEOREM LeftoversStay == Spec => LeftoversCannotAdvance
  <1> DEFINE Leftover(h) == /\ veh[h].kind \in MotorsEnabled /\ ~PermitLive(h)
                            /\ veh'[h].kind \in MotorsEnabled \ {veh[h].kind}
             Advancing == \A h \in Handle :
                           /\ veh[h].kind \in MotorsEnabled /\ ~PermitLive(h)
                           /\ veh'[h].kind \in MotorsEnabled \ {veh[h].kind}
                           => body' = body
  <1>1. InvariantSession /\ [Next]_vars => [Advancing]_vars
    <2> SUFFICES ASSUME World \in Consistent, Next, NEW h \in Handle, Leftover(h)
                 PROVE  body' = body
      BY DEF InvariantSession
    <2>1. ASSUME NEW g \in Handle, NEW c \in SessionCalls(veh[g]), Perform(g, c)
          PROVE  body' = body
      BY <2>1, FaithfulCalls, HonestCalls, HonestAdvance
    <2>2. ASSUME NEW e \in Revokes_on, inject_revoke(e) PROVE FALSE
      BY <2>2, EventOthers
    <2>3. ASSUME NEW o \in StepOutcome, step(o) PROVE FALSE
      BY <2>3, StepOthers
    <2> HIDE DEF Leftover
    <2> QED BY <2>1, <2>2, <2>3, NextCalls
  <1> QED BY <1>1, SessionConsistent, PTL DEF Spec, LeftoversCannotAdvance

-----------------------------------------------------------------------------
(* The calls taken apart: what holds between the steps of calls that run   *)
(* at the same time.                                                       *)

\* A step of one handle ends no permit of another but by the epoch, which only
\* grows.
LEMMA RunPermits ==
    ASSUME NEW w, Coherent(w), NEW h \in Handle, NEW st \in StepOf
    PROVE  /\ w.body.epoch <= Run(w, h, st).body.epoch
           /\ \A g \in Handle : g # h =>
                /\ Run(w, h, st).veh[g].permit.held = w.veh[g].permit.held
                /\ Run(w, h, st).veh[g].permit.epoch = w.veh[g].permit.epoch
  <1> DEFINE v == w.veh[h]
             s == w.body.safety
             r == Run(w, h, st)
             Kept(x) == /\ w.body.epoch <= x.body.epoch
                        /\ \A g \in Handle : g # h =>
                             /\ x.veh[g].permit.held = w.veh[g].permit.held
                             /\ x.veh[g].permit.epoch = w.veh[g].permit.epoch
  <1>0. /\ st.op \in StepName /\ w.body.epoch \in 0..EpochMax
        /\ \A g \in Handle : w.veh[g] \in Vehicle
    BY StepType, FieldsCoherent
  <1>1. w.body.epoch <= bump_authority(w.body.epoch) /\ w.body.epoch <= w.body.epoch
    BY <1>0, BumpUp
  <1>2. CASE st.op \in Quiet
    <2>1. SameStanding(w, r)
      BY <1>2, QuietIs
    <2> HIDE DEF r
    <2>2. Kept(r)
      BY <1>1, <2>1 DEF SameStanding, SamePermit
    <2> QED BY <2>2 DEF r
  <1>3. Kept(w) /\ Kept(Refuse(w))
    BY <1>1 DEF Refuse, Coherent, WorldType
  <1>4. ASSUME NEW e PROVE Kept(aerial_event(w, e))
    <2> DEFINE x == aerial_event(w, e)
    <2>1. Taken(w, e, x)
      BY EventIs
    <2> HIDE DEF x
    <2>2. w.body.epoch <= x.body.epoch
      BY <1>1, <2>1 DEF Taken
    <2>3. \A g \in Handle : /\ x.veh[g].permit.held = w.veh[g].permit.held
                            /\ x.veh[g].permit.epoch = w.veh[g].permit.epoch
      <3> SUFFICES ASSUME NEW g \in Handle
                   PROVE /\ x.veh[g].permit.held = w.veh[g].permit.held
                         /\ x.veh[g].permit.epoch = w.veh[g].permit.epoch
        OBVIOUS
      <3>1. x.veh[g] = Demoted(w.veh[g], Loss(s, After(s, e), e))
        BY <2>1 DEF Taken
      <3> HIDE DEF s
      <3> QED BY <1>0, <3>1, DemotedIs
    <2>4. Kept(x)
      BY <2>2, <2>3
    <2> QED BY <2>4 DEF x
  <1>5. CASE st.op \in {"plant", "attempt"}
    <2>1. r = aerial_event(w, st.e) \/ r = w \/ r = Refuse(w)
      BY <1>5 DEF Run
    <2> HIDE DEF Kept
    <2>2. Kept(r)
      BY <1>3, <1>4, <2>1
    <2> QED BY <2>2 DEF Kept
  <1>6. CASE st.op = "shadow"
    <2> DEFINE x == [w EXCEPT !.veh[h].shadow = After(v.shadow, st.e)]
    <2>1. r = x \/ r = Refuse(w)
      BY <1>6 DEF Run
    <2>2. x.body = w.body /\ \A g \in Handle : x.veh[g].permit = w.veh[g].permit
      BY ShadowIs
    <2> HIDE DEF x
    <2>3. Kept(x)
      BY <1>1, <2>2
    <2> HIDE DEF Kept
    <2>4. Kept(r)
      BY <1>3, <2>1, <2>3
    <2> QED BY <2>4 DEF Kept
  <1>7. CASE st.op = "revoke"
    <2> DEFINE x == [Suffer(w, "lost") EXCEPT !.body.epoch = bump_authority(@)]
    <2>1. r = x
      BY <1>7 DEF Run
    <2>2. x.body.epoch = bump_authority(w.body.epoch)
          /\ \A g \in Handle : x.veh[g] = Demoted(w.veh[g], "lost")
      BY RevokeIs
    <2> HIDE DEF x
    <2>3. Kept(x)
      BY <1>0, <1>1, <2>2, DemotedIs
    <2> HIDE DEF Kept
    <2>4. Kept(r)
      BY <2>1, <2>3
    <2> QED BY <2>4 DEF Kept
  <1>8. CASE st.op \in {"new", "read"}
    <2>1. PICK y : r = [w EXCEPT !.veh[h] = [w.veh[h] EXCEPT !.shadow = y, !.permit = NoPermit]]
      BY <1>8 DEF Run
    <2> DEFINE x == [w EXCEPT !.veh[h] = [w.veh[h] EXCEPT !.shadow = y, !.permit = NoPermit]]
    <2>2. x.body = w.body /\ \A g \in Handle : g # h => x.veh[g] = w.veh[g]
      BY DEF Coherent, WorldType
    <2> HIDE DEF x
    <2>3. Kept(x)
      BY <1>1, <2>2
    <2> HIDE DEF Kept
    <2>4. Kept(r)
      BY <2>1, <2>3 DEF x
    <2> QED BY <2>4 DEF Kept
  <1>9. CASE st.op \in {"issue", "reissue", "issue_bounded", "wrap"}
    <2>1. r = w \/ \E left, standing : r = issue(w, h, left, standing)
      BY <1>9 DEF Run
    <2>2. ASSUME NEW left, NEW standing PROVE Kept(issue(w, h, left, standing))
      <3> DEFINE x == issue(w, h, left, standing)
      <3>1. Issued(w, h, left, standing, x)
        BY IssueIs
      <3> HIDE DEF x
      <3>2. Kept(x)
        BY <1>1, <3>1 DEF Issued
      <3> QED BY <3>2 DEF x
    <2> HIDE DEF Kept
    <2>3. Kept(r)
      BY <1>3, <2>1, <2>2
    <2> QED BY <2>3 DEF Kept
  <1> QED BY <1>0, <1>2, <1>5, <1>6, <1>7, <1>8, <1>9 DEF StepName, Quiet

\* Steps that use no permit: no setpoint, no renewal, no motors.
Harmless == {st \in StepOf :
               /\ st.op \notin {"stage", "reissue", "issue_bounded"}
               /\ st.op \in {"plant", "attempt"} => st.e \notin {"EnableActuators", "Takeoff"}}

LEMMA HarmlessMotors ==
    ASSUME NEW w, Coherent(w), NEW h \in Handle, NEW st \in Harmless,
           Run(w, h, st).body.safety.actuators_enabled
    PROVE  w.body.safety.actuators_enabled
  <1> DEFINE v == w.veh[h]
             s == w.body.safety
             r == Run(w, h, st)
             Same(x) == x.body.safety = s
  <1>0. /\ st \in StepOf /\ st.op \in StepName /\ s \in SafetyState
        /\ (st.op \in {"plant", "attempt"} => st.e \in Event)
    BY StepType, BodyCoherent DEF Harmless, Sound
  <1>1. CASE st.op \in {"plant", "attempt"}
    <2>1. r = aerial_event(w, st.e) \/ r = w \/ r = Refuse(w)
      BY <1>1 DEF Run
    <2>2. Taken(w, st.e, aerial_event(w, st.e))
      BY EventIs
    <2>3. aerial_event(w, st.e).body.safety = After(s, st.e)
      BY <2>2 DEF Taken
    <2>4. After(s, st.e).actuators_enabled => s.actuators_enabled
      BY <1>0, <1>1, AfterAuthority DEF Harmless
    <2>5. Refuse(w).body = w.body
      BY DEF Refuse, Coherent, WorldType
    <2> HIDE DEF s, r
    <2>6. r.body.safety \in {After(s, st.e), s}
      BY <2>1, <2>3, <2>5 DEF s
    <2> QED BY <2>4, <2>6 DEF s, r
  <1>2. CASE st.op \in Quiet
    <2>1. SameStanding(w, r)
      BY <1>0, <1>2, QuietIs
    <2> QED BY <2>1 DEF SameStanding
  <1>3. CASE st.op = "shadow"
    <2> DEFINE x == [w EXCEPT !.veh[h].shadow = After(v.shadow, st.e)]
    <2>1. r = x \/ r = Refuse(w)
      BY <1>3 DEF Run
    <2>2. x.body = w.body /\ Refuse(w).body = w.body
      BY ShadowIs DEF Refuse, Coherent, WorldType
    <2> HIDE DEF x
    <2> QED BY <2>1, <2>2
  <1>4. CASE st.op = "revoke"
    <2> DEFINE x == [Suffer(w, "lost") EXCEPT !.body.epoch = bump_authority(@)]
    <2>1. r = x
      BY <1>4 DEF Run
    <2>2. x.body.safety = w.body.safety
      BY RevokeIs
    <2> HIDE DEF x
    <2> QED BY <2>1, <2>2
  <1>5. CASE st.op \in {"new", "read"}
    <2>1. PICK y : r = [w EXCEPT !.veh[h] = [w.veh[h] EXCEPT !.shadow = y, !.permit = NoPermit]]
      BY <1>5 DEF Run
    <2>2. [w EXCEPT !.veh[h] = [w.veh[h] EXCEPT !.shadow = y, !.permit = NoPermit]].body = w.body
      BY DEF Coherent, WorldType
    <2> QED BY <2>1, <2>2
  <1>6. CASE st.op \in {"issue", "wrap"}
    <2>1. r = w \/ r = issue(w, h, Unbounded, "now")
      BY <1>6 DEF Run
    <2>2. issue(w, h, Unbounded, "now").body = w.body
      BY DEF issue, Coherent, WorldType
    <2> QED BY <2>1, <2>2
  <1> QED BY <1>0, <1>1, <1>2, <1>3, <1>4, <1>5, <1>6 DEF Harmless, StepName, Quiet

\* A call shows its permit first, or uses none.
LEMMA NamedHarmless ==
    ASSUME NEW name \in CallName, NEW v
    PROVE  Named(name, v).does \in Guarded \cup Seq(Harmless)
  <1> DEFINE c == Named(name, v)
  <1>1. /\ \A op \in {"unstage", "read", "wrap", "new", "revoke", "issue", "clear", "flush",
                      "granted"} : Op(op) \in Seq(Harmless)
        /\ \A e \in Event : Shadow(e) \in Seq(Harmless)
        /\ \A e \in Event \ {"EnableActuators", "Takeoff"} :
             Plant(e) \in Seq(Harmless) /\ Attempt(e) \in Seq(Harmless)
    <2>1. /\ \A op \in {"unstage", "read", "wrap", "new", "revoke", "issue", "clear", "flush",
                        "granted"} : [op |-> op, e |-> "none"] \in Harmless
          /\ \A e \in Event : [op |-> "shadow", e |-> e] \in Harmless
          /\ \A e \in Event \ {"EnableActuators", "Takeoff"} :
               /\ [op |-> "plant", e |-> e] \in Harmless
               /\ [op |-> "attempt", e |-> e] \in Harmless
      BY InKinds DEF Harmless, StepName
    <2> QED BY <2>1, OneIn DEF Shadow, Plant, Attempt
  <1>2. /\ \A op \in {"wrap", "issue", "revoke", "flush", "clear", "granted"} :
             Op(op) \in Seq(Harmless)
        /\ \A e \in {"Connect", "InitComplete", "Initialized", "Arm", "Touchdown", "Disarm",
                     "TriggerFailsafe", "Recover"} :
             /\ Plant(e) \in Seq(Harmless)
             /\ Attempt(e) \in Seq(Harmless)
             /\ Shadow(e) \in Seq(Harmless)
    BY <1>1 DEF Event
  <1>3. CASE name \in {"attach", "new", "connect", "arm"}
    <2>1. c \in {attach, new, connect, arm_now}
      BY <1>3 DEF Named
    <2>2. attach.does \in Seq(Harmless) /\ new.does \in Seq(Harmless)
      BY <1>1 DEF attach, new, Call
    <2>3. connect.does \in Seq(Harmless)
      BY <1>1, <1>2 DEF connect, Call
    <2>4. arm_now.does \in Seq(Harmless)
      BY <1>1, <1>2 DEF arm_now, Call
    <2> QED BY <2>1, <2>2, <2>3, <2>4
  <1>4. CASE name \in {"enter_offboard", "acquire", "renew", "start_takeoff",
                       "declare_airborne", "command", "begin_land", "thrust"}
    <2>1. c \in {enter_offboard_now, acquire_offboard_control_now, renew_offboard_control_now,
                 start_takeoff_now, declare_airborne_now, offboard_command, begin_land_now,
                 set_motor_thrust_now(v)}
      BY <1>4 DEF Named
    <2>2. /\ enter_offboard_now.does \in Guarded /\ acquire_offboard_control_now.does \in Guarded
          /\ renew_offboard_control_now.does \in Guarded /\ start_takeoff_now.does \in Guarded
          /\ declare_airborne_now.does \in Guarded /\ offboard_command.does \in Guarded
      BY GuardedCalls DEF enter_offboard_now, acquire_offboard_control_now,
         renew_offboard_control_now, start_takeoff_now, declare_airborne_now,
         offboard_command, Call
    <2> QED BY <2>1, <2>2, GuardedCalls
  <1>5. CASE name \in {"touchdown", "disarm", "failsafe_disarm", "failsafe", "recover", "tick"}
    <2>1. c \in {touchdown_now, disarm_now, failsafe_disarm_now, failsafe_now, recover_now,
                 tick("granted")}
      BY <1>5 DEF Named
    <2>2. touchdown_now.does \in Seq(Harmless)
      BY <1>1, <1>2 DEF touchdown_now, Touchdown, Call
    <2>3. disarm_now.does \in Seq(Harmless) /\ failsafe_disarm_now.does \in Seq(Harmless)
      BY <1>1, <1>2 DEF disarm_now, failsafe_disarm_now, Disarm, Call
    <2>4. failsafe_now.does \in Seq(Harmless) /\ recover_now.does \in Seq(Harmless)
      BY <1>1, <1>2 DEF failsafe_now, recover_now, Call
    <2>5. tick("granted").does \in Seq(Harmless)
      BY <1>1 DEF tick, tick_body, Call
    <2> QED BY <2>1, <2>2, <2>3, <2>4, <2>5
  <1> QED BY <1>3, <1>4, <1>5 DEF CallName

(* The inductive invariant: the world between two steps is coherent, the   *)
(* steps still to come are steps, and a call that began on a stale permit  *)
(* either uses none or has yet to show it, still stale.                    *)

StaleGuard(h) ==
    stale[h] => \/ todo[h] \in Seq(Harmless)
                \/ todo[h] \in Guarded /\ EpochStale(h)

InvariantThreads ==
    /\ ThreadsTypeOK
    /\ Coherent(World)
    /\ \A h \in Handle : StaleGuard(h)

LEMMA ThreadsBegin == ThreadsInit => InvariantThreads
  <1> SUFFICES ASSUME ThreadsInit PROVE InvariantThreads
    OBVIOUS
  <1>1. Coherent(World) /\ TypeOK
    BY InitConsistent, WorldFields DEF ThreadsInit, InvariantSession, Consistent
  <1>2. ThreadsTypeOK /\ \A h \in Handle : ~stale[h]
    BY <1>1 DEF ThreadsInit, ThreadsTypeOK
  <1> QED BY <1>1, <1>2 DEF InvariantThreads, StaleGuard

\* A stale permit stays stale while other handles and actors take their steps:
\* the epoch it is behind only grows.
LEMMA StaleStays ==
    ASSUME Coherent(World), NEW g \in Handle, EpochStale(g), body.epoch <= body'.epoch,
           body'.epoch \in Nat,
           veh'[g].permit.held = veh[g].permit.held, veh'[g].permit.epoch = veh[g].permit.epoch
    PROVE  EpochStale(g)'
  <1>1. Ordered(veh[g].permit, body.epoch) /\ body.epoch \in Nat /\ veh[g].permit.epoch \in Nat
    BY WorldFields, FieldsCoherent, EpochMaxAssumption DEF Coherent, Vehicle, Permit
  <1> QED BY <1>1 DEF Ordered, EpochStale

LEMMA BeginKeeps ==
    ASSUME InvariantThreads, NEW h \in Handle, Begin(h)
    PROVE  InvariantThreads'
  <1>1. PICK name \in Repertoire :
           /\ todo' = [todo EXCEPT ![h] = Named(name, veh[h]).does]
           /\ into' = [into EXCEPT ![h] = Named(name, veh[h]).into]
    BY DEF Begin
  <1> DEFINE c == Named(name, veh[h])
  <1>2. /\ c.does \in Seq(StepOf) /\ c.into \in Kind \cup {"same", "shadow"}
        /\ c.does \in Guarded \cup Seq(Harmless)
    BY NamedType, NamedHarmless, RepertoireAssumption DEF Script, Target
  <1>3. /\ ThreadsTypeOK /\ Coherent(World)
        /\ body' = body /\ veh' = veh /\ stale' = [stale EXCEPT ![h] = EpochStale(h)]
    BY DEF Begin, InvariantThreads
  <1>4. EpochStale(h) \in BOOLEAN
    BY <1>3 DEF EpochStale, ThreadsTypeOK, TypeOK, Vehicle, Permit
  <1> HIDE DEF c
  <1>5. todo' = [todo EXCEPT ![h] = c.does] /\ into' = [into EXCEPT ![h] = c.into]
    BY <1>1 DEF c
  <1>6. ThreadsTypeOK'
    BY <1>2, <1>3, <1>4, <1>5 DEF ThreadsTypeOK, TypeOK
  <1>7. World' = World
    BY <1>3 DEF World
  <1>8. ASSUME NEW g \in Handle PROVE StaleGuard(g)'
    <2>1. StaleGuard(g) /\ (EpochStale(g)' <=> EpochStale(g))
      BY <1>3 DEF InvariantThreads, EpochStale
    <2>2. CASE g = h
      <3>1. todo'[g] = c.does /\ stale'[g] = EpochStale(g)
        BY <1>3, <1>5, <2>2 DEF ThreadsTypeOK
      <3> QED BY <1>2, <2>1, <3>1 DEF StaleGuard
    <2>3. CASE g # h
      <3>1. todo'[g] = todo[g] /\ stale'[g] = stale[g]
        BY <1>3, <1>5, <2>3 DEF ThreadsTypeOK
      <3> QED BY <2>1, <3>1 DEF StaleGuard
    <2> QED BY <2>2, <2>3
  <1> QED BY <1>3, <1>6, <1>7, <1>8 DEF InvariantThreads

\* A guarded call asks for the permit's epoch before all else, and fails there
\* if it is stale.
LEMMA StaleRefused ==
    ASSUME Coherent(World), NEW h \in Handle, NEW does \in Guarded, EpochStale(h)
    PROVE  /\ Head(does) = [op |-> "epoch", e |-> "none"]
           /\ Run(World, h, Head(does)) = Refuse(World)
  <1>1. PICK rest \in Seq(Calm) : does = Op("epoch") \o Op("lease") \o rest
    BY DEF Guarded, require_permit
  <1>2. /\ Op("epoch") \in Seq(Calm) /\ Op("lease") \in Seq(Calm)
    BY CalmPieces DEF Quiet
  <1>3. does = Op("epoch") \o (Op("lease") \o rest) /\ Op("lease") \o rest \in Seq(Calm)
    BY <1>1, <1>2, Assoc
  <1>4. Head(does) = [op |-> "epoch", e |-> "none"]
    BY <1>3 DEF Op
  <1>5. Run(World, h, [op |-> "epoch", e |-> "none"]) = Require(World, EpochCurrent(World, h))
    BY DEF Run
  <1>6. ~EpochCurrent(World, h)
    BY WorldFields DEF EpochStale, EpochCurrent
  <1> QED BY <1>4, <1>5, <1>6 DEF Require

LEMMA StepKeeps ==
    ASSUME InvariantThreads, NEW h \in Handle, Step(h)
    PROVE  InvariantThreads'
  <1> DEFINE st == Head(todo[h])
             r == Run(World, h, st)
             rest == Tail(todo[h])
             k == Into(into[h], r.veh[h])
  <1>0. ThreadsTypeOK /\ TypeOK /\ Coherent(World)
    BY DEF InvariantThreads, ThreadsTypeOK
  <1>1. st \in StepOf /\ rest \in Seq(StepOf) /\ todo[h] \in Seq(StepOf) /\ todo[h] # <<>>
    BY <1>0 DEF Step, Idle, ThreadsTypeOK
  <1>2. /\ Coherent(r) /\ World.body.epoch <= r.body.epoch
        /\ \A g \in Handle : g # h => /\ r.veh[g].permit.held = World.veh[g].permit.held
                                      /\ r.veh[g].permit.epoch = World.veh[g].permit.epoch
    BY <1>0, <1>1, RunCoherent, RunPermits
  <1>3. k \in Kind
    BY <1>0, <1>2, IntoType, FieldsCoherent DEF ThreadsTypeOK, Target
  <1>4. /\ body' = r.body
        /\ \/ veh' = r.veh
           \/ veh' = [r.veh EXCEPT ![h].kind = k]
        /\ \/ r.ok /\ todo' = [todo EXCEPT ![h] = rest]
           \/ todo' = [todo EXCEPT ![h] = <<>>]
        /\ into' = into /\ stale' = stale
    BY DEF Step
  <1>5. EpochStale(h) /\ todo[h] \in Guarded => ~r.ok
    BY <1>0, StaleRefused DEF Refuse, Coherent, WorldType
  <1> HIDE DEF r, rest, k, st
  <1>6. r.veh \in [Handle -> Vehicle] /\ r.body \in Body
    BY <1>2 DEF Coherent, WorldType
  <1>7. ASSUME NEW g \in Handle
        PROVE  veh'[g] \in Vehicle /\ veh'[g].shadow = r.veh[g].shadow
               /\ veh'[g].permit = r.veh[g].permit
    BY <1>3, <1>4, <1>6 DEF Vehicle
  <1>8. veh' \in [Handle -> Vehicle]
    BY <1>4, <1>6, <1>7
  <1>9. todo \in [Handle -> Seq(StepOf)] /\ <<>> \in Seq(StepOf)
    BY <1>0 DEF ThreadsTypeOK
  <1>10. todo' \in [Handle -> Seq(StepOf)]
    <2>1. CASE todo' = [todo EXCEPT ![h] = rest]
      BY <1>1, <1>9, <2>1
    <2>2. CASE todo' = [todo EXCEPT ![h] = <<>>]
      BY <1>9, <2>2
    <2> QED BY <1>4, <2>1, <2>2
  <1>11. ThreadsTypeOK'
    BY <1>0, <1>4, <1>6, <1>8, <1>10 DEF ThreadsTypeOK, TypeOK
  <1>12. Coherent(World)'
    <2>1. /\ Sound(body'.safety)
          /\ \A g \in Handle : Sound(veh'[g].shadow) /\ Ordered(veh'[g].permit, body'.epoch)
      BY <1>2, <1>4, <1>7 DEF Coherent
    <2>2. World'.body = body' /\ World'.veh = veh' /\ World' \in WorldType
      BY <1>11 DEF World, ThreadsTypeOK, TypeOK, WorldType
    <2> QED BY <2>1, <2>2 DEF Coherent
  <1>13. ASSUME NEW g \in Handle PROVE StaleGuard(g)'
    <2>1. StaleGuard(g)
      BY DEF InvariantThreads
    <2>2. CASE g = h
      <3>1. CASE todo'[h] = <<>>
        <4>1. <<>> \in Seq(Harmless)
          OBVIOUS
        <4> QED BY <2>2, <3>1, <4>1 DEF StaleGuard
      <3>2. CASE r.ok /\ todo'[h] = rest
        <4>1. ASSUME todo[h] \in Seq(Harmless) PROVE rest \in Seq(Harmless)
          BY <1>1, <4>1 DEF rest
        <4> QED BY <1>4, <1>5, <2>1, <2>2, <3>2, <4>1 DEF StaleGuard
      <3> QED BY <1>4, <1>9, <3>1, <3>2
    <2>3. CASE g # h
      <3>1. todo'[g] = todo[g] /\ stale'[g] = stale[g]
        BY <1>4, <1>9, <2>3
      <3>2. EpochStale(g) => EpochStale(g)'
        <4>1. body.epoch <= body'.epoch /\ body'.epoch \in Nat
          BY <1>2, <1>4, <1>6, WorldFields, EpochMaxAssumption DEF Body
        <4>2. /\ veh'[g].permit.held = veh[g].permit.held
              /\ veh'[g].permit.epoch = veh[g].permit.epoch
          BY <1>2, <1>7, <2>3, WorldFields
        <4> QED BY <1>0, <4>1, <4>2, StaleStays
      <3> QED BY <2>1, <3>1, <3>2 DEF StaleGuard
    <2> QED BY <2>2, <2>3
  <1> QED BY <1>11, <1>12, <1>13 DEF InvariantThreads

LEMMA InjectKeeps ==
    ASSUME InvariantThreads, NEW e \in Revokes_on, Inject(e)
    PROVE  InvariantThreads'
  <1> DEFINE r == aerial_event(World, e)
             s == World.body.safety
             loss == Loss(s, After(s, e), e)
  <1>0. ThreadsTypeOK /\ TypeOK /\ Coherent(World) /\ e \in Event
    BY RevokesAssumption DEF InvariantThreads, ThreadsTypeOK, event_revokes_authority, Event
  <1>1. /\ body' = r.body /\ veh' = r.veh /\ UNCHANGED <<todo, into, stale>>
        /\ Admits(s, e)
    BY WorldFields DEF Inject, inject_revoke
  <1>2. Coherent(r) /\ Taken(World, e, r)
    BY <1>0, <1>1, EventCoherent, EventIs
  <1> HIDE DEF r, s, loss
  <1>3. r.veh \in [Handle -> Vehicle] /\ r.body \in Body
    BY <1>2 DEF Coherent, WorldType
  <1>4. ThreadsTypeOK'
    BY <1>0, <1>1, <1>3 DEF ThreadsTypeOK, TypeOK
  <1>5. Coherent(World)'
    <2>1. World'.body = body' /\ World'.veh = veh' /\ World' \in WorldType
      BY <1>4 DEF World, ThreadsTypeOK, TypeOK, WorldType
    <2> QED BY <1>1, <1>2, <2>1 DEF Coherent
  <1>6. body.epoch <= body'.epoch /\ body'.epoch \in Nat
    <2>1. World.body.epoch \in 0..EpochMax /\ World.body = body
      BY <1>0, WorldFields DEF Coherent, WorldType, Body
    <2>2. r.body.epoch \in {body.epoch, bump_authority(body.epoch)}
      BY <1>2, <2>1 DEF Taken
    <2> QED BY <1>1, <1>3, <2>1, <2>2, BumpUp, EpochMaxAssumption DEF Body
  <1>7. ASSUME NEW g \in Handle PROVE StaleGuard(g)'
    <2>1. StaleGuard(g)
      BY DEF InvariantThreads
    <2>2. veh'[g] = Demoted(veh[g], loss) /\ veh[g] \in Vehicle
      BY <1>0, <1>1, <1>2, WorldFields DEF Taken, s, loss, TypeOK
    <2>3. /\ veh'[g].permit.held = veh[g].permit.held
          /\ veh'[g].permit.epoch = veh[g].permit.epoch
      BY <2>2, DemotedIs
    <2>4. EpochStale(g) => EpochStale(g)'
      BY <1>0, <1>6, <2>3, StaleStays
    <2> QED BY <1>1, <2>1, <2>4 DEF StaleGuard
  <1> QED BY <1>4, <1>5, <1>7 DEF InvariantThreads

LEMMA ThreadsKeep == InvariantThreads /\ [ThreadsNext]_threads => InvariantThreads'
  <1> SUFFICES ASSUME InvariantThreads, [ThreadsNext]_threads PROVE InvariantThreads'
    OBVIOUS
  <1>1. CASE ThreadsNext
    BY <1>1, BeginKeeps, StepKeeps, InjectKeeps DEF ThreadsNext
  <1>2. CASE UNCHANGED threads
    <2>1. World' = World /\ ThreadsTypeOK' /\ \A h \in Handle : StaleGuard(h)'
      BY <1>2 DEF threads, World, InvariantThreads, ThreadsTypeOK, TypeOK, StaleGuard, EpochStale
    <2> QED BY <2>1 DEF InvariantThreads
  <1> QED BY <1>1, <1>2

THEOREM ThreadsCoherent == ThreadsSpec => []InvariantThreads
  BY ThreadsBegin, ThreadsKeep, PTL DEF ThreadsSpec

\* Every value the threads share, and every step a call still has to take, is
\* well formed, whatever calls are made and however they interleave.
THEOREM ThreadTypes == ThreadsSpec => []ThreadsTypeOK
  <1>1. InvariantThreads => ThreadsTypeOK
    BY DEF InvariantThreads
  <1> QED BY <1>1, ThreadsCoherent, PTL

LEMMA CoherentOrder == InvariantThreads => EpochOrder /\ LostPermitsStale
  <1> SUFFICES ASSUME InvariantThreads, NEW h \in Handle
               PROVE  /\ veh[h].permit.held =>
                           /\ veh[h].permit.epoch <= body.epoch
                           /\ Unsaturated /\ veh[h].permit.standing = "lost"
                                => veh[h].permit.epoch < body.epoch
                      /\ Unsaturated /\ veh[h].permit.standing = "lost" => ~PermitCurrent(h)
    BY DEF EpochOrder, LostPermitsStale
  <1>1. Ordered(veh[h].permit, body.epoch) /\ body.epoch \in 0..EpochMax
    BY WorldFields, FieldsCoherent DEF InvariantThreads, Coherent
  <1> QED BY <1>1 DEF Ordered, Unsaturated, PermitCurrent

\* Permits never run ahead of the plant's epoch, and those of lost authority
\* are behind it, between any two steps of calls made from several threads.
THEOREM ThreadsOrdered == ThreadsSpec => []EpochOrder
  BY CoherentOrder, ThreadsCoherent, PTL

\* A permit of lost authority is never admitted by the epoch check after, even
\* when the loss falls between two steps of a call of another thread.
THEOREM ThreadsLostStale == ThreadsSpec => []LostPermitsStale
  BY CoherentOrder, ThreadsCoherent, PTL

\* A call on a permit that was stale when it began stages no setpoint, renews
\* no permit and switches no motors on, whatever the other threads do while it
\* runs.
THEOREM StaleCallsTurnedDown == ThreadsSpec => StaleCallsHarmless
  <1>1. InvariantThreads /\ [ThreadsNext]_threads =>
          [\A h \in Handle : stale[h] /\ Step(h) => ~UsesPermit(h)]_threads
    <2> SUFFICES ASSUME InvariantThreads, NEW h \in Handle, stale[h], Step(h), UsesPermit(h)
                 PROVE  FALSE
      OBVIOUS
    <2> DEFINE st == Head(todo[h])
               r == Run(World, h, st)
    <2>1. /\ Coherent(World) /\ todo[h] \in Seq(StepOf) /\ todo[h] # <<>> /\ body' = r.body
          /\ World.body = body
      BY WorldFields DEF InvariantThreads, ThreadsTypeOK, Step, Idle
    <2>2. CASE todo[h] \in Seq(Harmless)
      <3>1. st \in Harmless
        BY <2>1, <2>2
      <3>2. r.body.safety.actuators_enabled => World.body.safety.actuators_enabled
        BY <2>1, <3>1, HarmlessMotors
      <3> QED BY <2>1, <3>1, <3>2 DEF UsesPermit, Harmless
    <2>3. CASE todo[h] \in Guarded /\ EpochStale(h)
      <3>1. st = [op |-> "epoch", e |-> "none"] /\ r = Refuse(World)
        BY <2>1, <2>3, StaleRefused
      <3>2. Refuse(World).body = World.body
        BY <2>1 DEF Refuse, Coherent, WorldType
      <3> HIDE DEF r
      <3> QED BY <2>1, <3>1, <3>2 DEF UsesPermit
    <2> QED BY <2>2, <2>3 DEF InvariantThreads, StaleGuard
  <1> QED BY <1>1, ThreadsCoherent, PTL DEF ThreadsSpec, StaleCallsHarmless
=============================================================================
