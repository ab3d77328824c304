-------------------------- MODULE GroundSessionProofs --------------------------
(***************************************************************************)
(* The ground handles' competition for one chassis, for any number of      *)
(* handles and any bound of the epoch.                                     *)
(*                                                                         *)
(* The argument: an epoch never runs backwards, a permit is issued at the  *)
(* current epoch, and every event that ends authority moves the epoch past *)
(* the permits it ends (EpochOrder).  A handle can overwrite the chassis'  *)
(* state by its own, but it never overwrites the epoch, and none but the   *)
(* E-stop itself pushes an E-stopped state (CurrentMeansClear).            *)
(***************************************************************************)
EXTENDS GroundSession, TLAPS

\* Permits never run ahead of the chassis' epoch, and those of lost authority
\* are strictly behind it.
EpochOrder ==
    \A h \in Handle :
      veh[h].permit.held =>
        /\ veh[h].permit.epoch <= body.epoch
        /\ Unsaturated /\ veh[h].permit.standing = "lost"
             => veh[h].permit.epoch < body.epoch

Inductive == TypeOK /\ EpochOrder /\ CurrentMeansClear

USE EpochMaxAssumption DEF Standing, Staged

-----------------------------------------------------------------------------
(* The kernel and the permits. *)

LEMMA KernelStates ==
    /\ parked \in GroundState /\ ~parked.estop
    /\ stopped \in GroundState
  BY DEF parked, stopped, GroundState, GroundPhase, ground_invariants

\* Every state ground_step returns is legal.
LEMMA KernelSound ==
    ASSUME NEW s \in GroundState, NEW e \in GroundEvent, Admits(s, e)
    PROVE  After(s, e) \in GroundState
<1>0. s \in [phase : GroundPhase, drive_enabled : BOOLEAN, estop : BOOLEAN]
      /\ ground_invariants(s)
  BY DEF GroundState
<1>1. CASE e = "Release"
  BY <1>0, <1>1 DEF Admits, After, GroundState, GroundPhase, ground_invariants
<1>2. CASE e = "Halt"
  BY <1>0, <1>2 DEF Admits, After, GroundState, GroundPhase, ground_invariants
<1>3. CASE e = "EStop"
  BY <1>3, KernelStates DEF After
<1>4. CASE e = "ClearEstop"
  BY <1>4, KernelStates DEF After
<1>5. CASE e = "DriveCommand"
  BY <1>5 DEF After
<1>6. QED
  BY <1>1, <1>2, <1>3, <1>4, <1>5 DEF GroundEvent

\* A state a handle may push for one of its drive calls is not an E-stop.
LEMMA PushedClear ==
    ASSUME NEW s \in GroundState
    PROVE  /\ Admits(s, "Release") => ~After(s, "Release").estop
           /\ Admits(s, "Halt") => ~After(s, "Halt").estop
           /\ Admits(s, "DriveCommand") => ~s.estop
           /\ ground_kind(s) = "Moving" => ~s.estop
  BY DEF Admits, After, GroundState, GroundPhase, ground_invariants, ground_kind

LEMMA PermitTypes ==
    /\ NoPermit \in Permit
    /\ \A epoch \in 0..EpochMax : issue(epoch) \in Permit /\ bump_authority(epoch) \in 0..EpochMax
    /\ \A tag \in Staged : Lost(tag) \in Staged
  BY DEF NoPermit, Permit, issue, bump_authority, Lost

\* A bump moves the epoch past every permit, unless it has saturated.
LEMMA Bumped ==
    ASSUME NEW epoch \in 0..EpochMax
    PROVE  /\ epoch <= bump_authority(epoch)
           /\ bump_authority(epoch) < EpochMax => epoch < bump_authority(epoch)
  BY DEF bump_authority

LEMMA GroundEventTypes ==
    ASSUME NEW b \in Body, NEW e \in GroundEvent, Admits(b.ground, e)
    PROVE  ground_event(b, e) \in Body
<1> DEFINE n == After(b.ground, e)
<1>1. /\ b.ground \in GroundState /\ b.epoch \in 0..EpochMax
      /\ b.command \in Staged /\ b.yaw_cmd \in Staged
  BY DEF Body
<1>2. n \in GroundState
  BY <1>1, KernelSound
<1>3. /\ bump_authority(b.epoch) \in 0..EpochMax
      /\ Lost(b.yaw_cmd) \in Staged
  BY <1>1, PermitTypes
<1> HIDE DEF n
<1>4. QED
  BY <1>1, <1>2, <1>3 DEF ground_event, Body, n

LEMMA SyncTypes ==
    ASSUME NEW b \in Body, NEW s \in GroundState
    PROVE  /\ sync_ground(b, s) \in Body
           /\ sync_ground(b, s).ground = s
           /\ sync_ground(b, s).epoch = b.epoch
  BY DEF sync_ground, Body

LEMMA DemotedTypes ==
    ASSUME NEW v \in GroundVehicle
    PROVE  /\ Demoted(v) \in GroundVehicle
           /\ Demoted(v).permit = [v.permit EXCEPT !.standing = "lost"]
  BY PermitTypes DEF Demoted, GroundVehicle, Permit, Lost

LEMMA IdleTypes ==
    ASSUME NEW v \in GroundVehicle
    PROVE  Idle(v) \in GroundVehicle /\ Idle(v).permit = v.permit
  BY DEF Idle, GroundVehicle

LEMMA ReboundTypes ==
    ASSUME NEW v \in GroundVehicle, NEW kind \in Kind, NEW s \in GroundState
    PROVE  /\ [v EXCEPT !.kind = kind, !.safety = s] \in GroundVehicle
           /\ [v EXCEPT !.kind = kind, !.safety = s].permit = v.permit
  BY DEF GroundVehicle

LEMMA TwistedTypes ==
    ASSUME NEW v \in GroundVehicle, NEW tag \in Staged
    PROVE  /\ [v EXCEPT !.yaw_rate = tag, !.setpoint = tag] \in GroundVehicle
           /\ [v EXCEPT !.yaw_rate = tag, !.setpoint = tag].permit = v.permit
  BY DEF GroundVehicle

-----------------------------------------------------------------------------
(* One step.  Three shapes of step cover all calls: one that issues no      *)
(* permit and revokes nothing, one that issues a permit to h, one that      *)
(* revokes.                                                                 *)

\* The epoch stands, and the permits are those of before.
KeepsPermits ==
    /\ body'.epoch = body.epoch
    /\ \A g \in Handle : veh'[g].permit = veh[g].permit

\* The epoch stands, and no permit is new.
GivesNone ==
    /\ body'.epoch = body.epoch
    /\ \A g \in Handle : veh'[g].permit = veh[g].permit \/ ~veh'[g].permit.held

\* The epoch stands, and h is given a permit of it.
Issues(h) ==
    /\ body'.epoch = body.epoch
    /\ veh'[h].permit \in {issue(body.epoch), NoPermit}
    /\ \A g \in Handle \ {h} : veh'[g].permit = veh[g].permit

\* The epoch moves, and all permits are lost.
Revokes ==
    /\ body'.epoch = bump_authority(body.epoch)
    /\ \A g \in Handle : veh'[g].permit = [veh[g].permit EXCEPT !.standing = "lost"]

LEMMA OrderKept ==
    ASSUME Inductive, TypeOK',
           KeepsPermits \/ (\E h \in Handle : Issues(h)) \/ Revokes
    PROVE  EpochOrder'
<1> SUFFICES ASSUME NEW g \in Handle, (veh[g].permit.held)'
             PROVE  (/\ veh[g].permit.epoch <= body.epoch
                     /\ Unsaturated /\ veh[g].permit.standing = "lost"
                          => veh[g].permit.epoch < body.epoch)'
  BY DEF EpochOrder
<1>1. /\ body.epoch \in 0..EpochMax /\ body'.epoch \in 0..EpochMax
      /\ veh[g].permit \in Permit /\ veh'[g].permit \in Permit
  BY DEF Inductive, TypeOK, Body, GroundVehicle
<1>2. veh[g].permit.held =>
        /\ veh[g].permit.epoch <= body.epoch
        /\ Unsaturated /\ veh[g].permit.standing = "lost"
             => veh[g].permit.epoch < body.epoch
  BY DEF Inductive, EpochOrder
<1>3. CASE KeepsPermits
  BY <1>1, <1>2, <1>3 DEF KeepsPermits, Unsaturated
<1>4. CASE \E h \in Handle : Issues(h)
  <2>1. PICK h \in Handle : Issues(h)
    BY <1>4
  <2>2. CASE g = h
    BY <1>1, <2>1, <2>2 DEF Issues, issue, NoPermit, Unsaturated
  <2>3. CASE g # h
    BY <1>1, <1>2, <2>1, <2>3 DEF Issues, Unsaturated
  <2>4. QED
    BY <2>2, <2>3
<1>5. CASE Revokes
  <2>1. veh'[g].permit.epoch = veh[g].permit.epoch /\ veh[g].permit.held
    BY <1>1, <1>5 DEF Revokes, Permit
  <2>2. QED
    BY <1>1, <1>2, <1>5, <2>1, Bumped DEF Revokes, Unsaturated, Permit
<1>6. QED
  BY <1>3, <1>4, <1>5

\* An E-stopped chassis has no current permit, if it was left as it was or if
\* the step revoked.
LEMMA ClearKept ==
    ASSUME Inductive, TypeOK',
           \/ ~body'.ground.estop
           \/ Revokes
           \/ GivesNone /\ body'.ground = body.ground
    PROVE  CurrentMeansClear'
<1> SUFFICES ASSUME Unsaturated', NEW g \in Handle, EpochCurrent(g)'
             PROVE  ~body'.ground.estop
  BY DEF CurrentMeansClear
<1>1. /\ body.epoch \in 0..EpochMax /\ body'.epoch \in 0..EpochMax
      /\ veh[g].permit \in Permit /\ veh'[g].permit \in Permit
  BY DEF Inductive, TypeOK, Body, GroundVehicle
<1>2. CASE ~body'.ground.estop
  BY <1>2
<1>3. CASE Revokes
  <2>1. veh'[g].permit.epoch = veh[g].permit.epoch /\ veh[g].permit.held
    BY <1>1, <1>3 DEF Revokes, Permit, EpochCurrent
  <2>2. veh[g].permit.epoch <= body.epoch
    BY <2>1 DEF Inductive, EpochOrder
  <2>3. veh'[g].permit.epoch < body'.epoch
    BY <1>1, <1>3, <2>1, <2>2, Bumped DEF Revokes, Unsaturated, Permit
  <2>4. QED
    BY <1>1, <2>3 DEF EpochCurrent, Permit
<1>4. CASE GivesNone /\ body'.ground = body.ground
  BY <1>4 DEF GivesNone, Inductive, CurrentMeansClear, EpochCurrent, Unsaturated
<1>5. QED
  BY <1>2, <1>3, <1>4

-----------------------------------------------------------------------------
(* The actions.                                                             *)

\* What the lemmas above ask of a step.
Shaped ==
    /\ TypeOK'
    /\ KeepsPermits \/ (\E h \in Handle : Issues(h)) \/ Revokes
    /\ \/ ~body'.ground.estop
       \/ Revokes
       \/ GivesNone /\ body'.ground = body.ground

LEMMA AttachShaped ==
    ASSUME Inductive, NEW h \in Handle, Attach(h)
    PROVE  Shaped
<1>1. /\ body \in Body /\ veh \in [Handle -> GroundVehicle] /\ body' = body
      /\ body.ground \in GroundState /\ body.epoch \in 0..EpochMax
  BY DEF Inductive, TypeOK, Body, Attach
<1> DEFINE kind == ground_kind(body.ground)
           permit == IF grants_actuation(kind) THEN issue(body.epoch) ELSE NoPermit
<1>2. kind \in Kind /\ permit \in Permit
  BY <1>1, PermitTypes DEF Kind, ground_kind, GroundState, GroundPhase
<1>3. PICK v \in {veh[h], Idle(veh[h])} :
        veh' = [veh EXCEPT ![h] = [v EXCEPT !.kind = kind, !.safety = body.ground,
                                            !.permit = permit]]
  BY DEF Attach
<1>4. v \in GroundVehicle
  BY <1>1, <1>3, IdleTypes
<1>5. kind = "Moving" => ~body.ground.estop
  BY <1>1, PushedClear
<1>6. permit = NoPermit \/ (permit = issue(body.epoch) /\ kind = "Moving")
  BY DEF grants_actuation
<1> HIDE DEF kind, permit
<1>7. TypeOK'
  BY <1>1, <1>2, <1>3, <1>4 DEF TypeOK, GroundVehicle
<1>8. /\ veh'[h].permit = permit
      /\ \A g \in Handle \ {h} : veh'[g].permit = veh[g].permit
  BY <1>1, <1>3, <1>4 DEF GroundVehicle
<1>9. QED
  BY <1>1, <1>5, <1>6, <1>7, <1>8 DEF Shaped, Issues, GivesNone, NoPermit

LEMMA NewShaped ==
    ASSUME Inductive, NEW h \in Handle, New(h)
    PROVE  Shaped
<1>1. /\ body \in Body /\ veh \in [Handle -> GroundVehicle] /\ body' = body
      /\ Idle(veh[h]) \in GroundVehicle
  BY IdleTypes DEF Inductive, TypeOK, New
<1>2. TypeOK'
  BY <1>1, KernelStates, PermitTypes DEF New, TypeOK, GroundVehicle, Kind
<1>3. /\ veh'[h].permit = NoPermit
      /\ \A g \in Handle \ {h} : veh'[g].permit = veh[g].permit
  BY <1>1 DEF New, GroundVehicle
<1>4. QED
  BY <1>1, <1>2, <1>3 DEF Shaped, Issues, GivesNone, NoPermit

LEMMA EnableDriveShaped ==
    ASSUME Inductive, NEW h \in Handle, EnableDrive(h)
    PROVE  Shaped
<1> DEFINE v == veh[h]
           s == After(v.safety, "Release")
<1>1. /\ body \in Body /\ veh \in [Handle -> GroundVehicle]
      /\ body.epoch \in 0..EpochMax /\ v.safety \in GroundState
  BY DEF Inductive, TypeOK, Body, GroundVehicle
<1>2. CASE Admits(v.safety, "Release")
  <2>1. /\ body' = sync_ground(body, s)
        /\ veh' = [veh EXCEPT ![h] = [v EXCEPT !.kind = "Moving", !.safety = s,
                                               !.permit = issue(body.epoch)]]
    BY <1>2 DEF EnableDrive
  <2>2. s \in GroundState /\ ~s.estop
    BY <1>1, <1>2, KernelSound, PushedClear DEF GroundEvent
  <2>3. issue(body.epoch) \in Permit
    BY <1>1, PermitTypes
  <2> HIDE DEF s
  <2>4. body' \in Body /\ ~body'.ground.estop /\ body'.epoch = body.epoch
    BY <1>1, <2>1, <2>2, SyncTypes
  <2>5. TypeOK'
    BY <1>1, <2>1, <2>2, <2>3, <2>4 DEF TypeOK, GroundVehicle, Kind
  <2>6. /\ veh'[h].permit = issue(body.epoch)
        /\ \A g \in Handle \ {h} : veh'[g].permit = veh[g].permit
    BY <1>1, <2>1 DEF GroundVehicle
  <2>7. QED
    BY <2>4, <2>5, <2>6 DEF Shaped, Issues
<1>3. CASE ~Admits(v.safety, "Release")
  <2>1. body' = body /\ veh' = [veh EXCEPT ![h] = Unbound]
    BY <1>3 DEF EnableDrive
  <2>2. Unbound \in GroundVehicle /\ Unbound.permit = NoPermit
    BY KernelStates, PermitTypes DEF Unbound, GroundVehicle, Kind
  <2>3. TypeOK'
    BY <1>1, <2>1, <2>2 DEF TypeOK
  <2>4. /\ veh'[h].permit = NoPermit
        /\ \A g \in Handle \ {h} : veh'[g].permit = veh[g].permit
    BY <1>1, <2>1, <2>2
  <2>5. QED
    BY <2>1, <2>3, <2>4 DEF Shaped, Issues, GivesNone, NoPermit
<1>4. QED
  BY <1>2, <1>3

\* The calls that drive: h's own state is pushed, and h stages a setpoint, a
\* yaw rate or both under its permit.
LEMMA DriveShaped ==
    ASSUME Inductive, NEW h \in Handle, SetVelocity(h) \/ SetTwist(h)
    PROVE  Shaped
<1>1. /\ body \in Body /\ veh \in [Handle -> GroundVehicle]
      /\ veh[h].safety \in GroundState /\ veh[h].permit.standing \in Standing
  BY DEF Inductive, TypeOK, GroundVehicle, Permit
<1>2. /\ body' = sync_ground(body, veh[h].safety)
      /\ Admits(veh[h].safety, "DriveCommand")
  BY DEF SetVelocity, SetTwist
<1>3. body' \in Body /\ ~body'.ground.estop /\ body'.epoch = body.epoch
  BY <1>1, <1>2, SyncTypes, PushedClear
<1>4. /\ veh' \in [Handle -> GroundVehicle]
      /\ \A g \in Handle : veh'[g].permit = veh[g].permit
  <2>1. CASE SetVelocity(h)
    BY <1>1, <2>1 DEF SetVelocity, GroundVehicle
  <2>2. CASE SetTwist(h)
    <3>1. veh' = [veh EXCEPT ![h] = [@ EXCEPT !.yaw_rate = veh[h].permit.standing,
                                              !.setpoint = veh[h].permit.standing]]
      BY <1>1, <2>2 DEF SetTwist
    <3>2. QED
      BY <1>1, <3>1, TwistedTypes
  <2>3. QED
    BY <2>1, <2>2
<1>5. QED
  BY <1>3, <1>4 DEF Shaped, TypeOK, KeepsPermits

LEMMA YawShaped ==
    ASSUME Inductive, NEW h \in Handle, SetYawRate(h)
    PROVE  Shaped
<1>1. /\ body \in Body /\ veh \in [Handle -> GroundVehicle] /\ body' = body
      /\ veh[h].permit.standing \in Standing
  BY DEF Inductive, TypeOK, GroundVehicle, Permit, SetYawRate
<1>2. /\ veh' \in [Handle -> GroundVehicle]
      /\ \A g \in Handle : veh'[g].permit = veh[g].permit
  BY <1>1 DEF SetYawRate, GroundVehicle
<1>3. QED
  BY <1>1, <1>2 DEF Shaped, TypeOK, KeepsPermits, GivesNone

\* A park: the chassis may refuse the Halt; the shadow is pushed all the same.
LEMMA ParkShaped ==
    ASSUME Inductive, NEW h \in Handle, ParkNow(h)
    PROVE  Shaped
<1> DEFINE halts == Admits(body.ground, "Halt")
           b == IF halts THEN ground_event(body, "Halt") ELSE body
           s == IF Admits(veh[h].safety, "Halt") THEN After(veh[h].safety, "Halt") ELSE parked
           V(g) == IF halts THEN Demoted(veh[g]) ELSE veh[g]
<1>1. /\ body \in Body /\ veh \in [Handle -> GroundVehicle]
      /\ body.epoch \in 0..EpochMax /\ veh[h].safety \in GroundState
  BY DEF Inductive, TypeOK, Body, GroundVehicle
<1>2. s \in GroundState /\ ~s.estop
  BY <1>1, KernelSound, KernelStates, PushedClear DEF GroundEvent
<1>3. b \in Body /\ b.epoch = IF halts THEN bump_authority(body.epoch) ELSE body.epoch
  BY <1>1, GroundEventTypes DEF GroundEvent, ground_event, ground_event_revokes_authority
<1>4. \A g \in Handle :
        /\ V(g) \in GroundVehicle
        /\ V(g).permit = IF halts THEN [veh[g].permit EXCEPT !.standing = "lost"]
                                  ELSE veh[g].permit
  BY <1>1, DemotedTypes
<1>5. /\ body' = sync_ground(b, s)
      /\ veh' = [g \in Handle |->
                   IF g = h THEN [Idle(V(g)) EXCEPT !.kind = "Parked", !.safety = s] ELSE V(g)]
  BY DEF ParkNow
<1> HIDE DEF halts, b, s, V
<1>6. body' \in Body /\ ~body'.ground.estop /\ body'.epoch = b.epoch
  BY <1>2, <1>3, <1>5, SyncTypes
<1>7. veh' \in [Handle -> GroundVehicle]
  BY <1>2, <1>4, <1>5, IdleTypes, ReboundTypes DEF Kind
<1>8. \A g \in Handle : veh'[g].permit = V(g).permit
  BY <1>4, <1>5 DEF Idle, GroundVehicle
<1>9. KeepsPermits \/ Revokes
  BY <1>3, <1>4, <1>6, <1>8 DEF KeepsPermits, Revokes
<1>10. QED
  BY <1>6, <1>7, <1>9 DEF Shaped, TypeOK

LEMMA EmergencyStopShaped ==
    ASSUME Inductive, NEW h \in Handle, EmergencyStop(h)
    PROVE  Shaped
<1>1. body \in Body /\ veh \in [Handle -> GroundVehicle]
  BY DEF Inductive, TypeOK
<1>2. /\ EstopEvent(body) \in Body
      /\ EstopEvent(body).epoch = bump_authority(body.epoch)
  BY <1>1, GroundEventTypes
     DEF EstopEvent, Admits, GroundEvent, ground_event, ground_event_revokes_authority
<1>3. body' \in Body /\ body'.epoch = bump_authority(body.epoch)
  BY <1>2, KernelStates, SyncTypes DEF EmergencyStop
<1>4. \A g \in Handle :
        /\ Demoted(veh[g]) \in GroundVehicle
        /\ Demoted(veh[g]).permit = [veh[g].permit EXCEPT !.standing = "lost"]
  BY <1>1, DemotedTypes
<1>5. \A g \in Handle :
        /\ veh'[g] \in GroundVehicle
        /\ veh'[g].permit = Demoted(veh[g]).permit
  <2> SUFFICES ASSUME NEW g \in Handle
               PROVE  /\ veh'[g] \in GroundVehicle
                      /\ veh'[g].permit = Demoted(veh[g]).permit
    OBVIOUS
  <2>1. CASE g = h
    <3> DEFINE v == Idle(Demoted(veh[g]))
    <3>1. veh'[g] = [v EXCEPT !.kind = "EStopped", !.safety = stopped]
      BY <2>1 DEF EmergencyStop
    <3>2. v \in GroundVehicle /\ v.permit = Demoted(veh[g]).permit
      BY <1>4, IdleTypes
    <3>3. "EStopped" \in Kind
      BY DEF Kind
    <3> HIDE DEF v
    <3>4. QED
      BY <3>1, <3>2, <3>3, ReboundTypes, KernelStates
  <2>2. CASE g # h
    BY <1>4, <2>2 DEF EmergencyStop
  <2>3. QED
    BY <2>1, <2>2
<1>6. veh' \in [Handle -> GroundVehicle]
  BY <1>5 DEF EmergencyStop
<1>7. QED
  BY <1>3, <1>4, <1>5, <1>6 DEF Shaped, TypeOK, Revokes

LEMMA ResetShaped ==
    ASSUME Inductive, NEW h \in Handle, Reset(h)
    PROVE  Shaped
<1>1. /\ body \in Body /\ veh \in [Handle -> GroundVehicle]
      /\ Idle(veh[h]) \in GroundVehicle /\ Idle(veh[h]).permit = veh[h].permit
  BY IdleTypes DEF Inductive, TypeOK
<1>2. body' \in Body /\ ~body'.ground.estop /\ body'.epoch = body.epoch
  BY <1>1, KernelStates, SyncTypes DEF Reset, After
<1>3. /\ veh' \in [Handle -> GroundVehicle]
      /\ \A g \in Handle : veh'[g].permit = veh[g].permit
  BY <1>1, KernelStates DEF Reset, GroundVehicle, Kind
<1>4. QED
  BY <1>2, <1>3 DEF Shaped, TypeOK, KeepsPermits

\* The backend and the world touch neither the kernel state nor the epoch.
LEMMA WorldShaped ==
    ASSUME Inductive, (\E h \in Handle : Flush(h) \/ Tick(h)) \/ step
    PROVE  Shaped
<1>1. body \in Body /\ veh \in [Handle -> GroundVehicle]
  BY DEF Inductive, TypeOK
<1>2. \A b \in Body, o \in StepOutcome :
        /\ try_step(b, o) \in Body
        /\ try_step(b, o).ground = b.ground /\ try_step(b, o).epoch = b.epoch
  BY DEF try_step, Body
<1>3. \A h \in Handle :
        /\ flush(veh[h]) \in Body
        /\ flush(veh[h]).ground = body.ground /\ flush(veh[h]).epoch = body.epoch
  BY <1>1 DEF flush, Body, GroundVehicle
<1>4. /\ body' \in Body /\ body'.ground = body.ground /\ body'.epoch = body.epoch
      /\ veh' = veh
  BY <1>1, <1>2, <1>3 DEF Flush, Tick, step
<1>5. QED
  BY <1>1, <1>4 DEF Shaped, TypeOK, KeepsPermits, GivesNone

LEMMA StepShaped ==
    ASSUME Inductive, Next
    PROVE  Shaped
  BY AttachShaped, NewShaped, EnableDriveShaped, DriveShaped, YawShaped, ParkShaped,
     EmergencyStopShaped, ResetShaped, WorldShaped DEF Next

-----------------------------------------------------------------------------
(* The theorems. *)

THEOREM AlwaysInductive == Spec => []Inductive
<1>1. Init => Inductive
  <2> SUFFICES ASSUME Init
               PROVE  Inductive
    OBVIOUS
  <2>1. body \in Body
    BY KernelStates DEF Init, rover, Body
  <2>2. veh \in [Handle -> GroundVehicle] /\ \A h \in Handle : ~veh[h].permit.held
    BY KernelStates, PermitTypes DEF Init, Unbound, GroundVehicle, Kind, NoPermit
  <2>3. QED
    BY <2>1, <2>2 DEF Inductive, TypeOK, EpochOrder, CurrentMeansClear, EpochCurrent
<1>2. Inductive /\ [Next]_vars => Inductive'
  <2> SUFFICES ASSUME Inductive, [Next]_vars
               PROVE  Inductive'
    OBVIOUS
  <2>1. CASE Next
    BY <2>1, StepShaped, OrderKept, ClearKept DEF Shaped, Inductive
  <2>2. CASE UNCHANGED vars
    BY <2>2 DEF vars, Inductive, TypeOK, EpochOrder, CurrentMeansClear, EpochCurrent,
                Unsaturated
  <2>3. QED
    BY <2>1, <2>2
<1>3. QED
  BY <1>1, <1>2, PTL DEF Spec

\* Types, whatever the handles write over each other's states: the chassis'
\* and every handle's kernel state satisfy ground_invariants, which the code
\* asserts of ground_step's result only.
THEOREM GroundTypes == Spec => []TypeOK
  BY AlwaysInductive, PTL DEF Inductive

\* Until u32::MAX revocations have been counted, a permit issued before an
\* E-stop or a halt is not taken again.
THEOREM LostStaysStale == Spec => []LostPermitsStale
<1>1. Inductive => LostPermitsStale
  BY DEF Inductive, TypeOK, EpochOrder, LostPermitsStale, EpochCurrent, Unsaturated,
         Body, GroundVehicle, Permit
<1>2. QED
  BY <1>1, AlwaysInductive, PTL

\* No current permit is held over an E-stopped chassis.
THEOREM CurrentIsClear == Spec => []CurrentMeansClear
  BY AlwaysInductive, PTL DEF Inductive

\* A permit that passes require is not lost, while the epoch still counts.
LEMMA CurrentIsNow ==
    ASSUME Inductive, Unsaturated, NEW h \in Handle, require(h)
    PROVE  veh[h].permit.standing = "now"
<1>1. veh[h].permit \in Permit /\ body.epoch \in 0..EpochMax
  BY DEF Inductive, TypeOK, Body, GroundVehicle
<1>2. QED
  BY <1>1 DEF Inductive, EpochOrder, require, EpochCurrent, Permit

\* A step turns no clear setpoint into one of lost authority.
LEMMA NoLostSetpoint ==
    ASSUME Inductive, Next, Unsaturated', NEW g \in Handle,
           veh[g].setpoint = "none"
    PROVE  veh'[g].setpoint # "lost"
<1>1. veh \in [Handle -> GroundVehicle]
  BY DEF Inductive, TypeOK
<1>2. Demoted(veh[g]).setpoint = "none" /\ Idle(Demoted(veh[g])).setpoint = "none"
      /\ Idle(veh[g]).setpoint = "none"
  BY <1>1 DEF Demoted, Idle, Lost, GroundVehicle
<1>3. ASSUME NEW h \in Handle, Attach(h)
      PROVE  veh'[g].setpoint = "none"
  BY <1>1, <1>2, <1>3, IdleTypes DEF Attach, GroundVehicle
<1>4. ASSUME NEW h \in Handle, New(h) \/ EnableDrive(h) \/ SetYawRate(h) \/ Reset(h)
      PROVE  veh'[g].setpoint = "none"
  <2>1. CASE New(h)
    BY <1>1, <1>2, <2>1, IdleTypes DEF New, GroundVehicle
  <2>2. CASE EnableDrive(h)
    <3>1. CASE Admits(veh[h].safety, "Release")
      <4> DEFINE s == After(veh[h].safety, "Release")
      <4>1. veh' = [veh EXCEPT ![h] = [veh[h] EXCEPT !.kind = "Moving", !.safety = s,
                                                     !.permit = issue(body.epoch)]]
        BY <2>2, <3>1 DEF EnableDrive
      <4> HIDE DEF s
      <4>2. QED
        BY <1>1, <4>1 DEF GroundVehicle
    <3>2. CASE ~Admits(veh[h].safety, "Release")
      BY <1>1, <2>2, <3>2 DEF EnableDrive, Unbound
    <3>3. QED
      BY <3>1, <3>2
  <2>3. CASE SetYawRate(h)
    BY <1>1, <2>3 DEF SetYawRate, GroundVehicle
  <2>4. CASE Reset(h)
    BY <1>1, <1>2, <2>4, IdleTypes DEF Reset, GroundVehicle
  <2>5. QED
    BY <1>4, <2>1, <2>2, <2>3, <2>4
<1>5. ASSUME NEW h \in Handle, SetVelocity(h) \/ SetTwist(h)
      PROVE  veh'[g].setpoint # "lost"
  <2>1. body'.epoch = body.epoch
    BY <1>5, SyncTypes DEF SetVelocity, SetTwist, Inductive, TypeOK, GroundVehicle
  <2>2. veh[h].permit.standing = "now"
    BY <1>5, <2>1, CurrentIsNow DEF SetVelocity, SetTwist, Unsaturated
  <2>3. CASE SetVelocity(h)
    BY <1>1, <2>2, <2>3 DEF SetVelocity, GroundVehicle
  <2>4. CASE SetTwist(h)
    BY <1>1, <2>2, <2>4 DEF SetTwist, GroundVehicle
  <2>5. QED
    BY <1>5, <2>3, <2>4
<1>6. ASSUME NEW h \in Handle, ParkNow(h) \/ EmergencyStop(h)
      PROVE  veh'[g].setpoint = "none"
  <2>1. /\ Demoted(veh[g]) \in GroundVehicle /\ Idle(Demoted(veh[g])) \in GroundVehicle
        /\ Idle(veh[g]) \in GroundVehicle
    BY <1>1, DemotedTypes, IdleTypes
  <2>2. \A v \in GroundVehicle :
          v.setpoint = "none" =>
            \A kind, s : [v EXCEPT !.kind = kind, !.safety = s].setpoint = "none"
    BY DEF GroundVehicle
  <2>3. CASE EmergencyStop(h)
    <3> DEFINE v == Idle(Demoted(veh[g]))
    <3>1. CASE g = h
      <4>1. veh'[g] = [v EXCEPT !.kind = "EStopped", !.safety = stopped]
        BY <2>3, <3>1 DEF EmergencyStop
      <4>2. v \in GroundVehicle /\ v.setpoint = "none"
        BY <1>2, <2>1
      <4> HIDE DEF v
      <4>3. QED
        BY <2>2, <4>1, <4>2
    <3>2. CASE g # h
      BY <1>2, <2>3, <3>2 DEF EmergencyStop
    <3>3. QED
      BY <3>1, <3>2
  <2>4. CASE ParkNow(h)
    <3> DEFINE u == IF Admits(body.ground, "Halt") THEN Demoted(veh[g]) ELSE veh[g]
               s == IF Admits(veh[h].safety, "Halt")
                      THEN After(veh[h].safety, "Halt") ELSE parked
               v == Idle(u)
    <3>1. CASE g = h
      <4>1. veh'[g] = [v EXCEPT !.kind = "Parked", !.safety = s]
        BY <2>4, <3>1 DEF ParkNow
      <4>2. v \in GroundVehicle /\ v.setpoint = "none"
        BY <1>2, <2>1
      <4> HIDE DEF v, s
      <4>3. QED
        BY <2>2, <4>1, <4>2
    <3>2. CASE g # h
      <4>1. veh'[g] = u
        BY <2>4, <3>2 DEF ParkNow
      <4>2. QED
        BY <1>2, <4>1
    <3>3. QED
      BY <3>1, <3>2
  <2>5. QED
    BY <1>6, <2>3, <2>4
<1>7. CASE (\E h \in Handle : Flush(h) \/ Tick(h)) \/ step
  BY <1>7 DEF Flush, Tick, step
<1>8. QED
  BY <1>3, <1>4, <1>5, <1>6, <1>7 DEF Next

\* No call stages a setpoint under a permit that an E-stop or a halt ended.
THEOREM SetpointsArePermitted == Spec => SetpointsPermitted
<1>1. Inductive /\ [Next]_vars =>
        [Unsaturated' =>
           \A h \in Handle : veh'[h].setpoint = "lost" => veh[h].setpoint # "none"]_vars
  BY NoLostSetpoint DEF vars
<1>2. QED
  BY <1>1, AlwaysInductive, PTL DEF Spec, SetpointsPermitted
=============================================================================
