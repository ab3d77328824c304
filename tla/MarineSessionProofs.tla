-------------------------- MODULE MarineSessionProofs --------------------------
(***************************************************************************)
(* The marine handles' competition for one hull, for any number of handles *)
(* and any bound of the epoch.                                             *)
(*                                                                         *)
(* The argument is that of the ground vehicles: handles overwrite the      *)
(* hull's kernel state but never its epoch, and a failsafe moves the epoch *)
(* past every permit there is.  Docking moves no epoch and ends no permit; *)
(* it is sound here only because a docked hull is not in failsafe.         *)
(***************************************************************************)
EXTENDS MarineSession, TLAPS

\* Permits never run ahead of the hull's epoch, and those of lost authority
\* are strictly behind it.
EpochOrder ==
    \A h \in Handle :
      veh[h].permit.held =>
        /\ veh[h].permit.epoch <= body.epoch
        /\ Unsaturated /\ veh[h].permit.standing = "lost"
             => veh[h].permit.epoch < body.epoch

Inductive == TypeOK /\ EpochOrder /\ CurrentMeansClear

USE EpochMaxAssumption DEF Standing, Staged, Command

-----------------------------------------------------------------------------
(* The kernel and the permits. *)

LEMMA KernelStates ==
    /\ docked \in MarineState /\ ~docked.failsafe
    /\ tripped \in MarineState
  BY DEF docked, tripped, MarineState, MarinePhase, marine_invariants

\* The events a handle walks by, and Recover, leave a legal state that is not
\* a failsafe.
LEMMA WalkedClear ==
    ASSUME NEW s \in MarineState,
           NEW e \in {"Undock", "Station", "Resume", "ThrustCommand", "Recover"},
           Admits(s, e)
    PROVE  After(s, e) \in MarineState /\ ~After(s, e).failsafe
<1>0. s \in [phase : MarinePhase, thrust_enabled : BOOLEAN, failsafe : BOOLEAN]
      /\ marine_invariants(s)
  BY DEF MarineState
<1>1. CASE e = "Recover"
  BY <1>1, KernelStates DEF After
<1>2. CASE e = "ThrustCommand"
  BY <1>0, <1>2 DEF After, Admits
<1>3. CASE e \in {"Undock", "Station", "Resume"}
  <2>1. ~s.failsafe
    BY <1>3 DEF Admits
  <2>2. After(s, e) = [s EXCEPT !.phase = IF e = "Station" THEN "StationKeep" ELSE "Underway",
                                !.thrust_enabled = TRUE]
    BY <1>0, <1>3 DEF After
  <2>3. QED
    BY <1>0, <1>3, <2>1, <2>2 DEF MarineState, MarinePhase, marine_invariants
<1>4. QED
  BY <1>1, <1>2, <1>3

LEMMA PermitTypes ==
    /\ NoPermit \in HeldPermit
    /\ \A epoch \in 0..EpochMax :
         issue(epoch) \in HeldPermit /\ bump_authority(epoch) \in 0..EpochMax
    /\ \A tag \in Command : Lost(tag) \in Command
  BY DEF NoPermit, HeldPermit, issue, bump_authority, Lost

\* A bump moves the epoch past every permit, unless it has saturated.
LEMMA Bumped ==
    ASSUME NEW epoch \in 0..EpochMax
    PROVE  /\ epoch <= bump_authority(epoch)
           /\ bump_authority(epoch) < EpochMax => epoch < bump_authority(epoch)
  BY DEF bump_authority

LEMMA SyncTypes ==
    ASSUME NEW b \in Body, NEW s \in MarineState
    PROVE  /\ sync_marine(b, s) \in Body
           /\ sync_marine(b, s).marine = s
           /\ sync_marine(b, s).epoch = b.epoch
  BY DEF sync_marine, Body

LEMMA DemotedTypes ==
    ASSUME NEW v \in MarineVehicle
    PROVE  /\ Demoted(v) \in MarineVehicle
           /\ Demoted(v).permit = [v.permit EXCEPT !.standing = "lost"]
  BY PermitTypes DEF Demoted, MarineVehicle, HeldPermit, Lost

LEMMA DockedTypes ==
    ASSUME NEW v \in MarineVehicle
    PROVE  /\ Docked(v) \in MarineVehicle
           /\ Docked(v).permit = [v.permit EXCEPT !.standing = Ashore(v.permit.standing)]
  BY DEF Docked, Ashore, MarineVehicle, HeldPermit

LEMMA IdleTypes ==
    ASSUME NEW v \in MarineVehicle
    PROVE  Idle(v) \in MarineVehicle /\ Idle(v).permit = v.permit
  BY DEF Idle, MarineVehicle

LEMMA ReboundTypes ==
    ASSUME NEW v \in MarineVehicle, NEW kind \in Kind, NEW s \in MarineState
    PROVE  /\ [v EXCEPT !.kind = kind, !.safety = s] \in MarineVehicle
           /\ [v EXCEPT !.kind = kind, !.safety = s].permit = v.permit
  BY DEF MarineVehicle

-----------------------------------------------------------------------------
(* The shapes a step can have. *)

\* The epoch stands, and no permit is new or newly lost.
KeepsPermits ==
    /\ body'.epoch = body.epoch
    /\ \A g \in Handle :
         /\ veh'[g].permit.held => veh[g].permit.held
         /\ veh'[g].permit.epoch = veh[g].permit.epoch
         /\ veh'[g].permit.standing = "lost" => veh[g].permit.standing = "lost"

\* The epoch stands, and no permit is new.
GivesNone ==
    /\ body'.epoch = body.epoch
    /\ \A g \in Handle : veh'[g].permit = veh[g].permit \/ ~veh'[g].permit.held

\* The epoch stands, and h is given a permit of it.
Issues(h) ==
    /\ body'.epoch = body.epoch
    /\ veh'[h].permit \in {issue(body.epoch), NoPermit}
    /\ \A g \in Handle \ {h} : veh'[g].permit = veh[g].permit

\* The epoch moves, and all permits are lost.
Revokes ==
    /\ body'.epoch = bump_authority(body.epoch)
    /\ \A g \in Handle : veh'[g].permit = [veh[g].permit EXCEPT !.standing = "lost"]

LEMMA OrderKept ==
    ASSUME Inductive, TypeOK',
           KeepsPermits \/ (\E h \in Handle : Issues(h)) \/ Revokes
    PROVE  EpochOrder'
<1> SUFFICES ASSUME NEW g \in Handle, (veh[g].permit.held)'
             PROVE  (/\ veh[g].permit.epoch <= body.epoch
                     /\ Unsaturated /\ veh[g].permit.standing = "lost"
                          => veh[g].permit.epoch < body.epoch)'
  BY DEF EpochOrder
<1>1. /\ body.epoch \in 0..EpochMax /\ body'.epoch \in 0..EpochMax
      /\ veh[g].permit \in HeldPermit /\ veh'[g].permit \in HeldPermit
  BY DEF Inductive, TypeOK, Body, MarineVehicle
<1>2. veh[g].permit.held =>
        /\ veh[g].permit.epoch <= body.epoch
        /\ Unsaturated /\ veh[g].permit.standing = "lost"
             => veh[g].permit.epoch < body.epoch
  BY DEF Inductive, EpochOrder
<1>3. CASE KeepsPermits
  BY <1>1, <1>2, <1>3 DEF KeepsPermits, Unsaturated
<1>4. CASE \E h \in Handle : Issues(h)
  <2>1. PICK h \in Handle : Issues(h)
    BY <1>4
  <2>2. CASE g = h
    BY <1>1, <2>1, <2>2 DEF Issues, issue, NoPermit, Unsaturated
  <2>3. CASE g # h
    BY <1>1, <1>2, <2>1, <2>3 DEF Issues, Unsaturated
  <2>4. QED
    BY <2>2, <2>3
<1>5. CASE Revokes
  <2>1. veh'[g].permit.epoch = veh[g].permit.epoch /\ veh[g].permit.held
    BY <1>1, <1>5 DEF Revokes, HeldPermit
  <2>2. QED
    BY <1>1, <1>2, <1>5, <2>1, Bumped DEF Revokes, Unsaturated, HeldPermit
<1>6. QED
  BY <1>3, <1>4, <1>5

\* A hull in failsafe has no current permit, if it was left as it was or if
\* the step revoked.
LEMMA ClearKept ==
    ASSUME Inductive, TypeOK',
           \/ ~body'.marine.failsafe
           \/ Revokes
           \/ GivesNone /\ body'.marine = body.marine
    PROVE  CurrentMeansClear'
<1> SUFFICES ASSUME Unsaturated', NEW g \in Handle, EpochCurrent(g)'
             PROVE  ~body'.marine.failsafe
  BY DEF CurrentMeansClear
<1>1. /\ body.epoch \in 0..EpochMax /\ body'.epoch \in 0..EpochMax
      /\ veh[g].permit \in HeldPermit /\ veh'[g].permit \in HeldPermit
  BY DEF Inductive, TypeOK, Body, MarineVehicle
<1>2. CASE ~body'.marine.failsafe
  BY <1>2
<1>3. CASE Revokes
  <2>1. veh'[g].permit.epoch = veh[g].permit.epoch /\ veh[g].permit.held
    BY <1>1, <1>3 DEF Revokes, HeldPermit, EpochCurrent
  <2>2. veh[g].permit.epoch <= body.epoch
    BY <2>1 DEF Inductive, EpochOrder
  <2>3. veh'[g].permit.epoch < body'.epoch
    BY <1>1, <1>3, <2>1, <2>2, Bumped DEF Revokes, Unsaturated, HeldPermit
  <2>4. QED
    BY <1>1, <2>3 DEF EpochCurrent, HeldPermit
<1>4. CASE GivesNone /\ body'.marine = body.marine
  BY <1>4 DEF GivesNone, Inductive, CurrentMeansClear, EpochCurrent, Unsaturated
<1>5. QED
  BY <1>2, <1>3, <1>4

\* What the lemmas above ask of a step.
Shaped ==
    /\ TypeOK'
    /\ KeepsPermits \/ (\E h \in Handle : Issues(h)) \/ Revokes
    /\ \/ ~body'.marine.failsafe
       \/ Revokes
       \/ GivesNone /\ body'.marine = body.marine

LEMMA AttachShaped ==
    ASSUME Inductive, NEW h \in Handle, Attach(h)
    PROVE  Shaped
<1>1. /\ body \in Body /\ veh \in [Handle -> MarineVehicle] /\ body' = body
      /\ body.marine \in MarineState /\ body.epoch \in 0..EpochMax
  BY DEF Inductive, TypeOK, Body, Attach
<1> DEFINE kind == marine_kind(body.marine)
           permit == IF grants_actuation(kind) THEN issue(body.epoch) ELSE NoPermit
<1>2. kind \in Kind /\ permit \in HeldPermit
  BY <1>1, PermitTypes DEF Kind, marine_kind, MarineState, MarinePhase
<1>3. PICK v \in {veh[h], Idle(veh[h])} :
        veh' = [veh EXCEPT ![h] = [v EXCEPT !.kind = kind, !.safety = body.marine,
                                            !.permit = permit]]
  BY DEF Attach
<1>4. v \in MarineVehicle
  BY <1>1, <1>3, IdleTypes
<1>5. grants_actuation(kind) => ~body.marine.failsafe
  BY DEF grants_actuation, marine_kind
<1>6. permit = NoPermit \/ (permit = issue(body.epoch) /\ grants_actuation(kind))
  OBVIOUS
<1> HIDE DEF kind, permit
<1>7. TypeOK'
  BY <1>1, <1>2, <1>3, <1>4 DEF TypeOK, MarineVehicle
<1>8. /\ veh'[h].permit = permit
      /\ \A g \in Handle \ {h} : veh'[g].permit = veh[g].permit
  BY <1>1, <1>3, <1>4 DEF MarineVehicle
<1>9. QED
  BY <1>1, <1>5, <1>6, <1>7, <1>8 DEF Shaped, Issues, GivesNone, NoPermit

LEMMA NewShaped ==
    ASSUME Inductive, NEW h \in Handle, New(h)
    PROVE  Shaped
<1>1. /\ body \in Body /\ veh \in [Handle -> MarineVehicle] /\ body' = body
      /\ Idle(veh[h]) \in MarineVehicle
  BY IdleTypes DEF Inductive, TypeOK, New
<1>2. TypeOK'
  BY <1>1, KernelStates, PermitTypes DEF New, TypeOK, MarineVehicle, Kind, MarinePhase
<1>3. /\ veh'[h].permit = NoPermit
      /\ \A g \in Handle \ {h} : veh'[g].permit = veh[g].permit
  BY <1>1 DEF New, MarineVehicle
<1>4. QED
  BY <1>1, <1>2, <1>3 DEF Shaped, Issues, GivesNone, NoPermit

\* A handle's own event: h keeps its permit, is issued one, or is consumed.
LEMMA WalkShaped ==
    ASSUME Inductive, NEW h \in Handle, NEW from, NEW into \in Kind,
           NEW e \in {"Undock", "Station", "Resume"}, Walk(h, from, e, into)
    PROVE  Shaped
<1> DEFINE v == veh[h]
           s == After(v.safety, e)
           permit == IF e = "Undock" THEN issue(body.epoch) ELSE v.permit
<1>1. /\ body \in Body /\ veh \in [Handle -> MarineVehicle]
      /\ body.epoch \in 0..EpochMax
      /\ v.safety \in MarineState /\ v.permit \in HeldPermit
  BY DEF Inductive, TypeOK, Body, MarineVehicle
<1>2. CASE Admits(v.safety, e)
  <2>1. /\ body' = sync_marine(body, s)
        /\ veh' = [veh EXCEPT ![h] = [v EXCEPT !.kind = into, !.safety = s,
                                               !.permit = permit]]
    BY <1>1, <1>2 DEF Walk
  <2>2. s \in MarineState /\ ~s.failsafe
    BY <1>1, <1>2, WalkedClear
  <2>3. permit \in HeldPermit /\ (permit = issue(body.epoch) \/ permit = v.permit)
    BY <1>1, PermitTypes
  <2> HIDE DEF s, permit
  <2>4. body' \in Body /\ ~body'.marine.failsafe /\ body'.epoch = body.epoch
    BY <1>1, <2>1, <2>2, SyncTypes
  <2>5. TypeOK'
    BY <1>1, <2>1, <2>2, <2>3, <2>4 DEF TypeOK, MarineVehicle
  <2>6. /\ veh'[h].permit = permit
        /\ \A g \in Handle \ {h} : veh'[g].permit = veh[g].permit
    BY <1>1, <2>1 DEF MarineVehicle
  <2>7. Issues(h) \/ KeepsPermits
    BY <2>3, <2>4, <2>6 DEF Issues, KeepsPermits
  <2>8. QED
    BY <2>4, <2>5, <2>7 DEF Shaped
<1>3. CASE ~Admits(v.safety, e)
  <2>1. body' = body /\ veh' = [veh EXCEPT ![h] = Unbound]
    BY <1>3 DEF Walk
  <2>2. Unbound \in MarineVehicle /\ Unbound.permit = NoPermit
    BY KernelStates, PermitTypes DEF Unbound, MarineVehicle, Kind
  <2>3. TypeOK'
    BY <1>1, <2>1, <2>2 DEF TypeOK
  <2>4. /\ veh'[h].permit = NoPermit
        /\ \A g \in Handle \ {h} : veh'[g].permit = veh[g].permit
    BY <1>1, <2>1, <2>2
  <2>5. QED
    BY <2>1, <2>3, <2>4 DEF Shaped, Issues, GivesNone, NoPermit
<1>4. QED
  BY <1>2, <1>3

LEMMA ThrustShaped ==
    ASSUME Inductive, NEW h \in Handle, Thrust(h)
    PROVE  Shaped
<1>1. /\ body \in Body /\ veh \in [Handle -> MarineVehicle]
      /\ veh[h].safety \in MarineState /\ veh[h].permit.standing \in Command
  BY DEF Inductive, TypeOK, MarineVehicle, HeldPermit
<1>2. body' = sync_marine(body, veh[h].safety) /\ ~veh[h].safety.failsafe
  BY DEF Thrust, Admits
<1>3. body' \in Body /\ ~body'.marine.failsafe /\ body'.epoch = body.epoch
  BY <1>1, <1>2, SyncTypes
<1>4. /\ veh' \in [Handle -> MarineVehicle]
      /\ \A g \in Handle : veh'[g].permit = veh[g].permit
  BY <1>1 DEF Thrust, MarineVehicle
<1>5. QED
  BY <1>3, <1>4 DEF Shaped, TypeOK, KeepsPermits

\* Docking: permits become "docked" and stand, and the hull is docked.
LEMMA DockShaped ==
    ASSUME Inductive, NEW h \in Handle, DockNow(h)
    PROVE  Shaped
<1>1. body \in Body /\ veh \in [Handle -> MarineVehicle]
  BY DEF Inductive, TypeOK
<1>2. body' \in Body /\ ~body'.marine.failsafe /\ body'.epoch = body.epoch
  BY <1>1, KernelStates, SyncTypes DEF DockNow
<1>3. \A g \in Handle :
        /\ Docked(veh[g]) \in MarineVehicle
        /\ Docked(veh[g]).permit = [veh[g].permit EXCEPT !.standing = Ashore(@)]
  BY <1>1, DockedTypes DEF MarineVehicle, HeldPermit
<1>4. \A g \in Handle :
        /\ veh'[g] \in MarineVehicle
        /\ veh'[g].permit = Docked(veh[g]).permit
  <2> SUFFICES ASSUME NEW g \in Handle
               PROVE  /\ veh'[g] \in MarineVehicle
                      /\ veh'[g].permit = Docked(veh[g]).permit
    OBVIOUS
  <2>1. CASE g = h
    <3> DEFINE v == Idle(Docked(veh[g]))
    <3>1. veh'[g] = [v EXCEPT !.kind = "Docked", !.safety = docked]
      BY <2>1 DEF DockNow
    <3>2. v \in MarineVehicle /\ v.permit = Docked(veh[g]).permit
      BY <1>3, IdleTypes
    <3>3. "Docked" \in Kind
      BY DEF Kind, MarinePhase
    <3> HIDE DEF v
    <3>4. QED
      BY <3>1, <3>2, <3>3, ReboundTypes, KernelStates
  <2>2. CASE g # h
    BY <1>3, <2>2 DEF DockNow
  <2>3. QED
    BY <2>1, <2>2
<1>5. veh' \in [Handle -> MarineVehicle]
  BY <1>4 DEF DockNow
<1>6. KeepsPermits
  <2> SUFFICES ASSUME NEW g \in Handle
               PROVE  /\ veh'[g].permit.held => veh[g].permit.held
                      /\ veh'[g].permit.epoch = veh[g].permit.epoch
                      /\ veh'[g].permit.standing = "lost" => veh[g].permit.standing = "lost"
    BY <1>2 DEF KeepsPermits
  <2>1. veh[g].permit \in HeldPermit
    BY <1>1 DEF MarineVehicle
  <2>2. veh'[g].permit = [veh[g].permit EXCEPT !.standing = Ashore(veh[g].permit.standing)]
    BY <1>3, <1>4
  <2>3. QED
    BY <2>1, <2>2 DEF HeldPermit, Ashore
<1>7. QED
  BY <1>2, <1>5, <1>4, <1>6 DEF Shaped, TypeOK

LEMMA DeclareFailsafeShaped ==
    ASSUME Inductive, NEW h \in Handle, DeclareFailsafe(h)
    PROVE  Shaped
<1>1. /\ body \in Body /\ veh \in [Handle -> MarineVehicle]
      /\ body.epoch \in 0..EpochMax
  BY DEF Inductive, TypeOK, Body
<1>2. /\ FailsafeEvent(body) \in Body
      /\ FailsafeEvent(body).epoch = bump_authority(body.epoch)
  BY <1>1, KernelStates, PermitTypes
     DEF FailsafeEvent, failsafe_event, After, Body, marine_event_revokes_authority
<1>3. body' \in Body /\ body'.epoch = bump_authority(body.epoch)
  BY <1>2, KernelStates, SyncTypes DEF DeclareFailsafe
<1>4. \A g \in Handle :
        /\ Demoted(veh[g]) \in MarineVehicle
        /\ Demoted(veh[g]).permit = [veh[g].permit EXCEPT !.standing = "lost"]
  BY <1>1, DemotedTypes
<1>5. \A g \in Handle :
        /\ veh'[g] \in MarineVehicle
        /\ veh'[g].permit = Demoted(veh[g]).permit
  <2> SUFFICES ASSUME NEW g \in Handle
               PROVE  /\ veh'[g] \in MarineVehicle
                      /\ veh'[g].permit = Demoted(veh[g]).permit
    OBVIOUS
  <2>1. CASE g = h
    <3> DEFINE v == Idle(Demoted(veh[g]))
    <3>1. veh'[g] = [v EXCEPT !.kind = "Failsafe", !.safety = tripped]
      BY <2>1 DEF DeclareFailsafe
    <3>2. v \in MarineVehicle /\ v.permit = Demoted(veh[g]).permit
      BY <1>4, IdleTypes
    <3>3. "Failsafe" \in Kind
      BY DEF Kind, MarinePhase
    <3> HIDE DEF v
    <3>4. QED
      BY <3>1, <3>2, <3>3, ReboundTypes, KernelStates
  <2>2. CASE g # h
    BY <1>4, <2>2 DEF DeclareFailsafe
  <2>3. QED
    BY <2>1, <2>2
<1>6. veh' \in [Handle -> MarineVehicle]
  BY <1>5 DEF DeclareFailsafe
<1>7. QED
  BY <1>3, <1>4, <1>5, <1>6 DEF Shaped, TypeOK, Revokes

LEMMA RecoverShaped ==
    ASSUME Inductive, NEW h \in Handle, RecoverDocked(h)
    PROVE  Shaped
<1>1. /\ body \in Body /\ veh \in [Handle -> MarineVehicle]
      /\ Idle(veh[h]) \in MarineVehicle /\ Idle(veh[h]).permit = veh[h].permit
  BY IdleTypes DEF Inductive, TypeOK
<1>2. body' \in Body /\ ~body'.marine.failsafe /\ body'.epoch = body.epoch
  BY <1>1, KernelStates, SyncTypes DEF RecoverDocked, After
<1>3. /\ veh' \in [Handle -> MarineVehicle]
      /\ \A g \in Handle : veh'[g].permit = veh[g].permit
  BY <1>1, KernelStates DEF RecoverDocked, MarineVehicle, Kind, MarinePhase
<1>4. QED
  BY <1>2, <1>3 DEF Shaped, TypeOK, KeepsPermits

\* The backend and the world touch neither the kernel state nor the epoch.
LEMMA WorldShaped ==
    ASSUME Inductive, (\E h \in Handle : Flush(h) \/ Tick(h)) \/ step
    PROVE  Shaped
<1>1. body \in Body /\ veh \in [Handle -> MarineVehicle]
  BY DEF Inductive, TypeOK
<1>2. \A b \in Body, o \in StepOutcome :
        /\ try_step(b, o) \in Body
        /\ try_step(b, o).marine = b.marine /\ try_step(b, o).epoch = b.epoch
  BY DEF try_step, Body
<1>3. \A h \in Handle :
        /\ flush(veh[h]) \in Body
        /\ flush(veh[h]).marine = body.marine /\ flush(veh[h]).epoch = body.epoch
  BY <1>1 DEF flush, Body, MarineVehicle
<1>4. /\ body' \in Body /\ body'.marine = body.marine /\ body'.epoch = body.epoch
      /\ veh' = veh
  BY <1>1, <1>2, <1>3 DEF Flush, Tick, step
<1>5. QED
  BY <1>1, <1>4 DEF Shaped, TypeOK, KeepsPermits, GivesNone

LEMMA StepShaped ==
    ASSUME Inductive, Next
    PROVE  Shaped
<1>1. ASSUME NEW h \in Handle, Undock(h) \/ HoldStation(h) \/ Resume(h)
      PROVE  Shaped
  BY <1>1, WalkShaped DEF Undock, HoldStation, Resume, Kind, MarinePhase
<1>2. QED
  BY <1>1, AttachShaped, NewShaped, ThrustShaped, DockShaped, DeclareFailsafeShaped,
     RecoverShaped, WorldShaped DEF Next

-----------------------------------------------------------------------------
(* The theorems. *)

THEOREM AlwaysInductive == Spec => []Inductive
<1>1. Init => Inductive
  <2> SUFFICES ASSUME Init
               PROVE  Inductive
    OBVIOUS
  <2>1. body \in Body
    BY KernelStates DEF Init, skiff, Body
  <2>2. veh \in [Handle -> MarineVehicle] /\ \A h \in Handle : ~veh[h].permit.held
    BY KernelStates, PermitTypes DEF Init, Unbound, MarineVehicle, Kind, NoPermit
  <2>3. QED
    BY <2>1, <2>2 DEF Inductive, TypeOK, EpochOrder, CurrentMeansClear, EpochCurrent
<1>2. Inductive /\ [Next]_vars => Inductive'
  <2> SUFFICES ASSUME Inductive, [Next]_vars
               PROVE  Inductive'
    OBVIOUS
  <2>1. CASE Next
    BY <2>1, StepShaped, OrderKept, ClearKept DEF Shaped, Inductive
  <2>2. CASE UNCHANGED vars
    BY <2>2 DEF vars, Inductive, TypeOK, EpochOrder, CurrentMeansClear, EpochCurrent,
                Unsaturated
  <2>3. QED
    BY <2>1, <2>2
<1>3. QED
  BY <1>1, <1>2, PTL DEF Spec

\* Types, whatever the handles write over each other's states: the hull's and
\* every handle's kernel state satisfy marine_invariants, which the code
\* asserts of marine_step's result only.
THEOREM MarineTypes == Spec => []TypeOK
  BY AlwaysInductive, PTL DEF Inductive

\* Until u32::MAX revocations have been counted, a permit issued before a
\* failsafe is not taken again.
THEOREM LostStaysStale == Spec => []LostPermitsStale
<1>1. Inductive => LostPermitsStale
  BY DEF Inductive, TypeOK, EpochOrder, LostPermitsStale, EpochCurrent, Unsaturated,
         Body, MarineVehicle, HeldPermit
<1>2. QED
  BY <1>1, AlwaysInductive, PTL

\* No current permit is held over a hull in failsafe.
THEOREM CurrentIsClear == Spec => []CurrentMeansClear
  BY AlwaysInductive, PTL DEF Inductive

\* A permit that passes require is not lost, while the epoch still counts.
LEMMA CurrentIsNotLost ==
    ASSUME Inductive, Unsaturated, NEW h \in Handle, require(h)
    PROVE  veh[h].permit.standing # "lost"
<1>1. veh[h].permit \in HeldPermit /\ body.epoch \in 0..EpochMax
  BY DEF Inductive, TypeOK, Body, MarineVehicle
<1>2. QED
  BY <1>1 DEF Inductive, EpochOrder, require, EpochCurrent, HeldPermit

\* Rebinding a handle moves no setpoint.
LEMMA ReboundSetpoint ==
    ASSUME NEW v \in MarineVehicle, NEW kind, NEW s
    PROVE  [v EXCEPT !.kind = kind, !.safety = s].setpoint = v.setpoint
  BY DEF MarineVehicle

\* A step turns no clear setpoint into one of lost authority.
LEMMA NoLostSetpoint ==
    ASSUME Inductive, Next, Unsaturated', NEW g \in Handle,
           veh[g].setpoint = "none"
    PROVE  veh'[g].setpoint # "lost"
<1>1. veh \in [Handle -> MarineVehicle]
  BY DEF Inductive, TypeOK
<1>2. /\ Demoted(veh[g]) \in MarineVehicle /\ Demoted(veh[g]).setpoint = "none"
      /\ Docked(veh[g]) \in MarineVehicle /\ Docked(veh[g]).setpoint = "none"
  <2>1. Demoted(veh[g]) \in MarineVehicle /\ Docked(veh[g]) \in MarineVehicle
    BY <1>1, DemotedTypes, DockedTypes
  <2>2. Demoted(veh[g]).setpoint = "none"
    BY <1>1 DEF Demoted, Lost, MarineVehicle
  <2>3. Docked(veh[g]).setpoint = "none"
    BY <1>1 DEF Docked, Ashore, MarineVehicle
  <2>4. QED
    BY <2>1, <2>2, <2>3
<1>3. \A v \in MarineVehicle : Idle(v) \in MarineVehicle /\ Idle(v).setpoint = "none"
  BY IdleTypes DEF Idle, MarineVehicle
<1>4. ASSUME NEW h \in Handle, Attach(h) \/ New(h) \/ RecoverDocked(h)
      PROVE  veh'[g].setpoint = "none"
  <2>1. CASE Attach(h)
    BY <1>1, <1>3, <2>1 DEF Attach, MarineVehicle
  <2>2. CASE New(h)
    BY <1>1, <1>3, <2>2 DEF New, MarineVehicle
  <2>3. CASE RecoverDocked(h)
    BY <1>1, <1>3, <2>3 DEF RecoverDocked, MarineVehicle
  <2>4. QED
    BY <1>4, <2>1, <2>2, <2>3
<1>5. ASSUME NEW h \in Handle, Undock(h) \/ HoldStation(h) \/ Resume(h)
      PROVE  veh'[g].setpoint = "none"
  <2>1. PICK from, into, e : Walk(h, from, e, into)
    BY <1>5 DEF Undock, HoldStation, Resume
  <2>2. CASE Admits(veh[h].safety, e)
    <3> DEFINE s == After(veh[h].safety, e)
               permit == IF e = "Undock" THEN issue(body.epoch) ELSE veh[h].permit
    <3>1. veh' = [veh EXCEPT ![h] = [veh[h] EXCEPT !.kind = into, !.safety = s,
                                                   !.permit = permit]]
      BY <1>1, <2>1, <2>2 DEF Walk
    <3> HIDE DEF s, permit
    <3>2. QED
      BY <1>1, <3>1 DEF MarineVehicle
  <2>3. CASE ~Admits(veh[h].safety, e)
    BY <1>1, <2>1, <2>3 DEF Walk, Unbound
  <2>4. QED
    BY <2>2, <2>3
<1>6. ASSUME NEW h \in Handle, Thrust(h)
      PROVE  veh'[g].setpoint # "lost"
  <2>1. body'.epoch = body.epoch
    BY <1>6, SyncTypes DEF Thrust, Inductive, TypeOK, MarineVehicle
  <2>2. veh[h].permit.standing # "lost"
    BY <1>6, <2>1, CurrentIsNotLost DEF Thrust, Unsaturated
  <2>3. QED
    BY <1>1, <1>6, <2>2 DEF Thrust, MarineVehicle
<1>7. ASSUME NEW h \in Handle, DockNow(h)
      PROVE  veh'[g].setpoint = "none"
  <2>1. CASE g = h
    <3> DEFINE v == Idle(Docked(veh[g]))
    <3>1. veh'[g] = [v EXCEPT !.kind = "Docked", !.safety = docked]
      BY <1>7, <2>1 DEF DockNow
    <3>2. v \in MarineVehicle /\ v.setpoint = "none"
      BY <1>2, <1>3
    <3> HIDE DEF v
    <3>3. QED
      BY <3>1, <3>2, ReboundSetpoint
  <2>2. CASE g # h
    BY <1>2, <1>7, <2>2 DEF DockNow
  <2>3. QED
    BY <2>1, <2>2
<1>8. ASSUME NEW h \in Handle, DeclareFailsafe(h)
      PROVE  veh'[g].setpoint = "none"
  <2>1. CASE g = h
    <3> DEFINE v == Idle(Demoted(veh[g]))
    <3>1. veh'[g] = [v EXCEPT !.kind = "Failsafe", !.safety = tripped]
      BY <1>8, <2>1 DEF DeclareFailsafe
    <3>2. v \in MarineVehicle /\ v.setpoint = "none"
      BY <1>2, <1>3
    <3> HIDE DEF v
    <3>3. QED
      BY <3>1, <3>2, ReboundSetpoint
  <2>2. CASE g # h
    BY <1>2, <1>8, <2>2 DEF DeclareFailsafe
  <2>3. QED
    BY <2>1, <2>2
<1>9. CASE (\E h \in Handle : Flush(h) \/ Tick(h)) \/ step
  BY <1>9 DEF Flush, Tick, step
<1>10. QED
  BY <1>4, <1>5, <1>6, <1>7, <1>8, <1>9 DEF Next

\* No call stages a setpoint under a permit that a failsafe ended.
THEOREM SetpointsArePermitted == Spec => SetpointsPermitted
<1>1. Inductive /\ [Next]_vars =>
        [Unsaturated' =>
           \A h \in Handle : veh'[h].setpoint = "lost" => veh[h].setpoint # "none"]_vars
  <2> SUFFICES ASSUME Inductive, Next, Unsaturated', NEW h \in Handle,
                      veh'[h].setpoint = "lost"
               PROVE  veh[h].setpoint # "none"
    BY DEF vars
  <2>1. QED
    BY NoLostSetpoint
<1>2. QED
  BY <1>1, AlwaysInductive, PTL DEF Spec, SetpointsPermitted

\* Writing a state without thrust over the hull drops its command.
LEMMA SyncIdles ==
    ASSUME NEW b \in Body, NEW s \in MarineState,
           ~sync_marine(b, s).marine.thrust_enabled
    PROVE  sync_marine(b, s).command = "none"
  BY DEF sync_marine, Body

\* Unless a handle flushes what it had staged, a hull whose thrust is off is as
\* it was or has no command.
LEMMA StoppedStep ==
    ASSUME Inductive, Next, ~body'.marine.thrust_enabled, body'.command # "none"
    PROVE  body' = body \/ \E h \in Handle : Flush(h) \/ Tick(h)
<1>1. /\ body \in Body
      /\ \A h \in Handle : veh[h].safety \in MarineState
  BY DEF Inductive, TypeOK, MarineVehicle
<1>2. ASSUME NEW h \in Handle, NEW from, NEW into, NEW e \in {"Undock", "Station", "Resume"},
             Walk(h, from, e, into)
      PROVE  body' = body
  <2>1. CASE Admits(veh[h].safety, e)
    <3>1. After(veh[h].safety, e) \in MarineState
      BY <1>1, <2>1, WalkedClear
    <3>2. body' = sync_marine(body, After(veh[h].safety, e))
      BY <1>2, <2>1 DEF Walk
    <3>3. QED
      BY <1>1, <3>1, <3>2, SyncIdles
  <2>2. CASE ~Admits(veh[h].safety, e)
    BY <1>2, <2>2 DEF Walk
  <2>3. QED
    BY <2>1, <2>2
<1>3. ASSUME NEW h \in Handle, Thrust(h) \/ DockNow(h) \/ RecoverDocked(h)
      PROVE  FALSE
  <2>1. \E s \in MarineState : body' = sync_marine(body, s)
    <3>1. CASE Thrust(h)
      BY <1>1, <3>1 DEF Thrust
    <3>2. CASE DockNow(h)
      BY <3>2, KernelStates DEF DockNow
    <3>3. CASE RecoverDocked(h)
      <4>1. After(veh[h].safety, "Recover") \in MarineState
        BY <1>1, <3>3, WalkedClear DEF RecoverDocked
      <4>2. QED
        BY <3>3, <4>1 DEF RecoverDocked
    <3>4. QED
      BY <1>3, <3>1, <3>2, <3>3
  <2>2. QED
    BY <1>1, <2>1, SyncIdles
<1>4. ASSUME NEW h \in Handle, DeclareFailsafe(h)
      PROVE  FALSE
  <2>1. FailsafeEvent(body) \in Body
    BY <1>1, KernelStates, PermitTypes
       DEF FailsafeEvent, failsafe_event, After, Body, marine_event_revokes_authority
  <2>2. QED
    BY <1>4, <2>1, KernelStates, SyncIdles DEF DeclareFailsafe
<1>5. CASE step
  <2>1. PICK o \in StepOutcome : body' = try_step(body, o)
    BY <1>5 DEF step
  <2>2. CASE o = "cut" \/ (o = "granted" /\ ~actuators_granted(body))
    <3>1. body'.command = "none"
      BY <1>1, <2>1, <2>2 DEF try_step, Body
    <3>2. QED
      BY <3>1
  <2>3. CASE ~(o = "cut" \/ (o = "granted" /\ ~actuators_granted(body)))
    BY <2>1, <2>3 DEF try_step
  <2>4. QED
    BY <2>2, <2>3
<1>6. ASSUME NEW h \in Handle, Attach(h) \/ New(h)
      PROVE  body' = body
  BY <1>6 DEF Attach, New
<1>7. ASSUME NEW h \in Handle, Undock(h) \/ HoldStation(h) \/ Resume(h)
      PROVE  body' = body
  BY <1>2, <1>7 DEF Undock, HoldStation, Resume
<1>8. QED
  BY <1>3, <1>4, <1>5, <1>6, <1>7 DEF Next

\* A hull that a call docked or tripped has no command after it; only a flush of
\* what a handle had staged before puts one back.
THEOREM StoppedStaysIdle == Spec => StoppedIsIdle
<1>1. Inductive /\ [Next]_vars =>
        [~body'.marine.thrust_enabled /\ body'.command # "none" =>
           body' = body \/ \E h \in Handle : Flush(h) \/ Tick(h)]_vars
  <2> SUFFICES ASSUME Inductive, Next, ~body'.marine.thrust_enabled, body'.command # "none"
               PROVE  body' = body \/ \E h \in Handle : Flush(h) \/ Tick(h)
    BY DEF vars
  <2>1. QED
    BY StoppedStep
<1>2. QED
  BY <1>1, AlwaysInductive, PTL DEF Spec, StoppedIsIdle
=============================================================================
