----------------------------- MODULE PlantsProofs -----------------------------
(***************************************************************************)
(* What holds of the plants for every catalog, any revokes and any order   *)
(* of calls.  The bodies of a plant stay in states their kernels can be    *)
(* in; a body that has a velocity was given one by the plant, and has not  *)
(* been stopped by it since; a plant that is not armed has a dead drone;   *)
(* and the second hull of a fleet is never live without the first, which   *)
(* is why a walk over the hulls that breaks off at the first has missed    *)
(* none.                                                                   *)
(***************************************************************************)
EXTENDS Plants, WalkProofs

InvariantPlants ==
    /\ Present \subseteq Id /\ "drone" \in Present
    /\ Here \in Worlds(Present)
    /\ armed \in BOOLEAN
    /\ \A id \in Present : Velocity(Here, id) => id \in told
    /\ Abreast(Present, Here)
    /\ DisarmedMeansDead

LEMMA HereIs ==
    ASSUME InvariantPlants
    PROVE  /\ Here.error = "none" /\ Here.body = body /\ Here.setpoint = setpoint
           /\ DOMAIN body = Present
           /\ \A id \in Present : body[id] \in Sane(id) /\ setpoint[id] \in Setpoint
  <1>1. Here.error = "none" /\ Here.body = body /\ Here.setpoint = setpoint
    BY DEF Here
  <1>2. Here \in Worlds(Present)
    BY DEF InvariantPlants
  <1> QED BY <1>1, <1>2, WorldsAre DEF Present

\* A call that leaves the world w keeps the invariant, if it keeps what w does
\* not show.
LEMMA Kept ==
    ASSUME InvariantPlants, NEW w \in Worlds(Present), Now(w), Abreast(Present, w),
           \A id \in Present : Velocity(w, id) => id \in told',
           armed' \in BOOLEAN, kind' = kind,
           WorldPlant /\ ~armed' => ~actuators_granted(w.body["drone"])
    PROVE  InvariantPlants'
  <1> DEFINE C == Present
  <1>1. body' = w.body /\ setpoint' = w.setpoint
    BY DEF Now
  <1>2. Present' = C
    BY <1>1, WorldsAre DEF Present
  <1>3. C \subseteq Id /\ "drone" \in C
    BY DEF InvariantPlants
  <1>4. Here' = [body |-> w.body, setpoint |-> w.setpoint, error |-> "none"]
    BY <1>1 DEF Here
  <1> DEFINE h == Here'
  <1>5. h.body = w.body /\ h.setpoint = w.setpoint
    BY <1>4
  <1>6. h \in Worlds(C)
    <2> HIDE DEF C, h
    <2>1. /\ w.body = [id \in C |-> w.body[id]] /\ w.setpoint = [id \in C |-> w.setpoint[id]]
          /\ \A id \in C : w.body[id] \in Sane(id) /\ w.setpoint[id] \in Setpoint
      BY WorldsAre DEF C
    <2>2. h = [body |-> w.body, setpoint |-> w.setpoint, error |-> "none"]
      BY <1>4 DEF h
    <2> QED BY <1>3, <2>1, <2>2, WorldsMade
  <1>7. Here' \in Worlds(Present')
    BY <1>2, <1>6
  <1>8. ASSUME NEW id \in C, Velocity(h, id) PROVE id \in told'
    BY <1>5, <1>8 DEF Velocity
  <1>9. (\A id \in Present : Velocity(Here, id) => id \in told)'
    BY <1>2, <1>8
  <1>10. Abreast(C, h)
    BY <1>5 DEF Abreast
  <1>11. (Abreast(Present, Here))'
    BY <1>2, <1>10
  <1>12. DisarmedMeansDead'
    BY <1>1 DEF DisarmedMeansDead, WorldPlant
  <1>13. (Present \subseteq Id /\ "drone" \in Present)'
    BY <1>2, <1>3
  <1> QED BY <1>7, <1>9, <1>11, <1>12, <1>13 DEF InvariantPlants

\* A call of walks that leave nothing a velocity it had not.
LEMMA EasedKept ==
    ASSUME InvariantPlants, NEW w, Eased(Present, Here, w), Then(w, {}), Abreast(Present, w),
           armed' \in BOOLEAN, kind' = kind,
           WorldPlant /\ ~armed' => ~actuators_granted(w.body["drone"])
    PROVE  InvariantPlants'
  <1>1. w \in Worlds(Present)
    BY DEF Eased
  <1>2. Now(w) /\ told' = {id \in told : actuators_granted(body[id])
                                          => actuators_granted(w.body[id])}
    BY DEF Then
  <1>3. ASSUME NEW id \in Present, Velocity(w, id) PROVE id \in told'
    <2>1. /\ Velocity(Here, id)
          /\ actuators_granted(Here.body[id]) => actuators_granted(w.body[id])
      BY <1>3 DEF Eased
    <2>2. id \in told
      BY <2>1 DEF InvariantPlants
    <2> QED BY <1>2, <2>1, <2>2, HereIs
  <1> QED BY <1>1, <1>2, <1>3, Kept

LEMMA WalksIs ==
    ASSUME NEW legs, Walks(legs)
    PROVE  /\ Then(Follow(Here, legs), {}) /\ kind' = kind /\ armed' = armed
  BY DEF Walks

\* What a walk of the drone's alone makes of the world.
LEMMA DroneWalk ==
    ASSUME InvariantPlants, NEW walk \in TameOf("drone") \cup GrantOf("drone")
    PROVE  LET w == Drone(walk)
               a == Attach(body["drone"], walk) IN
           /\ Eased(Present, Here, w) /\ Abreast(Present, w)
           /\ w.error = a.error /\ w.body["drone"] = a.body
  <1> DEFINE w == Drone(walk)
             a == Attach(body["drone"], walk)
             C == Present
             x == Here
  <1>1. C \subseteq Id /\ "drone" \in C /\ x \in Worlds(C) /\ Abreast(C, x)
    BY DEF InvariantPlants
  <1>2. x.error = "none" /\ x.body = body
    BY HereIs
  <1>3. w = Walked(x, [id |-> "drone", walk |-> walk])
    BY <1>2, FollowOne DEF Drone
  <1> HIDE DEF x, C, w
  <1>4. Mild("drone", x.body["drone"], walk, Attach(x.body["drone"], walk))
    BY <1>1, MildOne
  <1>5. /\ Eased(C, x, w)
        /\ w.error = Attach(x.body["drone"], walk).error
        /\ \A i \in C : w.body[i] = IF i = "drone" THEN Attach(x.body["drone"], walk).body
                                                   ELSE x.body[i]
    BY <1>1, <1>3, <1>4, EasedLeg
  <1>6. Abreast(C, w)
    BY <1>1, <1>5 DEF Abreast
  <1>7. w.error = a.error /\ w.body["drone"] = a.body
    BY <1>1, <1>2, <1>5
  <1> QED BY <1>5, <1>6, <1>7 DEF w, C, x

LEMMA DroneTame ==
    ASSUME InvariantPlants, NEW walk \in TameOf("drone"), Walks(Leg("drone", walk))
    PROVE  InvariantPlants'
  <1> DEFINE w == Follow(Here, Leg("drone", walk))
  <1>1. Then(w, {}) /\ kind' = kind /\ armed' = armed
    BY WalksIs
  <1>2. /\ Eased(Present, Here, w) /\ Abreast(Present, w)
        /\ w.body["drone"] = Attach(body["drone"], walk).body
    BY DroneWalk DEF Drone
  <1> HIDE DEF w
  <1>3. "drone" \in Present /\ armed \in BOOLEAN /\ DisarmedMeansDead
    BY DEF InvariantPlants
  <1>4. body["drone"] \in Sane("drone") /\ "drone" \in Id
    BY <1>3, HereIs, Domains
  <1>5. actuators_granted(Attach(body["drone"], walk).body) => actuators_granted(body["drone"])
    <2> DEFINE b == body["drone"]
    <2>1. b \in Sane("drone")
      BY <1>4
    <2> HIDE DEF b
    <2>2. actuators_granted(Attach(b, walk).body) => actuators_granted(b)
      BY <1>4, <2>1, TameWalk
    <2> QED BY <2>2 DEF b
  <1>6. WorldPlant /\ ~armed' => ~actuators_granted(w.body["drone"])
    BY <1>1, <1>2, <1>3, <1>5 DEF DisarmedMeansDead
  <1> QED BY <1>1, <1>2, <1>3, <1>6, EasedKept

LEMMA TameDrone ==
    TameOf("drone") = {attach_start_takeoff, attach_airborne, attach_land, attach_touchdown,
                       attach_failsafe, attach_disarm, attach_hold}
                        \cup {attach_recover_ready(b) : b \in Sane("drone")}
  BY Domains DEF TameOf

-----------------------------------------------------------------------------
(* The fleet.                                                              *)

LEMMA LegsWiden ==
    ASSUME NEW D, NEW C, D \subseteq C, NEW legs \in Seq(MildLegs(D))
    PROVE  legs \in Seq(MildLegs(C))
  <1>1. MildLegs(D) \subseteq MildLegs(C)
    BY DEF MildLegs
  <1> QED BY <1>1

LEMMA HullsIn ==
    ASSUME NEW C, NEW walk \in TameOf("skiff") \cup GrantOf("skiff")
    PROVE  Hulls(C, walk) \in Seq(MildLegs(C \cap {"skiff", "surveyor"}))
  <1> DEFINE H == C \cap {"skiff", "surveyor"}
  <1>1. ASSUME NEW id \in {"skiff", "surveyor"}, id \in C
        PROVE  [id |-> id, walk |-> walk] \in MildLegs(H)
    <2>1. walk \in TameOf(id) \cup GrantOf(id)
      BY HullWalks
    <2> QED BY <1>1, <2>1 DEF MildLegs
  <1> DEFINE T == MildLegs(H)
  <1>2. LegIn(C, "skiff", walk) \in Seq(T) /\ LegIn(C, "surveyor", walk) \in Seq(T)
    BY <1>1, OverIn
  <1> HIDE DEF T
  <1>3. Hulls(C, walk) \in Seq(T)
    BY <1>2, Concat DEF Hulls
  <1> QED BY <1>3 DEF T

\* Legs over the drone and the rover, then a walk over the hulls.
LEMMA LegsEnd ==
    ASSUME NEW C, C \subseteq Id, NEW w \in Worlds(C), Abreast(C, w),
           NEW A \in Seq(MildLegs(C \cap {"drone", "rover"})),
           NEW walk \in TameOf("skiff") \cup GrantOf("skiff"),
           NEW r, r = Follow(w, A \o Hulls(C, walk))
    PROVE  /\ Eased(C, w, r) /\ Abreast(C, r)
           /\ Legs(w, A \o Hulls(C, walk), r)
           /\ \E m \in Worlds(C) : Legs(w, A, m) /\ Legs(m, Hulls(C, walk), r)
  <1> DEFINE D == C \cap {"drone", "rover"}
             H == C \cap {"skiff", "surveyor"}
             T == MildLegs(C)
  <1>0. Hulls(C, walk) \in Seq(MildLegs(H))
    BY HullsIn
  <1>1. A \in Seq(T) /\ Hulls(C, walk) \in Seq(T)
    BY <1>0, LegsWiden
  <1> HIDE DEF T
  <1>a. A \o Hulls(C, walk) \in Seq(T)
    BY <1>1, Concat
  <1>b. Legs(w, A \o Hulls(C, walk), r)
    BY <1>a, FollowLegs
  <1>2. PICK m : Legs(w, A, m) /\ Legs(m, Hulls(C, walk), r)
    BY <1>1, <1>b, LegsSplit
  <1>3. Eased(C, w, m) /\ \A i \in C \ D : m.body[i] = w.body[i]
    BY <1>2, EasedLegs
  <1>4. m \in Worlds(C)
    BY <1>3 DEF Eased
  <1>5. Abreast(C, m)
    BY <1>3 DEF Abreast
  <1>6. Eased(C, m, r)
    BY <1>0, <1>2, <1>4, EasedLegs
  <1>7. walk \in {attach_undock, attach_station, attach_resume, attach_dock,
                  attach_marine_failsafe, attach_recover}
    BY HullWalks
  <1>8. Abreast(C, r)
    BY <1>2, <1>4, <1>5, <1>7, HullsAbreast
  <1> QED BY <1>b, <1>2, <1>3, <1>4, <1>6, <1>8, EasedTwice

LEMMA HullsAre == \A id, walk : If(id, walk) = LegIn(Present, id, walk)
                                /\ hulls(walk) = Hulls(Present, walk)
  BY DEF If, hulls, LegIn, Hulls

\* A fleet's call: legs over the drone and the rover, and over the hulls.
LEMMA FleetWalks ==
    ASSUME InvariantPlants, Fleet, NEW A \in Seq(MildLegs(Present \cap {"drone", "rover"})),
           NEW walk \in TameOf("skiff") \cup GrantOf("skiff"), Walks(A \o hulls(walk))
    PROVE  InvariantPlants'
  <1> DEFINE w == Follow(Here, A \o hulls(walk))
  <1>1. Then(w, {}) /\ kind' = kind /\ armed' = armed
    BY WalksIs
  <1>2. Present \subseteq Id /\ Here \in Worlds(Present) /\ Abreast(Present, Here)
        /\ armed \in BOOLEAN
    BY DEF InvariantPlants
  <1>3. w = Follow(Here, A \o Hulls(Present, walk))
    BY HullsAre
  <1> HIDE DEF w
  <1>4. Eased(Present, Here, w) /\ Abreast(Present, w)
    BY <1>2, <1>3, LegsEnd
  <1>5. ~WorldPlant
    BY DEF Fleet, WorldPlant
  <1> QED BY <1>1, <1>2, <1>4, <1>5, EasedKept

-----------------------------------------------------------------------------
(* The beginning, and the events injected through the session.             *)

LEMMA SpawnedIs ==
    ASSUME NEW id \in Id
    PROVE  Spawned(id) \in Sane(id) /\ ~actuators_granted(Spawned(id))
             /\ Spawned(id).command = "none"
  <1>1. CASE id = "drone"
    <2>1. Ready \in Flown
      <3> DEFINE d == Air!Disconnected
                 s == Ready
      <3>1. /\ d \in Air!SafetyState
            /\ ~d.armed /\ ~d.actuators_enabled /\ ~d.offboard /\ ~d.failsafe
        BY DEF Air!Disconnected, Air!SafetyState, Air!Phase
      <3>2. s = [d EXCEPT !.phase = "Ready", !.imu_healthy = TRUE, !.estimator_valid = TRUE]
        BY DEF Ready
      <3> HIDE DEF s, d
      <3>3. /\ s \in Air!SafetyState /\ s.phase = "Ready"
            /\ ~s.armed /\ ~s.actuators_enabled /\ ~s.offboard /\ ~s.failsafe
        BY <3>1, <3>2 DEF Air!SafetyState, Air!Phase
      <3>4. s \in Flown
        BY <3>3 DEF Flown, Air!CheckInvariants, Air!InFlight
      <3> QED BY <3>4 DEF s
    <2>2. Spawned(id) = [id |-> id, command |-> "none", safety |-> Ready]
      BY <1>1, Domains DEF Spawned
    <2>3. Sane(id) = [id : {id}, safety : Flown, command : Setpoint]
      BY <1>1, Domains DEF Sane, Sound
    <2>4. Spawned(id) \in Sane(id)
      BY <2>1, <2>2, <2>3 DEF Setpoint
    <2>5. Ready.phase = "Ready"
      BY DEF Ready, Air!Disconnected
    <2> QED BY <2>2, <2>4, <2>5, LiveIs DEF LivePhase
  <1>2. CASE id = "rover"
    <2>1. Land!parked \in Driven /\ Land!parked.phase = "Parked"
      BY DEF Land!parked, Driven, Land!GroundState, Land!GroundPhase, Land!ground_invariants
    <2>2. Spawned(id) = [id |-> id, command |-> "none", safety |-> Land!parked]
      BY <1>2, Domains DEF Spawned
    <2>3. Sane(id) = [id : {id}, safety : Driven, command : Setpoint]
      BY <1>2, Domains DEF Sane, Sound
    <2>4. Spawned(id) \in Sane(id)
      BY <2>1, <2>2, <2>3 DEF Setpoint
    <2> QED BY <2>1, <2>2, <2>4, LiveIs DEF LivePhase
  <1>3. CASE id \in {"skiff", "surveyor"}
    <2>1. Sea!docked \in Sailed /\ Sea!docked.phase = "Docked"
      BY DEF Sea!docked, Sailed, Sea!MarineState, Sea!MarinePhase, Sea!marine_invariants
    <2>0. Domain(id) = "marine"
      BY <1>3, Domains
    <2>2. Spawned(id) = [id |-> id, command |-> "none", safety |-> Sea!docked]
      BY <2>0 DEF Spawned
    <2>3. Sane(id) = [id : {id}, safety : Sailed, command : Setpoint]
      BY <2>0 DEF Sane, Sound
    <2>4. Spawned(id) \in Sane(id)
      BY <2>1, <2>2, <2>3 DEF Setpoint
    <2> QED BY <2>1, <2>2, <2>4, LiveIs DEF LivePhase
  <1> QED BY <1>1, <1>2, <1>3, Domains

LEMMA InitPlants == Init => InvariantPlants
  <1> SUFFICES ASSUME Init PROVE InvariantPlants
    OBVIOUS
  <1>1. PICK p \in Plant : /\ body = [id \in p.bodies |-> Spawned(id)]
                           /\ setpoint = [id \in p.bodies |-> "none"]
                           /\ armed = FALSE
    BY DEF Init
  <1> DEFINE C == Present
  <1>2. C = p.bodies
    BY <1>1 DEF Present
  <1>3. C \subseteq Id /\ "drone" \in C
    BY <1>2, PlantAssumption
  <1>4. body = [id \in C |-> Spawned(id)] /\ setpoint = [id \in C |-> "none"]
    BY <1>1, <1>2
  <1> HIDE DEF C
  <1>5. \A id \in C : /\ body[id] \in Sane(id) /\ setpoint[id] \in Setpoint
                      /\ ~actuators_granted(body[id])
                      /\ body[id].command = "none" /\ setpoint[id] = "none"
    BY <1>3, <1>4, SpawnedIs DEF Setpoint
  <1>6. body = [id \in C |-> body[id]] /\ setpoint = [id \in C |-> setpoint[id]]
    BY <1>4
  <1> DEFINE h == Here
  <1>7. h = [body |-> body, setpoint |-> setpoint, error |-> "none"]
    BY DEF Here
  <1> HIDE DEF h
  <1>8. h \in Worlds(C)
    BY <1>3, <1>5, <1>6, <1>7, WorldsMade
  <1>9. h.body = body /\ h.setpoint = setpoint
    BY <1>7
  <1>10. \A id \in C : ~Velocity(h, id)
    BY <1>5, <1>9 DEF Velocity
  <1>11. Abreast(C, h)
    BY <1>5, <1>9 DEF Abreast
  <1>12. DisarmedMeansDead
    BY <1>3, <1>5 DEF DisarmedMeansDead
  <1> QED BY <1>1, <1>3, <1>8, <1>10, <1>11, <1>12 DEF InvariantPlants, h, C

LEMMA Inject ==
    ASSUME InvariantPlants, NEW e, inject(e)
    PROVE  InvariantPlants'
  <1> DEFINE b == body["drone"]
             y == inject_revoke(b, e).body
             C == Present
             w == [body |-> body', setpoint |-> setpoint', error |-> "none"]
  <1>1. body' = [body EXCEPT !["drone"] = y] /\ setpoint' = setpoint /\ told' = told
        /\ armed' = armed /\ kind' = kind
    BY DEF inject
  <1>2. C \subseteq Id /\ "drone" \in C /\ armed \in BOOLEAN
    BY DEF InvariantPlants
  <1>3. b \in Sane("drone")
    BY <1>2, HereIs
  <1> HIDE DEF b
  <1>4. y \in Sane("drone") /\ y.command \in {b.command, "none"}
        /\ (actuators_granted(y) => actuators_granted(b))
    BY <1>3, InjectLeft, InjectTame
  <1> HIDE DEF y
  <1>5. DOMAIN body = C
    BY DEF Present
  <1>6. \A id \in C : body'[id] = IF id = "drone" THEN y ELSE body[id]
    BY <1>1, <1>2, <1>5
  <1>7. body' = [id \in C |-> body'[id]]
    BY <1>1, <1>5
  <1>8. setpoint = [id \in C |-> setpoint[id]]
    <2>1. Here \in Worlds(C)
      BY DEF InvariantPlants
    <2> QED BY <2>1, WorldsAre, HereIs
  <1>9. \A id \in C : body[id] \in Sane(id) /\ setpoint[id] \in Setpoint
    BY HereIs
  <1>10. w \in Worlds(C)
    <2> HIDE DEF C
    <2>1. \A id \in C : body'[id] \in Sane(id) /\ setpoint'[id] \in Setpoint
      BY <1>1, <1>4, <1>6, <1>9
    <2> DEFINE B == body'
               S == setpoint'
    <2>2. B = [id \in C |-> B[id]] /\ S = [id \in C |-> S[id]]
      BY <1>1, <1>7, <1>8
    <2>3. \A id \in C : B[id] \in Sane(id) /\ S[id] \in Setpoint
      BY <2>1
    <2>4. w = [body |-> B, setpoint |-> S, error |-> "none"]
      OBVIOUS
    <2> HIDE DEF B, S, w
    <2> QED BY <1>2, <2>2, <2>3, <2>4, WorldsMade
  <1>11. w.body = body' /\ w.setpoint = setpoint'
    OBVIOUS
  <1> HIDE DEF w
  <1>12. ASSUME NEW id \in Present, Velocity(w, id) PROVE id \in told'
    <2>1. Velocity(Here, id)
      BY <1>1, <1>4, <1>6, <1>11, <1>12, HereIs DEF Velocity, b
    <2> QED BY <1>1, <2>1 DEF InvariantPlants
  <1>13. Abreast(C, w)
    <2>1. Abreast(C, Here)
      BY DEF InvariantPlants
    <2>2. \A id \in C \ {"drone"} : w.body[id] = Here.body[id]
      BY <1>6, <1>11, HereIs
    <2> QED BY <2>1, <2>2 DEF Abreast
  <1>14. WorldPlant /\ ~armed' => ~actuators_granted(w.body["drone"])
    <2>1. w.body["drone"] = y
      BY <1>2, <1>6, <1>11
    <2>2. DisarmedMeansDead
      BY DEF InvariantPlants
    <2> QED BY <1>1, <1>4, <2>1, <2>2 DEF DisarmedMeansDead, b
  <1>15. Now(w)
    BY <1>11 DEF Now
  <1> QED BY <1>1, <1>2, <1>10, <1>12, <1>13, <1>14, <1>15, Kept

-----------------------------------------------------------------------------
(* Velocities given: staged, flushed, and kept or dropped by a step.       *)

\* From w to x every body has the authority it had, and only those in given
\* were given a velocity.
Steered(C, w, x, given) ==
    /\ x \in Worlds(C)
    /\ \A i \in C : /\ actuators_granted(x.body[i]) <=> actuators_granted(w.body[i])
                    /\ Velocity(x, i) => Velocity(w, i) \/ i \in given

LEMMA FlushedIs ==
    ASSUME NEW id \in Id, NEW b \in Sane(id), NEW s \in Setpoint
    PROVE  LET y == Flushed(b, s) IN
           /\ y \in Sane(id) /\ (actuators_granted(y) <=> actuators_granted(b))
           /\ y.command \in {b.command, s}
  <1> DEFINE y == Flushed(b, s)
  <1>1. b = [id |-> id, safety |-> b.safety, command |-> b.command]
    BY SaneIs
  <1>2. CASE s = "none"
    <2>1. y = b
      BY <1>2 DEF Flushed
    <2> QED BY <2>1
  <1>3. CASE s # "none"
    <2>1. y = [b EXCEPT !.command = s]
      BY <1>3 DEF Flushed
    <2> HIDE DEF y
    <2>2. y.id = b.id /\ y.safety = b.safety /\ y.command = s /\ y \in Sane(id)
      BY <1>1, <2>1 DEF Sane
    <2>3. actuators_granted(y) <=> actuators_granted(b)
      BY <2>2, SameAuthority
    <2> QED BY <2>2, <2>3 DEF y
  <1> QED BY <1>2, <1>3

LEMMA SteppedIs ==
    ASSUME NEW id \in Id, NEW b \in Sane(id), NEW y, y \in {b, [b EXCEPT !.command = "none"]}
    PROVE  /\ y \in Sane(id) /\ (actuators_granted(y) <=> actuators_granted(b))
           /\ y.command \in {b.command, "none"}
  <1>1. b = [id |-> id, safety |-> b.safety, command |-> b.command]
    BY SaneIs
  <1>2. CASE y = b
    BY <1>2
  <1>3. CASE y = [b EXCEPT !.command = "none"]
    <2>1. y.id = b.id /\ y.safety = b.safety /\ y.command = "none" /\ y \in Sane(id)
      BY <1>1, <1>3 DEF Sane, Setpoint
    <2>2. actuators_granted(y) <=> actuators_granted(b)
      BY <2>1, SameAuthority
    <2> QED BY <2>1, <2>2
  <1> QED BY <1>2, <1>3

LEMMA SteeredTwice ==
    ASSUME NEW C, NEW w, NEW x, NEW y, NEW given, Steered(C, w, x, given), Steered(C, x, y, given)
    PROVE  Steered(C, w, y, given)
  BY DEF Steered

\* What is staged is flushed onto a body.
LEMMA FlushSteers ==
    ASSUME NEW C, C \subseteq Id, NEW w \in Worlds(C), NEW id \in C, NEW given
    PROVE  LET x == flush(w, id) IN
           Steered(C, w, x, given) /\ x.error = w.error /\ x.setpoint = w.setpoint
  <1> DEFINE y == Flushed(w.body[id], w.setpoint[id])
             x == flush(w, id)
  <1>1. /\ w.body = [i \in C |-> w.body[i]] /\ w.setpoint = [i \in C |-> w.setpoint[i]]
        /\ w = [body |-> w.body, setpoint |-> w.setpoint, error |-> w.error]
        /\ \A i \in C : w.body[i] \in Sane(i) /\ w.setpoint[i] \in Setpoint
        /\ w.error \in {"none", "Protocol", "Rejected"}
    BY WorldsAre
  <1>2. /\ y \in Sane(id) /\ (actuators_granted(y) <=> actuators_granted(w.body[id]))
        /\ y.command \in {w.body[id].command, w.setpoint[id]}
    BY <1>1, FlushedIs
  <1>3. x = [w EXCEPT !.body = [w.body EXCEPT ![id] = y]]
    BY DEF flush
  <1> HIDE DEF y, x
  <1> DEFINE B == [w.body EXCEPT ![id] = y]
  <1>4. B = [i \in C |-> IF i = id THEN y ELSE w.body[i]]
    BY <1>1
  <1>5. x = [w EXCEPT !.body = B]
    BY <1>3
  <1>6. B = [i \in C |-> B[i]] /\ \A i \in C : B[i] = IF i = id THEN y ELSE w.body[i]
    BY <1>4
  <1> HIDE DEF B
  <1>7. x = [body |-> B, setpoint |-> w.setpoint, error |-> w.error]
    BY <1>1, <1>5
  <1>8. x.body = B /\ x.setpoint = w.setpoint /\ x.error = w.error
    BY <1>7
  <1>9. \A i \in C : B[i] \in Sane(i)
    BY <1>1, <1>2, <1>6
  <1>10. x \in Worlds(C)
    BY <1>1, <1>6, <1>7, <1>9, WorldsMade
  <1>11. ASSUME NEW i \in C
         PROVE  /\ actuators_granted(x.body[i]) <=> actuators_granted(w.body[i])
                /\ Velocity(x, i) => Velocity(w, i) \/ i \in given
    BY <1>2, <1>6, <1>8 DEF Velocity
  <1> QED BY <1>8, <1>10, <1>11 DEF Steered, x

\* The world steps.
LEMMA StepSteers ==
    ASSUME NEW C, C \subseteq Id, NEW w \in Worlds(C), NEW cut, NEW given
    PROVE  LET x == [w EXCEPT !.body = [id \in C |-> Stepped(w.body[id], id \in cut)]] IN
           Steered(C, w, x, given)
  <1> DEFINE B == [id \in C |-> Stepped(w.body[id], id \in cut)]
             x == [w EXCEPT !.body = B]
  <1>1. /\ w.setpoint = [i \in C |-> w.setpoint[i]]
        /\ w = [body |-> w.body, setpoint |-> w.setpoint, error |-> w.error]
        /\ \A i \in C : w.body[i] \in Sane(i) /\ w.setpoint[i] \in Setpoint
        /\ w.error \in {"none", "Protocol", "Rejected"}
    BY WorldsAre
  <1>2. ASSUME NEW i \in C
        PROVE  /\ B[i] \in Sane(i) /\ (actuators_granted(B[i]) <=> actuators_granted(w.body[i]))
               /\ B[i].command \in {w.body[i].command, "none"}
    <2>1. B[i] = Stepped(w.body[i], i \in cut)
      OBVIOUS
    <2>2. B[i] \in {w.body[i], [w.body[i] EXCEPT !.command = "none"]}
      BY <2>1 DEF Stepped
    <2> HIDE DEF B
    <2> QED BY <1>1, <2>2, SteppedIs
  <1>3. B = [i \in C |-> B[i]]
    OBVIOUS
  <1> HIDE DEF B
  <1>4. x = [body |-> B, setpoint |-> w.setpoint, error |-> w.error]
    BY <1>1
  <1> HIDE DEF x
  <1>5. x.body = B /\ x.setpoint = w.setpoint
    BY <1>4
  <1>6. x \in Worlds(C)
    BY <1>1, <1>2, <1>3, <1>4, WorldsMade
  <1>7. ASSUME NEW i \in C
        PROVE  /\ actuators_granted(x.body[i]) <=> actuators_granted(w.body[i])
               /\ Velocity(x, i) => Velocity(w, i) \/ i \in given
    BY <1>2, <1>5, <1>7 DEF Velocity
  <1>8. Steered(C, w, x, given)
    BY <1>6, <1>7 DEF Steered
  <1> QED BY <1>8 DEF x, B

LEMMA SteeredKept ==
    ASSUME InvariantPlants, NEW w, NEW given, Steered(Present, Here, w, given), Now(w),
           (told \cup given) \cap Present \subseteq told', armed' = armed, kind' = kind
    PROVE  InvariantPlants'
  <1> DEFINE C == Present
  <1>1. w \in Worlds(C)
    BY DEF Steered
  <1>2. C \subseteq Id /\ "drone" \in C /\ Abreast(C, Here) /\ armed \in BOOLEAN
        /\ DisarmedMeansDead /\ Here.body = body
    BY HereIs DEF InvariantPlants
  <1>3. \A i \in C : actuators_granted(w.body[i]) <=> actuators_granted(Here.body[i])
    BY DEF Steered
  <1>4. Abreast(C, w)
    BY <1>2, <1>3 DEF Abreast
  <1>5. ASSUME NEW i \in Present, Velocity(w, i) PROVE i \in told'
    <2>1. Velocity(Here, i) \/ i \in given
      BY <1>5 DEF Steered
    <2> QED BY <2>1 DEF InvariantPlants
  <1>6. WorldPlant /\ ~armed' => ~actuators_granted(w.body["drone"])
    BY <1>2, <1>3 DEF DisarmedMeansDead
  <1> QED BY <1>1, <1>2, <1>4, <1>5, <1>6, Kept

\* A step, or none, after what gave the bodies in given a velocity.
LEMMA SteppingKept ==
    ASSUME InvariantPlants, NEW w, NEW given, Steered(Present, Here, w, given), Stepping(w),
           (told \cup given) \cap Present \subseteq told', armed' = armed, kind' = kind
    PROVE  InvariantPlants'
  <1>1. CASE Now(w)
    BY <1>1, SteeredKept
  <1>2. ASSUME NEW cut,
               Now([w EXCEPT !.body = [id \in Present |-> Stepped(w.body[id], id \in cut)]])
        PROVE  InvariantPlants'
    <2> DEFINE x == [w EXCEPT !.body = [id \in Present |-> Stepped(w.body[id], id \in cut)]]
    <2>1. w \in Worlds(Present) /\ Present \subseteq Id
      BY DEF Steered, InvariantPlants
    <2>2. Steered(Present, w, x, given)
      BY <2>1, StepSteers
    <2>3. Now(x)
      BY <1>2
    <2> HIDE DEF x
    <2>4. Steered(Present, Here, x, given)
      BY <2>2, SteeredTwice
    <2> QED BY <2>3, <2>4, SteeredKept
  <1> QED BY <1>1, <1>2 DEF Stepping

LEMMA ThenSteered ==
    ASSUME InvariantPlants, NEW w, NEW given, Steered(Present, Here, w, given), Then(w, given),
           armed' = armed, kind' = kind
    PROVE  InvariantPlants'
  <1>1. Now(w)
    BY DEF Then
  <1>2. told' = {id \in told \cup given : actuators_granted(body[id])
                                            => actuators_granted(w.body[id])}
    BY DEF Then
  <1>3. \A id \in Present : actuators_granted(body[id]) <=> actuators_granted(w.body[id])
    BY HereIs DEF Steered
  <1>4. (told \cup given) \cap Present \subseteq told'
    BY <1>2, <1>3
  <1> QED BY <1>1, <1>4, SteeredKept

\* A walk of steady events, which may stage a velocity.
LEMMA SteadySteers ==
    ASSUME NEW C, C \subseteq Id, NEW w \in Worlds(C), NEW id \in C, NEW walk, NEW given,
           walk.stages \in Setpoint, walk.posts \in Seq(Calm(id) \cap Steady),
           NEW x, x = Walked(w, [id |-> id, walk |-> walk]),
           x.error = "none" /\ walk.stages = "velocity" => Velocity(w, id) \/ id \in given
    PROVE  Steered(C, w, x, given)
  <1>1. /\ x \in Worlds(C)
        /\ \A i \in C : /\ actuators_granted(x.body[i]) <=> actuators_granted(w.body[i])
                        /\ x.body[i].command = "velocity" => w.body[i].command = "velocity"
        /\ \A i \in C : x.setpoint[i] = IF i = id /\ x.error = "none" THEN walk.stages
                                                                      ELSE w.setpoint[i]
    BY SteadyLeg
  <1>2. ASSUME NEW i \in C, Velocity(x, i) PROVE Velocity(w, i) \/ i \in given
    BY <1>1, <1>2 DEF Velocity
  <1> QED BY <1>1, <1>2 DEF Steered

LEMMA SteadyPosts ==
    /\ <<"HeartbeatFresh", "MissionCommand">> \in Seq(Calm("drone") \cap Steady)
    /\ << >> \in Seq(Calm("drone") \cap Steady)
    /\ <<"DriveCommand">> \in Seq(Calm("rover") \cap Steady)
    /\ \A id \in {"skiff", "surveyor"} : <<"ThrustCommand">> \in Seq(Calm(id) \cap Steady)
  <1>1. "HeartbeatFresh" \in Calm("drone") \cap Steady
        /\ "MissionCommand" \in Calm("drone") \cap Steady
    BY Domains DEF Calm, Steady
  <1>2. "DriveCommand" \in Calm("rover") \cap Steady
    BY Domains DEF Calm, Steady, Land!GroundEvent
  <1>3. \A id \in {"skiff", "surveyor"} : "ThrustCommand" \in Calm(id) \cap Steady
    BY Domains DEF Calm, Steady, Sea!MarineEvent
  <1>4. ASSUME NEW T, NEW a \in T PROVE <<a>> \in Seq(T)
    OBVIOUS
  <1>5. ASSUME NEW T, NEW a \in T, NEW b \in T PROVE <<a, b>> \in Seq(T) /\ << >> \in Seq(T)
    OBVIOUS
  <1> DEFINE D == Calm("drone") \cap Steady
             R == Calm("rover") \cap Steady
             S(id) == Calm(id) \cap Steady
  <1>6. "HeartbeatFresh" \in D /\ "MissionCommand" \in D /\ "DriveCommand" \in R
        /\ \A id \in {"skiff", "surveyor"} : "ThrustCommand" \in S(id)
    BY <1>1, <1>2, <1>3
  <1> HIDE DEF D, R, S
  <1>7. <<"HeartbeatFresh", "MissionCommand">> \in Seq(D) /\ << >> \in Seq(D)
    BY <1>5, <1>6
  <1>8. <<"DriveCommand">> \in Seq(R) /\ \A id \in {"skiff", "surveyor"} : <<"ThrustCommand">> \in Seq(S(id))
    BY <1>4, <1>6
  <1> QED BY <1>7, <1>8 DEF D, R, S

\* A command given to a body, whatever it stages.
LEMMA CommandIs ==
    ASSUME NEW id \in Id, NEW b \in Sane(id)
    PROVE  /\ Command(b).posts \in Seq(Calm(id) \cap Steady) /\ Command(b).stages = "velocity"
           /\ \A from, sp : LET k == [Command(b) EXCEPT !.from = from, !.stages = sp] IN
                k.posts = Command(b).posts /\ k.stages = sp
  <1>0. b.id = id
    BY SaneIs
  <1> DEFINE p == CASE Domain(b.id) = "aerial" -> <<"HeartbeatFresh", "MissionCommand">>
                    [] Domain(b.id) = "ground" -> <<"DriveCommand">>
                    [] Domain(b.id) = "marine" -> <<"ThrustCommand">>
  <1>1. Command(b) = [from |-> {Kind(b)}, live |-> FALSE, posts |-> p, stages |-> "velocity"]
    BY DEF Command, Walk
  <1>2. p \in Seq(Calm(id) \cap Steady)
    <2>1. CASE id = "drone"
      BY <1>0, <2>1, Domains, SteadyPosts
    <2>2. CASE id = "rover"
      BY <1>0, <2>2, Domains, SteadyPosts
    <2>3. CASE id \in {"skiff", "surveyor"}
      BY <1>0, <2>3, Domains, SteadyPosts
    <2> QED BY <2>1, <2>2, <2>3, Domains
  <1> DEFINE k == Command(b)
             n == Kind(b)
  <1> HIDE DEF p, n
  <1>3. k = [from |-> {n}, live |-> FALSE, posts |-> p, stages |-> "velocity"]
    BY <1>1 DEF n
  <1> HIDE DEF k
  <1>4. k.posts = p /\ k.stages = "velocity"
    BY <1>3
  <1>5. ASSUME NEW from, NEW sp
        PROVE  LET j == [k EXCEPT !.from = from, !.stages = sp] IN
               j.posts = p /\ j.stages = sp
    BY <1>3
  <1> QED BY <1>2, <1>4, <1>5 DEF k

-----------------------------------------------------------------------------
(* WorldPlant.                                                             *)

LEMMA SetNed ==
    ASSUME InvariantPlants, NEW sp \in {"velocity", "hold"}, set_ned(sp)
    PROVE  InvariantPlants'
  <1> DEFINE b == body["drone"]
             k == [Command(b) EXCEPT !.from = OffboardControl, !.stages = sp]
             w == Drone(k)
             given == IF w.error = "none" /\ sp = "velocity" THEN {"drone"} ELSE {}
  <1>1. Then(w, given) /\ kind' = kind /\ armed' = armed
    BY DEF set_ned
  <1>2. Present \subseteq Id /\ "drone" \in Present /\ Here \in Worlds(Present)
    BY DEF InvariantPlants
  <1>3. b \in Sane("drone")
    BY <1>2, HereIs
  <1>4. k.posts \in Seq(Calm("drone") \cap Steady) /\ k.stages = sp
    <2> HIDE DEF b
    <2>1. "drone" \in Id
      BY Domains
    <2> QED BY <1>3, <2>1, CommandIs
  <1> HIDE DEF k, b
  <1>5. w = Walked(Here, [id |-> "drone", walk |-> k])
    BY HereIs, FollowOne DEF Drone
  <1> HIDE DEF w
  <1>6. /\ k.stages \in Setpoint
        /\ w.error = "none" /\ k.stages = "velocity" => "drone" \in given
    BY <1>4 DEF Setpoint
  <1> HIDE DEF given
  <1>7. Steered(Present, Here, w, given)
    BY <1>2, <1>4, <1>5, <1>6, SteadySteers
  <1> QED BY <1>1, <1>7, ThenSteered

LEMMA Arm ==
    ASSUME InvariantPlants, arm
    PROVE  InvariantPlants'
  <1> DEFINE b == body["drone"]
             w == Drone(attach_offboard)
             a == Attach(b, attach_offboard)
  <1>1. Then(w, {}) /\ kind' = kind /\ armed' = (armed \/ w.error = "none")
    BY DEF arm
  <1>2. attach_offboard \in TameOf("drone") \cup GrantOf("drone")
    BY Domains DEF GrantOf
  <1>3. /\ Eased(Present, Here, w) /\ Abreast(Present, w)
        /\ w.error = a.error /\ w.body["drone"] = a.body
    BY <1>2, DroneWalk
  <1>4. "drone" \in Present /\ armed \in BOOLEAN /\ DisarmedMeansDead
    BY DEF InvariantPlants
  <1>5. b \in Sane("drone")
    BY <1>4, HereIs
  <1> HIDE DEF b, w
  <1>6. a.error # "none" => a.body = b
    BY <1>5, AttachOffboard
  <1> HIDE DEF a
  <1>7. WorldPlant /\ ~armed' => ~actuators_granted(w.body["drone"])
    BY <1>1, <1>3, <1>4, <1>6 DEF DisarmedMeansDead, b
  <1>8. armed' \in BOOLEAN
    BY <1>1
  <1> QED BY <1>1, <1>3, <1>7, <1>8, EasedKept

\* A walk of one event is out of protocol only for a body it does not bind.
LEMMA ProtocolIs ==
    ASSUME NEW b, NEW walk, NEW e, walk.posts = <<e>>, Attach(b, walk).error = "Protocol"
    PROVE  Kind(b) \notin walk.from
  <1> SUFFICES ASSUME Kind(b) \in walk.from PROVE FALSE
    OBVIOUS
  <1> DEFINE p == Posted(b, walk.posts)
             a == Attach(b, walk)
  <1>1. p = Given(Fresh(b), e)
    BY PostedOne
  <1>2. p = Fresh(Post(b, e)) \/ p = [Fresh(b) EXCEPT !.error = "Rejected"]
    <2>1. Fresh(b).error = "none" /\ Fresh(b).body = b
      BY DEF Fresh
    <2> QED BY <1>1, <2>1, GivenTaken, GivenRejected
  <1> HIDE DEF p
  <1>3. p.error \in {"none", "Rejected"}
    BY <1>2 DEF Fresh
  <1>4. \/ a = [body |-> b, error |-> "Rejected"]
        \/ a = IF p.error = "none" THEN [p EXCEPT !.body = Settled(@, walk)] ELSE p
    BY DEF Attach, p
  <1>5. \E x, y : p = [body |-> x, error |-> y]
    <2>1. Fresh(Post(b, e)) = [body |-> Post(b, e), error |-> "none"]
          /\ [Fresh(b) EXCEPT !.error = "Rejected"] = [body |-> b, error |-> "Rejected"]
      BY DEF Fresh
    <2> QED BY <1>2, <2>1
  <1> HIDE DEF a
  <1>6. a.error # "Protocol"
    BY <1>3, <1>4, <1>5
  <1> QED BY <1>6 DEF a

\* What cannot be disarmed is dead, and stays so through a recovery.
LEMMA DisarmOrRecover ==
    ASSUME InvariantPlants, disarm_or_recover
    PROVE  InvariantPlants'
  <1> DEFINE b == body["drone"]
             w == Drone(attach_disarm)
             a == Attach(b, attach_disarm)
             k == attach_recover_ready(b)
             u == Drone(k)
             v == IF w.error = "Protocol" THEN u ELSE w
  <1>1. /\ Then(v, {}) /\ kind' = kind
        /\ armed' = (armed /\ v.error \notin {"none", "Protocol"})
    BY DEF disarm_or_recover
  <1>2. "drone" \in Present /\ armed \in BOOLEAN /\ DisarmedMeansDead
    BY DEF InvariantPlants
  <1>3. b \in Sane("drone") /\ "drone" \in Id
    BY <1>2, HereIs, Domains
  <1>4. attach_disarm \in TameOf("drone") /\ k \in TameOf("drone")
    BY <1>3, TameDrone
  <1>5. /\ Eased(Present, Here, w) /\ Abreast(Present, w)
        /\ w.error = a.error /\ w.body["drone"] = a.body
    BY <1>4, DroneWalk
  <1>6. /\ Eased(Present, Here, u) /\ Abreast(Present, u)
        /\ u.body["drone"] = Attach(b, k).body
    BY <1>4, DroneWalk
  <1>7. actuators_granted(b) => b = body["drone"] /\ (WorldPlant => armed)
    BY <1>2 DEF DisarmedMeansDead
  <1> HIDE DEF w, u, k, b
  <1>8. attach_disarm.posts = <<"Disarm">> /\ attach_disarm.stages = "none"
        /\ attach_disarm.from = CanTripFailsafe
    BY DEF attach_disarm, Walk
  <1>9. Left("drone", b, attach_disarm, a) /\ EndsBy(b, a)
    <2>1. "Disarm" \in Calm("drone") /\ "Disarm" \in Ending
      BY Domains DEF Calm, Ending
    <2> QED BY <1>3, <1>8, <2>1, EndingWalk
  <1>10. CASE w.error = "Protocol"
    <2>1. Kind(b) \notin CanTripFailsafe
      BY <1>5, <1>8, <1>10, ProtocolIs
    <2>2. ~actuators_granted(b)
      BY <1>3, <2>1, LiveKinds DEF CanTripFailsafe
    <2>3. ~actuators_granted(u.body["drone"])
      BY <1>3, <1>4, <1>6, <2>2, TameWalk
    <2>4. v = u
      BY <1>10
    <2> HIDE DEF v
    <2> QED BY <1>1, <1>2, <1>6, <2>3, <2>4, EasedKept
  <1>11. CASE w.error # "Protocol"
    <2>1. v = w
      BY <1>11
    <2> HIDE DEF v
    <2>2. WorldPlant /\ ~armed' => ~actuators_granted(w.body["drone"])
      <3>1. a.error # "Protocol"
        BY <1>5, <1>11
      <3>2. CASE a.error = "none"
        BY <1>5, <1>9, <3>2 DEF EndsBy
      <3>3. CASE a.error # "none"
        <4>1. a.body = b
          BY <1>9, <3>3 DEF EndsBy
        <4>2. v.error = a.error
          BY <1>5, <2>1
        <4> HIDE DEF a
        <4> QED BY <1>1, <1>2, <1>5, <1>7, <3>1, <3>3, <4>1, <4>2
      <3> QED BY <3>2, <3>3
    <2> QED BY <1>1, <1>2, <1>5, <2>1, <2>2, EasedKept
  <1> QED BY <1>10, <1>11

LEMMA FlightTermination ==
    ASSUME InvariantPlants, flight_termination
    PROVE  InvariantPlants'
  <1> DEFINE b == body["drone"]
             w == Drone(attach_failsafe)
             a == Attach(b, attach_failsafe)
  <1>1. Then(w, {}) /\ kind' = kind /\ armed' = armed
    BY DEF flight_termination
  <1>2. "drone" \in Present /\ armed \in BOOLEAN /\ DisarmedMeansDead
    BY DEF InvariantPlants
  <1>3. b \in Sane("drone") /\ "drone" \in Id
    BY <1>2, HereIs, Domains
  <1>4. attach_failsafe \in TameOf("drone")
    BY TameDrone
  <1>5. /\ Eased(Present, Here, w) /\ Abreast(Present, w)
        /\ w.error = a.error /\ w.body["drone"] = a.body
    BY <1>4, DroneWalk
  <1>6. actuators_granted(b) => (WorldPlant => armed)
    BY <1>2 DEF DisarmedMeansDead
  <1> HIDE DEF w, b
  <1>7. actuators_granted(a.body) => actuators_granted(b)
    BY <1>3, <1>4, TameWalk
  <1> QED BY <1>1, <1>2, <1>5, <1>6, <1>7, EasedKept

\* The flags alone.
LEMMA SetMode ==
    ASSUME InvariantPlants, UNCHANGED <<kind, body, setpoint, armed, told>>
    PROVE  InvariantPlants'
  BY DEF InvariantPlants, Present, Here, DisarmedMeansDead, WorldPlant

LEMMA Tick ==
    ASSUME InvariantPlants, tick
    PROVE  InvariantPlants'
  <1> DEFINE w == flush(Here, "drone")
  <1>1. Stepping(w) /\ kind' = kind /\ armed' = armed /\ told' = told
    BY DEF tick
  <1>2. Present \subseteq Id /\ "drone" \in Present /\ Here \in Worlds(Present)
    BY DEF InvariantPlants
  <1>3. Steered(Present, Here, w, {})
    BY <1>2, FlushSteers
  <1> HIDE DEF w
  <1> QED BY <1>1, <1>3, SteppingKept

-----------------------------------------------------------------------------
(* The calls of a fleet.                                                   *)

LEMMA ApplyOffboard ==
    ASSUME InvariantPlants, NEW sp \in {"none", "velocity", "hold"}, apply_offboard(sp)
    PROVE  InvariantPlants'
  <1> DEFINE b == body["drone"]
             k == IF sp = "none" THEN Walk(OffboardControl, FALSE, <<>>, setpoint["drone"])
                  ELSE [Command(b) EXCEPT !.from = OffboardControl, !.stages = sp]
             w == Drone(k)
             x == IF w.error = "none" THEN flush(w, "drone") ELSE w
             given == IF w.error = "none" /\ sp = "velocity" THEN {"drone"} ELSE {}
  <1>1. Then(x, given) /\ kind' = kind /\ armed' = armed
    BY DEF apply_offboard
  <1>2. Present \subseteq Id /\ "drone" \in Present /\ Here \in Worlds(Present)
    BY DEF InvariantPlants
  <1>3. b \in Sane("drone") /\ setpoint["drone"] \in Setpoint
    BY <1>2, HereIs
  <1>4. /\ k.posts \in Seq(Calm("drone") \cap Steady)
        /\ k.stages = IF sp = "none" THEN setpoint["drone"] ELSE sp
    <2> HIDE DEF b
    <2>1. "drone" \in Id
      BY Domains
    <2>2. CASE sp = "none"
      <3>1. k.posts = << >> /\ k.stages = setpoint["drone"]
        BY <2>2 DEF Walk
      <3> HIDE DEF k
      <3> QED BY <2>2, <3>1, SteadyPosts
    <2>3. CASE sp # "none"
      <3> DEFINE j == [Command(b) EXCEPT !.from = OffboardControl, !.stages = sp]
      <3>1. k = j
        BY <2>3
      <3>2. j.posts \in Seq(Calm("drone") \cap Steady) /\ j.stages = sp
        BY <1>3, <2>1, CommandIs
      <3> HIDE DEF j, k
      <3> QED BY <2>3, <3>1, <3>2
    <2> QED BY <2>2, <2>3
  <1> HIDE DEF k, b
  <1>5. w = Walked(Here, [id |-> "drone", walk |-> k])
    BY HereIs, FollowOne DEF Drone
  <1>6. setpoint["drone"] = "velocity" => Velocity(Here, "drone")
    BY HereIs DEF Velocity
  <1> HIDE DEF w
  <1>7. /\ k.stages \in Setpoint
        /\ w.error = "none" /\ k.stages = "velocity"
             => Velocity(Here, "drone") \/ "drone" \in given
    BY <1>3, <1>4, <1>6 DEF Setpoint
  <1> HIDE DEF given
  <1>8. Steered(Present, Here, w, given)
    BY <1>2, <1>4, <1>5, <1>7, SteadySteers
  <1>9. Steered(Present, Here, x, given)
    <2>1. CASE w.error = "none"
      <3>1. w \in Worlds(Present)
        BY <1>8 DEF Steered
      <3>2. Steered(Present, w, flush(w, "drone"), given)
        BY <1>2, <3>1, FlushSteers
      <3> QED BY <1>8, <2>1, <3>2, SteeredTwice
    <2>2. CASE w.error # "none"
      BY <1>8, <2>2
    <2> QED BY <2>1, <2>2
  <1> HIDE DEF x
  <1> QED BY <1>1, <1>9, ThenSteered

\* The legs of a call over the drone and the rover.
LEMMA LegTyped ==
    ASSUME InvariantPlants
    PROVE  LET T == MildLegs(Present \cap {"drone", "rover"}) IN
           /\ \A walk \in TameOf("drone") \cup GrantOf("drone") : Leg("drone", walk) \in Seq(T)
           /\ \A walk \in TameOf("rover") \cup GrantOf("rover") : If("rover", walk) \in Seq(T)
  <1> DEFINE T == MildLegs(Present \cap {"drone", "rover"})
  <1>1. "drone" \in Present
    BY DEF InvariantPlants
  <1>2. ASSUME NEW id \in {"drone", "rover"}, id \in Present,
               NEW walk \in TameOf(id) \cup GrantOf(id)
        PROVE  [id |-> id, walk |-> walk] \in T
    BY <1>2 DEF MildLegs
  <1> HIDE DEF T
  <1>3. ASSUME NEW walk \in TameOf("drone") \cup GrantOf("drone")
        PROVE  Leg("drone", walk) \in Seq(T)
    <2>1. [id |-> "drone", walk |-> walk] \in T
      BY <1>1, <1>2
    <2> QED BY <2>1 DEF Leg
  <1>4. ASSUME NEW walk \in TameOf("rover") \cup GrantOf("rover")
        PROVE  If("rover", walk) \in Seq(T)
    <2>1. "rover" \in Present => [id |-> "rover", walk |-> walk] \in T
      BY <1>2
    <2>2. LegIn(Present, "rover", walk) \in Seq(T)
      BY <2>1, OverIn
    <2> QED BY <2>2, HullsAre
  <1> QED BY <1>3, <1>4 DEF T

LEMMA RoverWalks ==
    {attach_park, attach_estop, attach_reset, attach_drive} \subseteq TameOf("rover") \cup GrantOf("rover")
  BY Domains DEF TameOf, GrantOf

LEMMA DroneGrants == GrantOf("drone") = {attach_offboard, attach_takeoff}
  BY Domains DEF GrantOf

LEMMA HullCalls ==
    {attach_undock, attach_station, attach_resume, attach_dock, attach_marine_failsafe,
     attach_recover} \subseteq TameOf("skiff") \cup GrantOf("skiff")
  BY HullWalks

LEMMA GrantAll ==
    ASSUME InvariantPlants, grant_all
    PROVE  InvariantPlants'
  <1> DEFINE T == MildLegs(Present \cap {"drone", "rover"})
  <1>1. Fleet /\ Walks(Leg("drone", attach_takeoff) \o If("rover", attach_drive) \o hulls(attach_undock))
    BY DEF grant_all, grants
  <1>2. Leg("drone", attach_takeoff) \in Seq(T) /\ If("rover", attach_drive) \in Seq(T)
    BY LegTyped, DroneGrants, RoverWalks
  <1> HIDE DEF T
  <1>3. Leg("drone", attach_takeoff) \o If("rover", attach_drive) \in Seq(T)
    BY <1>2, Concat
  <1> QED BY <1>1, <1>3, FleetWalks, HullCalls DEF T

LEMMA TripSafety ==
    ASSUME InvariantPlants, trip_safety
    PROVE  InvariantPlants'
  <1> DEFINE T == MildLegs(Present \cap {"drone", "rover"})
  <1>1. Fleet /\ Walks(Leg("drone", attach_failsafe) \o If("rover", attach_estop)
                         \o hulls(attach_marine_failsafe))
    BY DEF trip_safety, trips
  <1>2. Leg("drone", attach_failsafe) \in Seq(T) /\ If("rover", attach_estop) \in Seq(T)
    BY LegTyped, TameDrone, RoverWalks
  <1> HIDE DEF T
  <1>3. Leg("drone", attach_failsafe) \o If("rover", attach_estop) \in Seq(T)
    BY <1>2, Concat
  <1> QED BY <1>1, <1>3, FleetWalks, HullCalls DEF T

LEMMA RecoverSafety ==
    ASSUME InvariantPlants, recover_safety
    PROVE  InvariantPlants'
  <1> DEFINE T == MildLegs(Present \cap {"drone", "rover"})
             k == attach_recover_ready(body["drone"])
  <1>1. Fleet /\ Walks(Leg("drone", k) \o If("rover", attach_reset) \o hulls(attach_recover))
    BY DEF recover_safety, recovers
  <1>2. k \in TameOf("drone")
    <2>1. body["drone"] \in Sane("drone")
      BY HereIs DEF InvariantPlants
    <2> QED BY <2>1, TameDrone
  <1> HIDE DEF k
  <1>3. Leg("drone", k) \in Seq(T) /\ If("rover", attach_reset) \in Seq(T)
    BY <1>2, LegTyped, RoverWalks
  <1> HIDE DEF T
  <1>4. Leg("drone", k) \o If("rover", attach_reset) \in Seq(T)
    BY <1>3, Concat
  <1> QED BY <1>1, <1>4, FleetWalks, HullCalls DEF T

LEMMA ReturnAll ==
    ASSUME InvariantPlants, return_all
    PROVE  InvariantPlants'
  <1> DEFINE T == MildLegs(Present \cap {"drone", "rover"})
             A == Leg("drone", attach_land) \o Leg("drone", attach_touchdown)
  <1>1. Fleet /\ Walks(A \o If("rover", attach_park) \o hulls(attach_dock))
    BY DEF return_all, returns
  <1>2. /\ Leg("drone", attach_land) \in Seq(T) /\ Leg("drone", attach_touchdown) \in Seq(T)
        /\ If("rover", attach_park) \in Seq(T)
    BY LegTyped, TameDrone, RoverWalks
  <1> HIDE DEF T
  <1>3. A \in Seq(T)
    BY <1>2, Concat
  <1> HIDE DEF A
  <1>4. A \o If("rover", attach_park) \in Seq(T)
    BY <1>2, <1>3, Concat
  <1> QED BY <1>1, <1>4, FleetWalks, HullCalls DEF T

\* A call over the hulls alone.
LEMMA HullsCall ==
    ASSUME InvariantPlants, Fleet, NEW walk \in TameOf("skiff") \cup GrantOf("skiff"),
           Walks(hulls(walk))
    PROVE  InvariantPlants'
  <1> DEFINE T == MildLegs(Present \cap {"drone", "rover"})
             H == MildLegs(Present \cap {"skiff", "surveyor"})
             h == hulls(walk)
  <1>1. h \in Seq(H)
    BY HullsIn, HullsAre
  <1> HIDE DEF H, h
  <1>2. << >> \o h = h
    BY <1>1
  <1>3. << >> \in Seq(T)
    OBVIOUS
  <1>4. Walks(<< >> \o hulls(walk))
    BY <1>2 DEF h
  <1> QED BY <1>3, <1>4, FleetWalks

LEMMA ParkAll ==
    ASSUME InvariantPlants, park_all
    PROVE  InvariantPlants'
  <1> DEFINE D == Present \cap {"drone", "rover"}
             w == Follow(Here, parks)
  <1>1. Fleet /\ Walks(parks)
    BY DEF park_all, Any
  <1>2. Then(w, {}) /\ kind' = kind /\ armed' = armed
    BY <1>1, WalksIs
  <1>3. parks \in Seq(MildLegs(D))
    BY LegTyped, RoverWalks DEF parks
  <1>4. Present \subseteq Id /\ Here \in Worlds(Present) /\ Abreast(Present, Here)
        /\ armed \in BOOLEAN /\ D \subseteq Present
    BY DEF InvariantPlants
  <1>5. Legs(Here, parks, w)
    BY <1>3, FollowLegs
  <1> HIDE DEF w
  <1>6. Eased(Present, Here, w) /\ \A i \in Present \ D : w.body[i] = Here.body[i]
    BY <1>3, <1>4, <1>5, EasedLegs
  <1>7. Abreast(Present, w)
    BY <1>4, <1>6 DEF Abreast
  <1>8. ~WorldPlant
    BY <1>1 DEF Fleet, WorldPlant
  <1> QED BY <1>2, <1>4, <1>6, <1>7, <1>8, EasedKept

-----------------------------------------------------------------------------
(* The nodes.                                                              *)

LEMMA GrantOffboard ==
    ASSUME InvariantPlants, grant_offboard
    PROVE  InvariantPlants'
  <1> DEFINE w == Drone(attach_takeoff)
  <1>1. PlantNode /\ Walks(Leg("drone", attach_takeoff))
    BY DEF grant_offboard, NodeWalks
  <1>2. Then(w, {}) /\ kind' = kind /\ armed' = armed
    BY <1>1, WalksIs DEF Drone
  <1>3. Eased(Present, Here, w) /\ Abreast(Present, w)
    BY DroneGrants, DroneWalk
  <1> HIDE DEF w
  <1>4. armed \in BOOLEAN
    BY DEF InvariantPlants
  <1>5. ~WorldPlant
    BY <1>1 DEF PlantNode, WorldPlant
  <1> QED BY <1>2, <1>3, <1>4, <1>5, EasedKept

\* The bodies whose velocity the turns of a node stage, and what they leave.
Turned(x) == {i \in latest \cap Present : x.setpoint[i] = "velocity"}
Turns(w, x) == Steered(Present, w, x, Turned(x)) /\ Turned(w) \subseteq Turned(x)

LEMMA TurnsTwice ==
    ASSUME NEW w, NEW x, NEW y, Turns(w, x), Turns(x, y)
    PROVE  Turns(w, y)
  BY DEF Turns, Steered

LEMMA TurnsNone ==
    ASSUME NEW w \in Worlds(Present), NEW x \in Worlds(Present),
           x.body = w.body, x.setpoint = w.setpoint
    PROVE  Turns(w, x)
  BY DEF Turns, Steered, Turned, Velocity

LEMMA TwistTurns ==
    ASSUME Present \subseteq Id, NEW w \in Worlds(Present), NEW id \in Id
    PROVE  apply_twist(w, id) \in Worlds(Present) /\ Turns(w, apply_twist(w, id))
  <1> DEFINE C == Present
             x == apply_twist(w, id)
  <1>1. /\ w.body = [i \in C |-> w.body[i]] /\ w.setpoint = [i \in C |-> w.setpoint[i]]
        /\ w = [body |-> w.body, setpoint |-> w.setpoint, error |-> w.error]
        /\ \A i \in C : w.body[i] \in Sane(i) /\ w.setpoint[i] \in Setpoint
    BY WorldsAre
  <1>2. CASE w.error # "none" \/ id \notin latest \cap Present
    <2>1. x = w
      BY <1>2 DEF apply_twist
    <2> HIDE DEF x
    <2> QED BY <2>1, TurnsNone DEF x
  <1>3. CASE w.error = "none" /\ id \in latest \cap Present /\ ~Granted(w.body[id])
    <2>1. x = [w EXCEPT !.error = "Rejected"]
      BY <1>3 DEF apply_twist
    <2> HIDE DEF x
    <2> DEFINE B == w.body
               S == w.setpoint
    <2>2. x = [body |-> B, setpoint |-> S, error |-> "Rejected"]
      BY <1>1, <2>1
    <2>3. B = [i \in C |-> B[i]] /\ S = [i \in C |-> S[i]]
          /\ \A i \in C : B[i] \in Sane(i) /\ S[i] \in Setpoint
      BY <1>1
    <2>4. x.body = w.body /\ x.setpoint = w.setpoint
      BY <2>2
    <2> HIDE DEF B, S
    <2>5. x \in Worlds(C)
      BY <2>2, <2>3, WorldsMade
    <2> QED BY <2>4, <2>5, TurnsNone DEF x
  <1>4. CASE w.error = "none" /\ id \in latest \cap Present /\ Granted(w.body[id])
    <2> DEFINE b == w.body[id]
               k == Command(b)
               v == Walked(w, [id |-> id, walk |-> k])
    <2>1. x = IF v.error = "none" THEN flush(v, id) ELSE v
      BY <1>4 DEF apply_twist
    <2>2. id \in C /\ b \in Sane(id)
      BY <1>1, <1>4
    <2> HIDE DEF b
    <2>3. k.posts \in Seq(Calm(id) \cap Steady) /\ k.stages = "velocity"
      BY <2>2, CommandIs
    <2> HIDE DEF k, x
    <2>4. /\ v \in Worlds(C)
          /\ \A i \in C : v.setpoint[i] = IF i = id /\ v.error = "none" THEN k.stages
                                                                        ELSE w.setpoint[i]
      BY <2>2, <2>3, SteadyLeg DEF Setpoint
    <2> DEFINE given == Turned(v)
    <2>5. v.error = "none" /\ k.stages = "velocity" => id \in given
      BY <1>4, <2>2, <2>4 DEF Turned
    <2>6. k.stages \in Setpoint
      BY <2>3 DEF Setpoint
    <2> DEFINE u == v
    <2>7. u = Walked(w, [id |-> id, walk |-> k]) /\ u = v
      OBVIOUS
    <2> HIDE DEF u, given
    <2>8. Steered(C, w, u, given)
      BY <2>2, <2>3, <2>5, <2>6, <2>7, SteadySteers
    <2>9. Turns(w, v)
      <3>1. Turned(w) \subseteq Turned(v)
        BY <2>3, <2>4 DEF Turned
      <3> QED BY <2>7, <2>8, <3>1 DEF Turns, given
    <2> HIDE DEF v
    <2>10. CASE v.error # "none"
      BY <2>1, <2>4, <2>9, <2>10 DEF x
    <2>11. CASE v.error = "none"
      <3>1. Steered(C, v, x, {}) /\ x.setpoint = v.setpoint
        BY <2>1, <2>2, <2>4, <2>11, FlushSteers
      <3>2. x \in Worlds(C) /\ Turns(v, x)
        BY <3>1 DEF Steered, Turns, Turned
      <3> QED BY <2>9, <3>2, TurnsTwice DEF x
    <2> QED BY <2>10, <2>11
  <1> QED BY <1>2, <1>3, <1>4

\* One turn applies the slots in their order.
LEMMA TwistsAre ==
    apply_twists = apply_twist(apply_twist(apply_twist(apply_twist(Here,
                     Slots[1]), Slots[2]), Slots[3]), Slots[4])
  <1> DEFINE N == Len(Slots)
             Out(R, i) == {apply_twist(w, Slots[i]) : w \in R}
             Fix(s) == s = [i \in 0..N |-> IF i = 0 THEN {Here} ELSE Out(s[i - 1], i)]
             w1 == apply_twist(Here, Slots[1])
             w2 == apply_twist(w1, Slots[2])
             w3 == apply_twist(w2, Slots[3])
             w4 == apply_twist(w3, Slots[4])
             first == Here
  <1>1. N = 4
    BY DEF Slots
  <1>2. Out({first}, 1) = {w1} /\ Out({w1}, 2) = {w2} /\ Out({w2}, 3) = {w3} /\ Out({w3}, 4) = {w4}
    OBVIOUS
  <1>3. apply_twists = CHOOSE w \in (CHOOSE s : Fix(s))[N] : TRUE
    BY DEF apply_twists
  <1>4. \A s : Fix(s) <=> s = [i \in 0..4 |-> IF i = 0 THEN {first} ELSE Out(s[i - 1], i)]
    BY <1>1
  <1> HIDE DEF w1, w2, w3, w4, Out, first, N
  <1>5. \E s : Fix(s)
    <2> DEFINE s == [i \in 0..4 |-> CASE i = 0 -> {first} [] i = 1 -> {w1} [] i = 2 -> {w2}
                                      [] i = 3 -> {w3} [] i = 4 -> {w4}]
               F == [i \in 0..4 |-> IF i = 0 THEN {first} ELSE Out(s[i - 1], i)]
    <2>1. s[0] = {first} /\ s[1] = {w1} /\ s[2] = {w2} /\ s[3] = {w3} /\ s[4] = {w4}
      OBVIOUS
    <2>2. s = [i \in 0..4 |-> s[i]]
      OBVIOUS
    <2> HIDE DEF s
    <2>3. F[0] = {first} /\ F[1] = Out(s[0], 1) /\ F[2] = Out(s[1], 2) /\ F[3] = Out(s[2], 3)
          /\ F[4] = Out(s[3], 4)
      OBVIOUS
    <2>4. F = [i \in 0..4 |-> F[i]]
      OBVIOUS
    <2> HIDE DEF F
    <2>5. ASSUME NEW i \in 0..4 PROVE F[i] = s[i]
      <3>1. F[0] = s[0] /\ F[1] = s[1] /\ F[2] = s[2] /\ F[3] = s[3] /\ F[4] = s[4]
        BY <1>2, <2>1, <2>3
      <3>2. i = 0 \/ i = 1 \/ i = 2 \/ i = 3 \/ i = 4
        OBVIOUS
      <3> QED BY <3>1, <3>2
    <2>6. s = F
      BY <2>2, <2>4, <2>5
    <2> QED BY <1>4, <2>6 DEF F
  <1>6. ASSUME NEW s, Fix(s) PROVE s[N] = {w4}
    <2> DEFINE F == [i \in 0..4 |-> IF i = 0 THEN {first} ELSE Out(s[i - 1], i)]
    <2>1. s = F
      BY <1>4, <1>6
    <2>2. F[0] = {first} /\ F[1] = Out(s[0], 1) /\ F[2] = Out(s[1], 2) /\ F[3] = Out(s[2], 3)
          /\ F[4] = Out(s[3], 4)
      OBVIOUS
    <2> HIDE DEF F, Fix
    <2>3. s[4] = {w4}
      BY <1>2, <2>1, <2>2
    <2> QED BY <1>1, <2>3
  <1> HIDE DEF Fix
  <1>7. Fix(CHOOSE s : Fix(s))
    BY <1>5
  <1>8. (CHOOSE s : Fix(s))[N] = {w4}
    BY <1>6, <1>7
  <1>9. apply_twists = w4
    BY <1>3, <1>8
  <1> QED BY <1>9 DEF w1, w2, w3, w4

LEMMA SpinStep ==
    ASSUME InvariantPlants, spin_step
    PROVE  InvariantPlants'
  <1> DEFINE w1 == apply_twist(Here, Slots[1])
             w2 == apply_twist(w1, Slots[2])
             w3 == apply_twist(w2, Slots[3])
             w4 == apply_twist(w3, Slots[4])
  <1>1. w4 = apply_twists
    BY TwistsAre
  <1>2. \A i \in 1..4 : Slots[i] \in Id
    BY DEF Id
  <1>3. Present \subseteq Id /\ Here \in Worlds(Present)
    BY DEF InvariantPlants
  <1>4. /\ IF w4.error # "none" THEN Now(w4) ELSE Stepping(w4)
        /\ told' = told \cup Turned(w4)
        /\ kind' = kind /\ armed' = armed
    BY <1>1 DEF spin_step, Turned
  <1>5. w1 \in Worlds(Present) /\ Turns(Here, w1)
    BY <1>2, <1>3, TwistTurns
  <1> HIDE DEF w1
  <1>6. w2 \in Worlds(Present) /\ Turns(w1, w2)
    BY <1>2, <1>3, <1>5, TwistTurns
  <1> HIDE DEF w2
  <1>7. w3 \in Worlds(Present) /\ Turns(w2, w3)
    BY <1>2, <1>3, <1>6, TwistTurns
  <1> HIDE DEF w3
  <1>8. w4 \in Worlds(Present) /\ Turns(w3, w4)
    BY <1>2, <1>3, <1>7, TwistTurns
  <1> HIDE DEF w4
  <1>9. Turns(Here, w4)
    BY <1>5, <1>6, <1>7, <1>8, TurnsTwice
  <1> DEFINE given == Turned(w4)
  <1>10. Steered(Present, Here, w4, given)
    BY <1>9 DEF Turns
  <1>11. (told \cup given) \cap Present \subseteq told'
    BY <1>4
  <1> HIDE DEF given
  <1>12. CASE w4.error # "none"
    BY <1>4, <1>10, <1>11, <1>12, SteeredKept
  <1>13. CASE w4.error = "none"
    BY <1>4, <1>10, <1>11, <1>13, SteppingKept
  <1> QED BY <1>12, <1>13

-----------------------------------------------------------------------------
(* Every call keeps the invariant.                                         *)

LEMMA StepPlants ==
    ASSUME InvariantPlants, [Next]_vars
    PROVE  InvariantPlants'
  <1>0. CASE UNCHANGED vars
    BY <1>0, SetMode DEF vars
  <1>1. ASSUME NEW e \in Revokes, inject(e) PROVE InvariantPlants'
    BY <1>1, Inject
  <1>2. ASSUME NEW sp \in {"velocity", "hold"}, set_ned(sp) PROVE InvariantPlants'
    BY <1>2, SetNed
  <1>3. CASE arm
    BY <1>3, Arm
  <1>4. CASE disarm_or_recover
    BY <1>4, DisarmOrRecover
  <1>5. CASE do_set_mode
    BY <1>5, SetMode DEF do_set_mode
  <1>6. CASE nav_takeoff
    BY <1>6, DroneTame, TameDrone DEF nav_takeoff, DroneWalks
  <1>7. CASE nav_loiter
    BY <1>7, DroneTame, TameDrone DEF nav_loiter, DroneWalks
  <1>8. CASE nav_land
    BY <1>8, DroneTame, TameDrone DEF nav_land, DroneWalks
  <1>9. CASE flight_termination
    BY <1>9, FlightTermination
  <1>10. CASE tick
    BY <1>10, Tick
  <1>11. CASE grant_all
    BY <1>11, GrantAll
  <1>12. CASE trip_safety
    BY <1>12, TripSafety
  <1>13. CASE recover_safety
    BY <1>13, RecoverSafety
  <1>14. CASE return_all
    BY <1>14, ReturnAll
  <1>15. CASE station_all
    BY <1>15, HullsCall, HullCalls DEF station_all, Any
  <1>16. CASE resume_all
    BY <1>16, HullsCall, HullCalls DEF resume_all, Any
  <1>17. CASE dock_all
    BY <1>17, HullsCall, HullCalls DEF dock_all, Any, docks
  <1>18. CASE park_all
    BY <1>18, ParkAll
  <1>19. ASSUME NEW sp \in {"none", "velocity", "hold"}, apply_offboard(sp)
         PROVE  InvariantPlants'
    BY <1>19, ApplyOffboard
  <1>20. CASE grant_offboard
    BY <1>20, GrantOffboard
  <1>21. CASE trip_failsafe
    BY <1>21, DroneTame, TameDrone DEF trip_failsafe, NodeWalks
  <1>22. CASE recover_ready
    <2>1. body["drone"] \in Sane("drone")
      BY HereIs DEF InvariantPlants
    <2>2. attach_recover_ready(body["drone"]) \in TameOf("drone")
      BY <2>1, TameDrone
    <2> QED BY <1>22, <2>2, DroneTame DEF recover_ready, NodeWalks
  <1>23. CASE disarm
    BY <1>23, DroneTame, TameDrone DEF disarm, NodeWalks
  <1>24. CASE land
    BY <1>24, DroneTame, TameDrone DEF land, NodeWalks
  <1>25. CASE touchdown
    BY <1>25, DroneTame, TameDrone DEF touchdown, NodeWalks
  <1>26. CASE airborne
    BY <1>26, DroneTame, TameDrone DEF airborne
  <1>27. CASE hold
    BY <1>27, DroneTame, TameDrone DEF hold
  <1>28. ASSUME NEW id \in Id, receive(id) PROVE InvariantPlants'
    BY <1>28, SetMode DEF receive
  <1>29. CASE spin_step
    BY <1>29, SpinStep
  <1> QED BY <1>0, <1>1, <1>2, <1>3, <1>4, <1>5, <1>6, <1>7, <1>8, <1>9, <1>10, <1>11, <1>12,
             <1>13, <1>14, <1>15, <1>16, <1>17, <1>18, <1>19, <1>20, <1>21, <1>22, <1>23, <1>24,
             <1>25, <1>26, <1>27, <1>28, <1>29 DEF Next

\* Whatever is called, injected and received, every body of a plant is in a state
\* that its kernel can be in, a body has a velocity only from the plant, and the
\* second hull of a fleet is not live without the first.
THEOREM PlantsConsistent == Spec => []InvariantPlants
  <1>1. Init => InvariantPlants
    BY InitPlants
  <1>2. InvariantPlants /\ [Next]_vars => InvariantPlants'
    BY StepPlants
  <1> QED BY <1>1, <1>2, PTL DEF Spec

\* A plant whose heartbeat says disarmed has a drone that cannot fly, whatever
\* was posted to the drone without the plant: disarm_or_recover reports disarmed
\* only what it stopped, or what no walk could bind because it was dead.
THEOREM DisarmedIsDead == Spec => []DisarmedMeansDead
  <1>1. InvariantPlants => DisarmedMeansDead
    BY DEF InvariantPlants
  <1> QED BY <1>1, PlantsConsistent, PTL

\* A velocity, staged or commanded, dies with the call of the plant that takes
\* its body's authority.
THEOREM VelocityEnds == Spec => []VelocityDies
  <1>1. InvariantPlants => VelocityDies
    BY HereIs DEF InvariantPlants, VelocityDies, Velocity
  <1> QED BY <1>1, PlantsConsistent, PTL

-----------------------------------------------------------------------------
(* A fleet's calls stop it, those that break off half way included.        *)

\* A call starts with no error, where the call before left the bodies.
LEMMA Retry ==
    ASSUME NEW C, C \subseteq Id, NEW w \in Worlds(C)
    PROVE  LET x == [w EXCEPT !.error = "none"] IN
           x \in Worlds(C) /\ x.body = w.body /\ x.error = "none"
  <1> DEFINE B == w.body
             S == w.setpoint
             x == [w EXCEPT !.error = "none"]
  <1>1. /\ B = [i \in C |-> B[i]] /\ S = [i \in C |-> S[i]]
        /\ w = [body |-> B, setpoint |-> S, error |-> w.error]
        /\ \A i \in C : B[i] \in Sane(i) /\ S[i] \in Setpoint
    BY WorldsAre
  <1>2. x = [body |-> B, setpoint |-> S, error |-> "none"]
    BY <1>1
  <1> HIDE DEF x
  <1>3. x.body = B /\ x.error = "none"
    BY <1>2
  <1> HIDE DEF B, S
  <1>4. x \in Worlds(C)
    BY <1>1, <1>2, WorldsMade
  <1> QED BY <1>3, <1>4 DEF x, B

\* A stopping walk, first of the legs of a call, stops its body.
LEMMA StopLeg ==
    ASSUME NEW C, C \subseteq Id, NEW w \in Worlds(C), w.error = "none", NEW id \in C,
           NEW walk \in StopOf(id), NEW x, x = Walked(w, [id |-> id, walk |-> walk])
    PROVE  x \in Worlds(C) /\ ~actuators_granted(x.body[id])
  <1> DEFINE b == w.body[id]
             a == Attach(b, walk)
  <1>1. b \in Sane(id) /\ id \in Id
    BY WorldsAre
  <1> HIDE DEF b
  <1>2. Left(id, b, walk, a) /\ walk.stages = "none" /\ ~actuators_granted(a.body)
    BY <1>1, StopWalk
  <1> HIDE DEF a
  <1>3. x \in Worlds(C) /\ x.body[id] = a.body
    BY <1>2, WalkedIs DEF a, b, Setpoint
  <1> QED BY <1>2, <1>3

\* The trips stop the drone.
LEMMA TripsStop ==
    ASSUME InvariantPlants, NEW w, w = Follow(Here, trips)
    PROVE  /\ w \in Worlds(Present) /\ Abreast(Present, w)
           /\ ~actuators_granted(w.body["drone"])
  <1> DEFINE C == Present
             x == Here
             L == Leg("drone", attach_failsafe)
             R == If("rover", attach_estop)
             A == L \o R
             H == Hulls(C, attach_marine_failsafe)
             T == MildLegs(C \cap {"drone", "rover"})
  <1>1. C \subseteq Id /\ "drone" \in C /\ x \in Worlds(C) /\ Abreast(C, x) /\ x.error = "none"
    BY HereIs DEF InvariantPlants
  <1>2. L \in Seq(T) /\ R \in Seq(T)
    BY LegTyped, TameDrone, RoverWalks
  <1>3. trips = A \o H
    BY HullsAre DEF trips
  <1>4. R \in Seq(MildLegs(C \cap {"rover"}))
    <2> DEFINE U == MildLegs(C \cap {"rover"})
    <2>1. "rover" \in C => [id |-> "rover", walk |-> attach_estop] \in U
      BY RoverWalks DEF MildLegs
    <2> HIDE DEF U, C
    <2>2. LegIn(C, "rover", attach_estop) \in Seq(U)
      BY <2>1, OverIn
    <2> QED BY <2>2, HullsAre DEF U, C
  <1>5. L = <<[id |-> "drone", walk |-> attach_failsafe]>>
    BY DEF Leg
  <1>a. H \in Seq(MildLegs(C \cap {"skiff", "surveyor"}))
    BY HullsIn, HullCalls
  <1> HIDE DEF L, R, x, C, H
  <1>6. A \in Seq(T)
    <2> HIDE DEF T
    <2> QED BY <1>2, Concat
  <1>7. w = Follow(x, A \o H)
    BY <1>3 DEF x
  <1> HIDE DEF A
  <1>8. Eased(C, x, w) /\ Abreast(C, w)
        /\ \E m \in Worlds(C) : Legs(x, A, m) /\ Legs(m, H, w)
    BY <1>1, <1>6, <1>7, HullCalls, LegsEnd DEF H
  <1>9. PICK m \in Worlds(C) : Legs(x, A, m) /\ Legs(m, H, w)
    BY <1>8
  <1>10. PICK n : Legs(x, L, n) /\ Legs(n, R, m)
    <2> HIDE DEF T
    <2> QED BY <1>2, <1>9, LegsSplit DEF A
  <1>11. n = Legged(x, [id |-> "drone", walk |-> attach_failsafe])
    BY <1>5, <1>10, LegsOne
  <1>12. n = Walked(x, [id |-> "drone", walk |-> attach_failsafe])
    BY <1>1, <1>11 DEF Legged
  <1>13. attach_failsafe \in StopOf("drone")
    BY Domains DEF StopOf
  <1>14. n \in Worlds(C) /\ ~actuators_granted(n.body["drone"])
    BY <1>1, <1>12, <1>13, StopLeg
  <1>15. \A i \in C \ (C \cap {"rover"}) : m.body[i] = n.body[i]
    BY <1>1, <1>4, <1>10, <1>14, EasedLegs
  <1>16. \A i \in C \ (C \cap {"skiff", "surveyor"}) : w.body[i] = m.body[i]
    BY <1>1, <1>9, <1>a, EasedLegs
  <1>17. ~actuators_granted(w.body["drone"])
    BY <1>1, <1>14, <1>15, <1>16
  <1>18. w \in Worlds(C)
    BY <1>8 DEF Eased
  <1> QED BY <1>8, <1>17, <1>18 DEF C

\* The parks stop the rover.
LEMMA ParksStop ==
    ASSUME NEW C, C = Present, C \subseteq Id, NEW w \in Worlds(C), w.error = "none",
           Abreast(C, w), NEW r, r = Follow(w, parks)
    PROVE  /\ r \in Worlds(C) /\ Abreast(C, r)
           /\ \A id \in C \ {"rover"} : r.body[id] = w.body[id]
           /\ "rover" \in C => ~actuators_granted(r.body["rover"])
  <1> DEFINE D == C \cap {"rover"}
             O == LegIn(C, "rover", attach_park)
  <1>1. parks = O
    BY HullsAre DEF parks
  <1>2. O \in Seq(MildLegs(D))
    <2> DEFINE U == MildLegs(D)
    <2>1. "rover" \in C => [id |-> "rover", walk |-> attach_park] \in U
      BY RoverWalks DEF MildLegs
    <2> HIDE DEF U
    <2> QED BY <2>1, OverIn DEF U
  <1>3. Legs(w, O, r)
    BY <1>1, <1>2, FollowLegs
  <1>4. Eased(C, w, r) /\ \A i \in C \ D : r.body[i] = w.body[i]
    <2> HIDE DEF O
    <2> QED BY <1>2, <1>3, EasedLegs
  <1>5. r = IF "rover" \in C THEN Legged(w, [id |-> "rover", walk |-> attach_park]) ELSE w
    BY <1>3, OverLegs
  <1>6. ASSUME "rover" \in C PROVE ~actuators_granted(r.body["rover"])
    <2>1. r = Walked(w, [id |-> "rover", walk |-> attach_park])
      BY <1>5, <1>6 DEF Legged
    <2>2. attach_park \in StopOf("rover")
      BY Domains DEF StopOf
    <2> QED BY <1>6, <2>1, <2>2, StopLeg
  <1>7. Abreast(C, r)
    BY <1>4 DEF Abreast
  <1>8. r \in Worlds(C)
    BY <1>4 DEF Eased
  <1> QED BY <1>4, <1>6, <1>7, <1>8

\* The docks stop the hulls.
LEMMA DocksStop ==
    ASSUME NEW C, C = Present, C \subseteq Id, NEW w \in Worlds(C), w.error = "none",
           Abreast(C, w), NEW r, r = Follow(w, docks)
    PROVE  /\ \A id \in C \ {"skiff", "surveyor"} : r.body[id] = w.body[id]
           /\ \A id \in C \cap {"skiff", "surveyor"} : ~actuators_granted(r.body[id])
  <1> DEFINE D == C \cap {"skiff", "surveyor"}
             H == Hulls(C, attach_dock)
  <1>1. docks = H
    BY HullsAre DEF docks
  <1>2. H \in Seq(MildLegs(D))
    BY HullsIn, HullCalls
  <1>3. Legs(w, H, r)
    BY <1>1, <1>2, FollowLegs
  <1>4. \A i \in C \ D : r.body[i] = w.body[i]
    <2> HIDE DEF H
    <2> QED BY <1>2, <1>3, EasedLegs
  <1>5. \A id \in D : ~actuators_granted(r.body[id])
    BY <1>3, HullsStop
  <1> QED BY <1>4, <1>5

LEMMA StopsFleet ==
    ASSUME InvariantPlants
    PROVE  Stoppable
  <1> DEFINE C == Present
             w1 == Follow(Here, trips)
             x1 == [w1 EXCEPT !.error = "none"]
             w2 == Follow(x1, parks)
             x2 == [w2 EXCEPT !.error = "none"]
             w3 == Follow(x2, docks)
  <1>1. C \subseteq Id /\ "drone" \in C
    BY DEF InvariantPlants
  <1>2. w1 \in Worlds(C) /\ Abreast(C, w1) /\ ~actuators_granted(w1.body["drone"])
    BY TripsStop
  <1> HIDE DEF w1
  <1>3. x1 \in Worlds(C) /\ x1.body = w1.body /\ x1.error = "none"
    BY <1>1, <1>2, Retry
  <1> HIDE DEF x1
  <1>4. Abreast(C, x1)
    BY <1>2, <1>3 DEF Abreast
  <1>5. /\ w2 \in Worlds(C) /\ Abreast(C, w2)
        /\ \A id \in C \ {"rover"} : w2.body[id] = x1.body[id]
        /\ "rover" \in C => ~actuators_granted(w2.body["rover"])
    BY <1>1, <1>3, <1>4, ParksStop
  <1> HIDE DEF w2
  <1>6. x2 \in Worlds(C) /\ x2.body = w2.body /\ x2.error = "none"
    BY <1>1, <1>5, Retry
  <1> HIDE DEF x2
  <1>7. Abreast(C, x2)
    BY <1>5, <1>6 DEF Abreast
  <1>8. /\ \A id \in C \ {"skiff", "surveyor"} : w3.body[id] = x2.body[id]
        /\ \A id \in C \cap {"skiff", "surveyor"} : ~actuators_granted(w3.body[id])
    BY <1>1, <1>6, <1>7, DocksStop
  <1> HIDE DEF w3
  <1>9. ASSUME NEW id \in C PROVE ~actuators_granted(w3.body[id])
    <2>1. id \in Id
      BY <1>1
    <2> HIDE DEF C
    <2>2. CASE id = "drone"
      BY <1>2, <1>3, <1>5, <1>6, <1>8, <2>2
    <2>3. CASE id = "rover"
      BY <1>5, <1>6, <1>8, <2>3
    <2>4. CASE id \in {"skiff", "surveyor"}
      BY <1>8, <2>4
    <2> QED BY <2>1, <2>2, <2>3, <2>4, Domains
  <1>10. \A id \in C : ~actuators_granted(w3.body[id])
    BY <1>9
  <1> QED
    <2> DEFINE y1 == [Follow(Here, trips) EXCEPT !.error = "none"]
               y2 == [Follow(y1, parks) EXCEPT !.error = "none"]
    <2>1. w3 = Follow(y2, docks)
      BY DEF w3, x2, w2, x1, w1
    <2>2. \A id \in Present : ~actuators_granted(Follow(y2, docks).body[id])
      BY <1>10, <2>1
    <2> QED BY <2>2 DEF Stoppable

\* However a fleet came to be where it is, calls that stopped half way included,
\* trip_safety, park_all and dock_all stop it, whatever they return: the legs a
\* call breaks off before are those of bodies that are stopped by another call,
\* or of a hull behind one that was dead.
THEOREM FleetStops == Spec => []Stoppable
  BY PlantsConsistent, StopsFleet, PTL
=============================================================================
