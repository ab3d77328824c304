------------------------------- MODULE WorldStep -------------------------------
(***************************************************************************)
(* World::try_step on the vertical axis: hydro and wind at rest, bodies    *)
(* above each other, level.  The successor of every body is worked out in  *)
(* full (forces, commands, battery, contacts), the property vector is      *)
(* evaluated on it, and it is committed or refused as a whole.             *)
(*                                                                         *)
(* Lengths are in tenths of a millimetre, speeds in tenths of a millimetre *)
(* per second, forces are per unit of mass, and time is in milliseconds.   *)
(* What the kernels and the sessions do to a body is reduced to whether    *)
(* its actuators are granted.                                              *)
(***************************************************************************)
EXTENDS Mech, Sequences

CONSTANTS
    Scene,        \* the worlds a run starts in: sequences of bodies
    Terrain,      \* where the ground or the seabed is
    Surface,      \* where the water starts; below Terrain there is none
    Dt            \* what a step lasts

VARIABLES
    bodies,       \* a sequence of bodies
    broken        \* the properties that failed in the last try_step

world == <<bodies, broken>>

GRAVITY == 98066
Unset == [given |-> FALSE, at |-> 0]
At(n) == [given |-> TRUE, at |-> n]
Option == [given : BOOLEAN, at : Int]

Domains == {"aerial", "ground", "surface", "underwater"}

\* charge is counted in steps' worth of a unit of thrust.
Mass == [domain : Domains, z : Int, v : Int, command : Option, hold : Option,
         granted : BOOLEAN, charge : Nat, radius : Nat, mass : Nat \ {0},
         drag : Nat, lift : Nat]

\* What evaluate_parts reads of the step that a body has just made.
Made == [thrust : Int, v_rel : Int, drag_force : Int, buoyancy : Int, displaced : Int,
         on_terrain : BOOLEAN, wet : BOOLEAN, charge : Nat]

-----------------------------------------------------------------------------
(* Setpoints. *)

clear_command(b) == [b EXCEPT !.command = Unset, !.hold = Unset]
Error(b) == b.hold.at - b.z
\* HOLD_KP is 1.4 per second.
refresh_hold(b) ==
    IF b.hold.given THEN [b EXCEPT !.command = At((14 * Error(b)) \div 10)] ELSE b
set_position_hold(b, p) == refresh_hold([b EXCEPT !.hold = At(p)])

-----------------------------------------------------------------------------
(* step_body: the forces on a body where it is. *)

wet(b) == Surface < Terrain /\ b.z > Surface
propulsion_live(b) == b.granted /\ b.charge > 0
on_terrain(b) == b.z >= Terrain
displaced(b) == IF wet(b) THEN 1 ELSE 0

\* Propulsion is live, and the body is where it can use it.
Propelled(b) ==
    /\ propulsion_live(b)
    /\ b.domain = "ground" => on_terrain(b)
    /\ b.domain \in {"surface", "underwater"} => wet(b)
    /\ b.domain = "aerial" => ~wet(b)

Commanded(b) == IF Propelled(b) THEN refresh_hold(b) ELSE clear_command(b)

\* The thrust the controller asks for: rotors push up, along minus body z,
\* whatever the sign of the force it wants; hulls and wheels push in the plane.
Wanted(b, speed) ==
    CASE b.domain = "aerial" ->
            -Magnitude(clamp((32 * (speed - b.v)) \div 10 - GRAVITY, 180000))
      [] b.domain = "underwater" -> clamp((28 * (speed - b.v)) \div 10, 80000)
      [] b.domain \in {"ground", "surface"} -> 0

Thrust(b) ==
    IF Propelled(b) THEN Wanted(b, Commanded(b).command.at) ELSE 0

\* drag is in ten-thousandths per metre; a hull in water is all in it.
drag(b) == quadratic_drag([i \in Axis |-> IF i = 3 THEN b.v ELSE 0],
                          Magnitude(b.v) \div 10000, b.drag)[3] \div 10000
buoyancy(b) == buoyancy_ned(displaced(b), b.lift, 1)

\* Semi-implicit Euler, to the nearest unit.
Moved(n) == (n * Dt + 500) \div 1000
Integrated(b) ==
    LET v == b.v + Moved(drag(b) + buoyancy(b) + GRAVITY + Thrust(b)) IN
    [Commanded(b) EXCEPT
        !.v = v, !.z = b.z + Moved(v),
        !.charge = drain_from_thrust(b.charge, Magnitude(Thrust(b)), 1, 1)]

\* What the step leaves to be evaluated, before the contacts.
Record(b) ==
    [thrust |-> Thrust(b), v_rel |-> b.v, drag_force |-> drag(b),
     buoyancy |-> buoyancy(b), displaced |-> displaced(b),
     on_terrain |-> on_terrain(b), wet |-> wet(b), charge |-> b.charge]

-----------------------------------------------------------------------------
(* Contacts. *)

vertical(b) == [z |-> b.z, vz |-> b.v, terrain_z |-> Terrain, impulse |-> 0]
apply_vertical_contact(b) ==
    LET after == resolve_vertical_contact(vertical(b)) IN
    [b EXCEPT !.z = after.z, !.v = after.vz]

sphere(b) == [p |-> b.z, v |-> b.v, r |-> b.radius, m |-> b.mass]
apply_sphere(b, s) == [b EXCEPT !.z = s.p, !.v = s.v]

\* One contact of the bodies i and j of bs.
Met(bs, i, j) ==
    LET c == resolve_sphere_contact(pair(sphere(bs[i]), sphere(bs[j]))) IN
    [bs EXCEPT ![i] = apply_sphere(@, c.a), ![j] = apply_sphere(@, c.b)]

\* A second sweep over two bodies finds them apart, so that one is enough.
resolve_body_contacts(bs) == IF Len(bs) < 2 THEN bs ELSE Met(bs, 1, 2)

Landed(bs) == [i \in DOMAIN bs |-> apply_vertical_contact(bs[i])]

\* Where the contacts start, where the last terrain contact starts, and where
\* the step ends.
Flown(bs) == [i \in DOMAIN bs |-> Integrated(bs[i])]
ContactsResolved(bs) == resolve_body_contacts(Landed(resolve_body_contacts(Flown(bs))))
advance(bs) == Landed(ContactsResolved(bs))

-----------------------------------------------------------------------------
(* evaluate_parts on the bodies bs and what their step left. *)

Vertical(n) == [i \in Axis |-> IF i = 3 THEN n ELSE 0]

\* A product of a command and an error may be short of zero by 1e-5 m2/s.
HOLD_SLACK == 1000
hold_kept(b) ==
    b.hold.given =>
        /\ b.command.given
        /\ \/ Error(b) >= 0 /\ b.command.at >= 0
           \/ Error(b) <= 0 /\ b.command.at <= 0
           \/ Error(b) * b.command.at >= -HOLD_SLACK

\* The limit on overlap is 1e-3 m.
Interpenetrate(a, b) == gap(pair(sphere(a), sphere(b))) < -10

Fails(b, made, before) ==
    {p \in {"no_terrain_penetration"} :
        \/ b.z > Terrain
        \/ ~contact_invariants(vertical(before), resolve_vertical_contact(vertical(before)))}
    \cup {p \in {"drag_opposes_relative_flow"} :
        ~drag_opposes_flow(Vertical(made.v_rel), Vertical(made.drag_force))}
    \cup {p \in {"buoyancy_only_when_wet"} :
        ~buoyancy_only_when_wet(made.displaced, made.buoyancy)}
    \cup {p \in {"thrust_only_when_granted"} :
        ~thrust_only_when_granted(b.granted, Vertical(made.thrust))}
    \cup {p \in {"battery_gates_thrust"} :
        ~battery_gates_thrust(made.charge, Vertical(made.thrust))}
    \cup {p \in {"ground_drive_only_on_contact"} :
        b.domain = "ground"
        /\ ~ground_thrust_only_on_contact(made.on_terrain, Vertical(made.thrust))}
    \cup {p \in {"marine_thrust_only_when_wet"} :
        b.domain \in {"surface", "underwater"}
        /\ ~marine_thrust_only_when_wet(made.wet, Vertical(made.thrust))}
    \cup {p \in {"aerial_thrust_only_in_air"} :
        b.domain = "aerial" /\ ~aerial_thrust_only_in_air(~made.wet, Vertical(made.thrust))}
    \cup {p \in {"aerial_thrust_along_minus_body_z"} :
        b.domain = "aerial" /\ made.thrust > 0}
    \cup {p \in {"auv_thrust_on_body_axes"} :
        b.domain = "underwater" /\ Magnitude(made.thrust) > 80000}
    \cup {p \in {"position_hold_restores_pose"} : ~hold_kept(b)}

evaluate(bs) ==
    UNION {Fails(advance(bs)[i], Record(bs[i]), ContactsResolved(bs)[i]) : i \in DOMAIN bs}
    \cup {p \in {"no_body_interpenetration"} :
            \E i, j \in DOMAIN bs : i < j /\ Interpenetrate(advance(bs)[i], advance(bs)[j])}

-----------------------------------------------------------------------------

WorldInit == bodies \in Scene /\ broken = {}

\* Only a successor that breaks nothing is committed.
try_step ==
    /\ broken' = evaluate(bodies)
    /\ bodies' = IF broken' = {} THEN advance(bodies) ELSE bodies

WorldSpec == WorldInit /\ [][try_step]_world

\* What mech.rs asks of a simulator after every step: the command of a body
\* that holds a pose does not drive it away from the pose.
HoldNeverDrivesAway == "position_hold_restores_pose" \notin broken
=============================================================================
