--------------------------------- MODULE Mech ---------------------------------
(***************************************************************************)
(* The mechanical primitives of flight-core, in whole units of length,     *)
(* speed and force small enough to stand for the code's tolerances of      *)
(* 1e-4 and less.  Numbers that are not finite are left out, and so is the *)
(* rounding of f32: a quotient here rounds down.                           *)
(*                                                                         *)
(* Two spheres push and rub each other along the line of their centres     *)
(* and across it, so their bodies are given on that line.                  *)
(***************************************************************************)
EXTENDS Integers

Axis == 1..3
Vector == [Axis -> Int]
Zero3 == [i \in Axis |-> 0]
vec_dot(a, b) == a[1] * b[1] + a[2] * b[2] + a[3] * b[3]
Least(a, b) == IF a <= b THEN a ELSE b
Positive(n) == IF n > 0 THEN n ELSE 0
Magnitude(n) == IF n < 0 THEN -n ELSE n
clamp(n, limit) == IF n > limit THEN limit ELSE IF n < -limit THEN -limit ELSE n

-----------------------------------------------------------------------------
(* Terrain: z grows downwards. *)

VerticalContact == [z : Int, vz : Int, terrain_z : Int, impulse : Nat]

on_plane(c) == c.z >= c.terrain_z

resolve_vertical_contact(c) ==
    IF c.z < c.terrain_z
      THEN [c EXCEPT !.impulse = 0]
      ELSE [c EXCEPT !.z = c.terrain_z, !.impulse = Positive(c.vz),
                     !.vz = Least(c.vz, 0)]

contact_invariants(before, after) ==
    /\ after.z <= after.terrain_z
    /\ before.z < before.terrain_z => after.impulse = 0
    /\ after.impulse >= 0

-----------------------------------------------------------------------------
(* Spheres: a body without mass does not move; a body without a radius is a *)
(* point.                                                                   *)

SphereBody == [p : Int, v : Int, r : Int, m : Int]
SphereContact == [a : SphereBody, b : SphereBody, impulse : Nat]
pair(a, b) == [a |-> a, b |-> b, impulse |-> 0]

Reach(c) == Positive(c.a.r) + Positive(c.b.r)
gap(c) == Magnitude(c.b.p - c.a.p) - Reach(c)

\* Whether the normal from a to b points up the line; coincident centres take
\* it to.
Ahead(c) == c.b.p >= c.a.p
\* n along the normal.
Along(c, n) == IF Ahead(c) THEN n ELSE -n

\* How a correction is shared: by the other's mass, all to the one that moves.
Share(m, other) == IF m <= 0 THEN 0 ELSE IF other <= 0 THEN 1 ELSE other
Shares(c) == Share(c.a.m, c.b.m) + Share(c.b.m, c.a.m)
\* ... the part of n that falls to a.
PartOfA(c, n) == (n * Share(c.a.m, c.b.m)) \div Shares(c)

Pushed(c, n) ==
    [c EXCEPT !.a.p = @ - Along(c, PartOfA(c, n)),
              !.b.p = @ + Along(c, n - PartOfA(c, n))]
\* The impulse, over the pair's effective mass, is the speed it takes away.
Kicked(c, n) ==
    [c EXCEPT !.a.v = @ - Along(c, PartOfA(c, n)),
              !.b.v = @ + Along(c, n - PartOfA(c, n)),
              !.impulse = n]

\* The speed at which the centres approach.
Approach(c) == -Along(c, c.b.v - c.a.v)

resolve_sphere_contact(c) ==
    IF gap(c) > 0 \/ Shares(c) = 0
      THEN [c EXCEPT !.impulse = 0]
      ELSE Kicked(Pushed(c, -gap(c)), Positive(Approach(c)))

\* Which way the centre of mass lies from where it was: times the masses.
Carried(before, after) ==
    (before.a.m * (after.a.p - before.a.p)) + before.b.m * (after.b.p - before.b.p)

\* ... and it stays where it was but for the rounding of PartOfA.
sphere_contact_invariants(before, after) ==
    /\ after.impulse >= 0
    /\ gap(before) > 0 => after.impulse = 0
    /\ gap(after) >= 0
    /\ before.a.m > 0 /\ before.b.m > 0 =>
          Magnitude(Carried(before, after)) < before.a.m + before.b.m

\* The tangent impulse between surfaces that slip at vt, of which k is the
\* effective inverse mass, and mu the coefficient over one hundred.
tangent_impulse(vt, k, mu, jn) ==
    IF jn = 0 \/ mu <= 0 \/ vt = 0 \/ k = 0
      THEN 0
      ELSE Least(vt \div k, (mu * jn) \div 100)

friction_invariants(mu, jn, jt) == 0 <= jt /\ 100 * jt <= Positive(mu) * Positive(jn)

-----------------------------------------------------------------------------
(* Forces. *)

\* coefficient is rho cd area / 2, and speed the length of v_rel.
quadratic_drag(v_rel, speed, coefficient) ==
    [i \in Axis |-> IF coefficient < 0 \/ speed = 0 THEN 0
                    ELSE -(coefficient * speed) * v_rel[i]]
relative_power(v_rel, f) == vec_dot(v_rel, f)
drag_opposes_flow(v_rel, f) == relative_power(v_rel, f) <= 0

hold_velocity_ned(hold, position, kp) ==
    [i \in Axis |-> IF kp < 0 THEN 0 ELSE kp * (hold[i] - position[i])]
hold_restores_pose(hold, position, cmd) ==
    vec_dot([i \in Axis |-> hold[i] - position[i]], cmd) >= 0

buoyancy_ned(displaced, density, gravity) ==
    IF displaced <= 0 \/ density <= 0 \/ gravity <= 0 THEN 0
    ELSE -((displaced * density) * gravity)
buoyancy_only_when_wet(displaced, force) ==
    IF displaced <= 0 THEN force = 0 ELSE force <= 0

\* A force is zero unless the domain's machine granted it, the hull is on the
\* terrain, in water, or the rotors are in air, and the pack is not empty.
thrust_only_when_granted(granted, thrust) == granted \/ thrust = Zero3
ground_thrust_only_on_contact(on_terrain, thrust) == on_terrain \/ thrust = Zero3
marine_thrust_only_when_wet(wet, thrust) == wet \/ thrust = Zero3
aerial_thrust_only_in_air(in_air, thrust) == in_air \/ thrust = Zero3
battery_gates_thrust(charge, thrust) == charge > 0 \/ thrust = Zero3

drain_from_thrust(charge, magnitude, dt, watts) ==
    IF charge <= 0 THEN 0
    ELSE IF dt <= 0 \/ watts < 0 THEN charge
    ELSE Positive(charge - (magnitude * watts) * dt)

-----------------------------------------------------------------------------
(* Two cells of shallow water, that exchange mass over the faces 0-1 and 1-0. *)

\* Fluxes over one step in units of height: what leaves cell 0 by the first
\* and comes back to it by the second.
two_cell_periodic_mass(h, f01, f10) ==
    <<Positive(h[1] - (f01 - f10)), Positive(h[2] - (f10 - f01))>>
=============================================================================
