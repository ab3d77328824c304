-------------------------------- MODULE Plants --------------------------------
(***************************************************************************)
(* The plants that put a verified world behind a companion's interface:    *)
(*   world_plant  flight-px4's WorldPlant: MAVLink messages in, local      *)
(*                positions and heartbeats out, flags of its own           *)
(*   fleet        flight-ros2's FleetPlant and FleetPlantNode: a Twist     *)
(*                topic for each body of a catalog                         *)
(*   plant_node   flight-ros2's PlantNode: a Twist topic for a drone       *)
(*                                                                         *)
(* A plant is one thread.  Between its calls whoever shares the session    *)
(* posts revoking events to the drone, and the subscriptions of a node     *)
(* overwrite its slots of latest Twists, which nothing empties.  The       *)
(* bodies of a world that a plant has no backend for rest; they are left   *)
(* out.                                                                    *)
(***************************************************************************)
EXTENDS WorldSession

CONSTANTS
    Plant,      \* the plants with their bodies: [kind, bodies]
    Cuttable,   \* the bodies whose propulsion a step may cut
    Revokes     \* the events injected through the session

VARIABLES
    kind,       \* which plant this is
    body,       \* the bodies of the world
    setpoint,   \* what the plant's backend of each has staged
    armed, offboard,    \* WorldPlant's flags
    latest,     \* the bodies for which a node has ever received a Twist
    told        \* history: the bodies given a velocity and not stopped by the
                \* plant since

vars == <<kind, body, setpoint, armed, offboard, latest, told>>

ASSUME PlantAssumption ==
    /\ \A p \in Plant : /\ p.kind \in {"world_plant", "fleet", "plant_node"}
                        /\ p.bodies \subseteq Id /\ "drone" \in p.bodies
    /\ Cuttable \subseteq Id

Present == DOMAIN body
Here == [body |-> body, setpoint |-> setpoint, error |-> "none"]

\* The bodies and the backends are as w has them.
Now(w) == body' = w.body /\ setpoint' = w.setpoint

\* ... by a call of the plant that gave these bodies a velocity.
Then(w, given) ==
    /\ Now(w)
    /\ told' = {id \in told \cup given :
                  actuators_granted(body[id]) => actuators_granted(w.body[id])}

\* A call that walks the bodies and does nothing else.
Walks(legs) ==
    /\ \E w \in {Follow(Here, legs)} : Then(w, {})
    /\ UNCHANGED <<kind, armed, offboard, latest>>

inject(e) ==
    /\ body' = [body EXCEPT !["drone"] = inject_revoke(@, e).body]
    /\ UNCHANGED <<kind, setpoint, armed, offboard, latest, told>>

\* What the backend of id has staged is flushed onto its body.
flush(w, id) ==
    [w EXCEPT !.body = [w.body EXCEPT ![id] = Flushed(w.body[id], w.setpoint[id])]]

\* World::try_step, refused before it moves anything, or done.
Stepping(w) ==
    \/ Now(w)
    \/ \E cut \in SUBSET (Cuttable \cap Present) :
         Now([w EXCEPT !.body = [id \in Present |-> Stepped(w.body[id], id \in cut)]])

-----------------------------------------------------------------------------
(* WorldPlant: a MAVLink message, a hold, a tick. *)

WorldPlant == kind = "world_plant"
Drone(walk) == Follow(Here, Leg("drone", walk))
DroneWalks(walk) == WorldPlant /\ Walks(Leg("drone", walk))

\* A setpoint is staged while the drone is typed for it.
set_ned(sp) ==
    /\ WorldPlant
    /\ \E w \in {Drone([Command(body["drone"]) EXCEPT !.from = OffboardControl,
                                                      !.stages = sp])} :
         Then(w, IF w.error = "none" /\ sp = "velocity" THEN {"drone"} ELSE {})
    /\ UNCHANGED <<kind, armed, offboard, latest>>

arm ==
    /\ WorldPlant
    /\ \E w \in {Drone(attach_offboard)} :
         /\ Then(w, {})
         /\ armed' = (armed \/ w.error = "none") /\ offboard' = (offboard \/ w.error = "none")
    /\ UNCHANGED <<kind, latest>>

\* Disarm, or recover what cannot be disarmed; a drone that can be neither is
\* reported disarmed as it is.
disarm_or_recover ==
    /\ WorldPlant
    /\ \E w \in {Drone(attach_disarm)} :
       \E v \in {IF w.error = "Protocol" THEN Drone(attach_recover_ready(body["drone"])) ELSE w} :
         /\ Then(v, {})
         /\ armed'    = (armed /\ v.error \notin {"none", "Protocol"})
         /\ offboard' = (offboard /\ v.error \notin {"none", "Protocol"})
    /\ UNCHANGED <<kind, latest>>

do_set_mode ==
    /\ WorldPlant
    /\ offboard' = TRUE
    /\ UNCHANGED <<kind, body, setpoint, armed, latest, told>>

nav_takeoff == DroneWalks(attach_start_takeoff)
nav_loiter  == DroneWalks(attach_airborne)
nav_land    == DroneWalks(attach_land)

\* The flags say offboard no more, and still say armed.
flight_termination ==
    /\ WorldPlant
    /\ \E w \in {Drone(attach_failsafe)} :
         /\ Then(w, {})
         /\ offboard' = (offboard /\ w.error # "none")
    /\ UNCHANGED <<kind, armed, latest>>

\* step_now: what is staged is flushed, then the world steps.
tick ==
    /\ WorldPlant
    /\ Stepping(flush(Here, "drone"))
    /\ UNCHANGED <<kind, armed, offboard, latest, told>>

-----------------------------------------------------------------------------
(* FleetPlant: the walks over a catalog stop at the first body that        *)
(* refuses; a body the catalog lacks is passed over.                       *)

Fleet == kind = "fleet"
If(id, walk) == IF id \in Present THEN Leg(id, walk) ELSE <<>>
hulls(walk) == If("skiff", walk) \o If("surveyor", walk)

trips ==
    Leg("drone", attach_failsafe) \o If("rover", attach_estop) \o hulls(attach_marine_failsafe)
grants ==
    Leg("drone", attach_takeoff) \o If("rover", attach_drive) \o hulls(attach_undock)
recovers ==
    Leg("drone", attach_recover_ready(body["drone"])) \o If("rover", attach_reset)
    \o hulls(attach_recover)
returns ==
    Leg("drone", attach_land) \o Leg("drone", attach_touchdown)
    \o If("rover", attach_park) \o hulls(attach_dock)

\* Fault: the second hull is forgotten.
dock_skiff == If("skiff", attach_dock)

docks == hulls(attach_dock)
parks == If("rover", attach_park)

grant_all      == Fleet /\ Walks(grants)
trip_safety    == Fleet /\ Walks(trips)
recover_safety == Fleet /\ Walks(recovers)
return_all     == Fleet /\ Walks(returns)

\* Without a hull, or without a rover, these are refused.
Any(ids) == Fleet /\ ids \cap Present # {}
station_all == Any({"skiff", "surveyor"}) /\ Walks(hulls(attach_station))
resume_all  == Any({"skiff", "surveyor"}) /\ Walks(hulls(attach_resume))
dock_all    == Any({"skiff", "surveyor"}) /\ Walks(docks)
park_all    == Any({"rover"}) /\ Walks(parks)

\* apply_offboard on the drone's backend: a setpoint, or none, is staged and
\* what is staged is flushed.
apply_offboard(sp) ==
    /\ Fleet
    /\ \E w \in {Drone(IF sp = "none"
                         THEN Walk(OffboardControl, FALSE, <<>>, setpoint["drone"])
                         ELSE [Command(body["drone"]) EXCEPT !.from = OffboardControl,
                                                             !.stages = sp])} :
         Then(IF w.error = "none" THEN flush(w, "drone") ELSE w,
              IF w.error = "none" /\ sp = "velocity" THEN {"drone"} ELSE {})
    /\ UNCHANGED <<kind, armed, offboard, latest>>

-----------------------------------------------------------------------------
(* PlantNode. *)

PlantNode == kind = "plant_node"
NodeWalks(walk) == PlantNode /\ Walks(Leg("drone", walk))

grant_offboard == NodeWalks(attach_takeoff)
trip_failsafe  == NodeWalks(attach_failsafe)
recover_ready  == NodeWalks(attach_recover_ready(body["drone"]))
disarm         == NodeWalks(attach_disarm)
land           == NodeWalks(attach_land)
touchdown      == NodeWalks(attach_touchdown)

\* FleetPlant's and PlantNode's, and the hold is WorldPlant's too.
airborne == ~WorldPlant /\ Walks(Leg("drone", attach_airborne))
hold     == Walks(Leg("drone", attach_hold))

-----------------------------------------------------------------------------
(* The nodes: their subscriptions, and one turn of their loop. *)

\* A message of a topic.  A fleet subscribes for bodies its catalog lacks; what
\* it receives for them is never read.
receive(id) ==
    /\ ~WorldPlant
    /\ latest' = latest \cup {id}
    /\ UNCHANGED <<kind, body, setpoint, armed, offboard, told>>

Granted(b) == Kind(b) \in OffboardControl \cup {"Moving", "Underway", "StationKeep"}

\* apply_twist_linear and its like for a chassis and for a hull: the velocity is
\* staged and flushed at once, and a body that is not typed for it refuses.
apply_twist(w, id) ==
    CASE w.error # "none" \/ id \notin latest \cap Present -> w
      [] w.error = "none" /\ id \in latest \cap Present /\ ~Granted(w.body[id]) ->
            [w EXCEPT !.error = "Rejected"]
      [] OTHER -> LET v == Walked(w, [id |-> id, walk |-> Command(w.body[id])]) IN
                  IF v.error = "none" THEN flush(v, id) ELSE v
apply_twists ==
    LET after[i \in 0..Len(Slots)] ==
            IF i = 0 THEN {Here} ELSE {apply_twist(w, Slots[i]) : w \in after[i - 1]}
    IN  CHOOSE w \in after[Len(Slots)] : TRUE

\* The latest Twists are applied, again, and the world steps.
spin_step ==
    /\ ~WorldPlant
    /\ \E w \in {apply_twists} :
         /\ IF w.error # "none" THEN Now(w) ELSE Stepping(w)
         /\ told' = told \cup {id \in latest \cap Present : w.setpoint[id] = "velocity"}
    /\ UNCHANGED <<kind, armed, offboard, latest>>

-----------------------------------------------------------------------------
\* A plant is built over a scene whose bodies are ready; it grants nothing.
Init ==
    \E p \in Plant :
      /\ kind = p.kind
      /\ body = [id \in p.bodies |-> Spawned(id)]
      /\ setpoint = [id \in p.bodies |-> "none"]
      /\ armed = FALSE /\ offboard = FALSE /\ latest = {} /\ told = {}

Next ==
    \/ \E e \in Revokes : inject(e)
    \/ \E sp \in {"velocity", "hold"} : set_ned(sp)
    \/ arm \/ disarm_or_recover \/ do_set_mode
    \/ nav_takeoff \/ nav_loiter \/ nav_land \/ flight_termination \/ tick
    \/ grant_all \/ trip_safety \/ recover_safety \/ return_all
    \/ station_all \/ resume_all \/ dock_all \/ park_all
    \/ \E sp \in {"none", "velocity", "hold"} : apply_offboard(sp)
    \/ grant_offboard \/ trip_failsafe \/ recover_ready \/ disarm \/ land \/ touchdown
    \/ airborne \/ hold
    \/ \E id \in Id : receive(id)
    \/ spin_step

Spec == Init /\ [][Next]_vars

-----------------------------------------------------------------------------
\* However a fleet came to be where it is, calls that stopped half way included,
\* its own calls stop it: whatever trip_safety, park_all and dock_all return,
\* after the three of them nothing is live.
Stoppable ==
    LET Try(w, legs) == Follow([w EXCEPT !.error = "none"], legs)
        w == Try(Try(Follow(Here, trips), parks), docks)
    IN  Fleet => \A id \in Present : ~actuators_granted(w.body[id])

\* "Already-Ready DISARM still succeeds", "other Protocol is a no-op": a plant
\* whose heartbeat says disarmed has a drone that cannot fly, whatever was
\* posted to the drone without the plant.
DisarmedMeansDead == WorldPlant /\ ~armed => ~actuators_granted(body["drone"])

\* A velocity dies with the call of the plant that takes its body's authority:
\* neither what a backend has staged nor what a body has as its command, also
\* after a step that was refused, drives the body once the plant has stopped it,
\* until a velocity is given again.
VelocityDies ==
    \A id \in Present :
      actuators_granted(body[id]) /\ body[id].command = "velocity" => id \in told
=============================================================================
