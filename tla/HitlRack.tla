------------------------------- MODULE HitlRack -------------------------------
(***************************************************************************)
(* The deadline rack of flight-hitl: one backend for each body of a world, *)
(* driven frame by frame with the commands of its caller or of an I/O card *)
(* at the other end of a UDP link.  A frame writes its commands, flushes   *)
(* every body, steps the world and only then looks at its deadline.        *)
(*                                                                         *)
(* The rack is one thread, and what may stop a frame half way is the world *)
(* that refuses its step.  A walk over the fleet stops at the first body   *)
(* that refuses, and the bodies before it have moved.  Whoever shares the  *)
(* session posts revoking events to the drone in between.                  *)
(***************************************************************************)
EXTENDS WorldSession, Temporal

CONSTANTS
    Catalogs,   \* the sets of bodies a rack is built over
    Specs,      \* the (period, budget) pairs asked of with_spec
    Computes,   \* what frames take
    Commands,   \* the commands the caller of the rack gives a frame
    Cuttable,   \* the bodies whose propulsion a step may cut
    Revokes,    \* the events injected through the session
    Datagrams,  \* what the card sends
    INBOX,      \* datagrams the socket of the rack holds
    READS,      \* datagrams one drain reads at most: 16
    SENDS       \* datagrams the card sends

VARIABLES
    body,        \* the bodies of the world
    setpoint,    \* what the rack's backend of each has staged
    spec,
    last_missed,
    wire,        \* the datagrams waiting at the rack's socket
    sent,        \* how many the card has sent
    \* history: the bodies tripped by a miss and not recovered since; how the
    \* last step, if it was a frame, ended, and the commands it applied
    tripped, report, applied

vars == <<body, setpoint, spec, last_missed, wire, sent, tripped, report, applied>>

\* A command for a slot: a velocity, zero, or no number.
Value == {"zero", "velocity", "nan"}
Datagram == [slot : Id, apply : BOOLEAN, velocity : Value]
Idle == [id \in Id |-> "zero"]
\* A rack is refused a world without a drone.
ASSUME BoundsAssumption ==
    /\ \A catalog \in Catalogs : "drone" \in catalog /\ catalog \subseteq Id
    /\ Computes \subseteq Nat
    /\ Commands \subseteq [Id -> Value] /\ Cuttable \subseteq Id /\ Datagrams \subseteq Datagram
    /\ INBOX \in Nat /\ READS \in Nat \ {0} /\ SENDS \in Nat

Present == DOMAIN body

-----------------------------------------------------------------------------
(* Deadline and rate. *)

valid(s) == s.period > 0 /\ s.budget > 0 /\ s.budget <= s.period

deadline_outcome(compute, s) == IF compute <= s.budget THEN "met" ELSE "missed"

\* The three of them must agree.
Missed(s, compute) ==
    LET rate == from_period_ns(s.period) IN
    \/ deadline_outcome(compute, s) = "missed"
    \/ ~(HasPeriod(rate, s.period) /\ admits(rate, compute))

HZ_50 == [period |-> SECOND \div 50, budget |-> (4 * (SECOND \div 50)) \div 5]

with_spec(s) == IF valid(s) THEN s ELSE HZ_50

command_after_deadline(missed, v) == IF missed \/ v = "nan" THEN "zero" ELSE v

-----------------------------------------------------------------------------
(* The calls of the rack, other than a frame.  The optional bodies a       *)
(* catalog lacks are passed over.                                          *)

Here == [body |-> body, setpoint |-> setpoint, error |-> "none"]

If(id, walk) == IF id \in Present THEN Leg(id, walk) ELSE <<>>
hulls(walk) == If("skiff", walk) \o If("surveyor", walk)

grants ==
    Leg("drone", attach_takeoff) \o If("rover", attach_drive) \o hulls(attach_undock)
recovers ==
    Leg("drone", attach_recover_ready(body["drone"])) \o If("rover", attach_reset)
    \o hulls(attach_recover)
returns ==
    Leg("drone", attach_land) \o Leg("drone", attach_touchdown)
    \o If("rover", attach_park) \o hulls(attach_dock)

Now(legs) == \E w \in {legs} : body' = w.body /\ setpoint' = w.setpoint
NoFrame == report' = "none" /\ applied' = Idle
Quiet == UNCHANGED <<spec, wire, sent>> /\ NoFrame
Call(legs) ==
    /\ Now(Follow(Here, legs))
    /\ UNCHANGED <<last_missed, tripped>> /\ Quiet

\* The latch is cleared once every body has recovered.
recover_deadline ==
    \E w \in {Follow(Here, recovers)} :
    /\ Now(w)
    /\ last_missed' = (last_missed /\ w.error # "none")
    /\ tripped' = IF w.error = "none" THEN {} ELSE {id \in tripped : w.body[id] = body[id]}
    /\ Quiet

grant_all  == Call(grants)
return_all == Call(returns)
airborne   == Call(Leg("drone", attach_airborne))
hold       == Call(Leg("drone", attach_hold))
station_all == Call(hulls(attach_station))
resume_all  == Call(hulls(attach_resume))
dock_all    == Call(hulls(attach_dock))
park_all    == Call(If("rover", attach_park))

inject(e) ==
    /\ body' = [body EXCEPT !["drone"] = inject_revoke(@, e).body]
    /\ UNCHANGED <<setpoint, last_missed, tripped>> /\ Quiet

-----------------------------------------------------------------------------
(* The card and its wire: a datagram is lost, or it waits at the socket,   *)
(* before or after those that were sent earlier.                           *)

send_command(d) ==
    /\ sent < SENDS
    /\ sent' = sent + 1
    /\ \/ UNCHANGED wire
       \/ /\ Len(wire) < INBOX
          /\ \E i \in 0..Len(wire) :
               wire' = SubSeq(wire, 1, i) \o <<d>> \o SubSeq(wire, i + 1, Len(wire))
    /\ NoFrame /\ UNCHANGED <<body, setpoint, spec, last_missed, tripped>>

\* from_fch1: the last datagram for a slot, zero if it does not apply, zero
\* for a slot without one.
from_fch1(ds) ==
    [id \in Id |->
        LET for == {i \in DOMAIN ds : ds[i].slot = id} IN
        IF for = {} THEN "zero"
        ELSE LET d == ds[CHOOSE i \in for : \A j \in for : j <= i] IN
             IF d.apply THEN d.velocity ELSE "zero"]

Fewer(a, b) == IF a < b THEN a ELSE b
Drained == Fewer(READS, Len(wire))

-----------------------------------------------------------------------------
(* A frame. *)

\* Fault: a zero is not worth a write.
WritableMoving(b, v) ==
    /\ Kind(b) \in OffboardControl \cup {"Moving", "Underway", "StationKeep"}
    /\ v = "velocity"

\* Fault: a hold is overwritten by a frame that commands nothing.
WritableHeld(b, v) ==
    Kind(b) \in OffboardControl \cup {"Moving", "Underway", "StationKeep"}

\* The slots that are commanded: a body that is not typed for it is passed
\* over, and so is a drone that holds and is not commanded to move.
Writable(b, v) ==
    /\ Kind(b) \in OffboardControl \cup {"Moving", "Underway", "StationKeep"}
    /\ ~(b.id = "drone" /\ b.command = "hold" /\ v # "velocity")

\* write_granted_setpoints
write(id, v) ==
    IF id \in Present /\ Writable(body[id], v)
      THEN Leg(id, [Command(body[id]) EXCEPT !.stages = v]) ELSE <<>>
write_granted_setpoints(cmd) ==
    write("drone", cmd["drone"]) \o write("rover", cmd["rover"])
    \o write("skiff", cmd["skiff"]) \o write("surveyor", cmd["surveyor"])

Flush(w) == [w EXCEPT !.body = [id \in Present |-> Flushed(w.body[id], w.setpoint[id])]]
Step(w, cut) == [w EXCEPT !.body = [id \in Present |-> Stepped(w.body[id], id \in cut)]]

\* The failsafe of a body, typed or, if it is refused, as the bare event.
FailsafeEvent(id) ==
    CASE Domain(id) = "aerial" -> "TriggerFailsafe" [] Domain(id) = "ground" -> "EStop"
      [] Domain(id) = "marine" -> "Failsafe"
FailsafeWalk(id) ==
    CASE Domain(id) = "aerial" -> attach_failsafe [] Domain(id) = "ground" -> attach_estop
      [] Domain(id) = "marine" -> attach_marine_failsafe

\* Fault: a body that is already down, at home or not bound is left as it is.
TripTyped(b) == Leg(b.id, FailsafeWalk(b.id))

trip(b) ==
    Leg(b.id, IF Attach(b, FailsafeWalk(b.id)).error = "Protocol"
                THEN Walk({Kind(b)}, FALSE, <<FailsafeEvent(b.id)>>, "none")
                ELSE FailsafeWalk(b.id))
Trip(w, id) == IF id \in Present THEN trip(w.body[id]) ELSE <<>>
trip_deadline_failsafe(w) ==
    Follow(w, Trip(w, "drone") \o Trip(w, "rover") \o Trip(w, "skiff") \o Trip(w, "surveyor"))

\* finish: the deadline is looked at, and a miss fails every body safe.
finish(w, compute) ==
    IF Missed(spec, compute)
      THEN /\ last_missed' = TRUE
           /\ report' = "missed"
           /\ Now(trip_deadline_failsafe(w))
           /\ tripped' = Present
      ELSE /\ last_missed' = FALSE
           /\ report' = "met"
           /\ Now(w)
           /\ UNCHANGED tripped

\* A frame that is refused, by a body or by the world, is not scored.
Refused(w) ==
    /\ Now(w)
    /\ report' = "refused"
    /\ UNCHANGED <<last_missed, tripped>>

Written(commands) ==
    IF last_missed THEN Here ELSE Follow(Here, write_granted_setpoints(commands))

frame(cmd) ==
    \E commands \in {[id \in Id |-> command_after_deadline(last_missed, cmd[id])]} :
    /\ applied' = commands
    /\ UNCHANGED spec
    /\ \E written \in {Written(commands)} :
         IF written.error # "none" THEN Refused(written)
         ELSE \/ Refused(Flush(written))
              \/ \E cut \in SUBSET (Cuttable \cap Present), compute \in Computes :
                    finish(Step(Flush(written), cut), compute)

frame_from_io ==
    /\ frame(from_fch1(SubSeq(wire, 1, Drained)))
    /\ wire' = SubSeq(wire, Drained + 1, Len(wire))
    /\ UNCHANGED sent

\* The caller of the rack, without a card.
frame_with_compute(cmd) == frame(cmd) /\ UNCHANGED <<wire, sent>>

-----------------------------------------------------------------------------
\* A rack is built over a world whose bodies are all ready.
Init ==
    \E catalog \in Catalogs :
      LET scene == [body |-> [id \in catalog |-> Spawned(id)],
                    setpoint |-> [id \in catalog |-> "none"], error |-> "none"]
          grant == LET opt(id, walk) == IF id \in catalog THEN Leg(id, walk) ELSE <<>> IN
                   Leg("drone", attach_takeoff) \o opt("rover", attach_drive)
                   \o opt("skiff", attach_undock) \o opt("surveyor", attach_undock)
          w == Follow(scene, grant)
      IN  /\ body = w.body /\ setpoint = w.setpoint
          /\ spec \in {with_spec(s) : s \in Specs}
          /\ last_missed = FALSE /\ tripped = {}
          /\ wire = <<>> /\ sent = 0
          /\ report = "none" /\ applied = Idle

Next ==
    \/ recover_deadline \/ grant_all \/ return_all \/ airborne \/ hold
    \/ station_all \/ resume_all \/ dock_all \/ park_all
    \/ \E e \in Revokes : inject(e)
    \/ \E d \in Datagrams : send_command(d)
    \/ frame_from_io
    \/ \E cmd \in Commands : frame_with_compute(cmd)

Spec == Init /\ [][Next]_vars

-----------------------------------------------------------------------------
TypeOK ==
    /\ \E catalog \in Catalogs :
         /\ body \in [catalog -> UNION {Body(id) : id \in catalog}]
         /\ \A id \in catalog : body[id] \in Body(id)
         /\ setpoint \in [catalog -> Setpoint]
    /\ valid(spec) /\ last_missed \in BOOLEAN
    /\ wire \in Seq(Datagram) /\ Len(wire) <= INBOX /\ sent \in 0..SENDS
    /\ tripped \subseteq Present
    /\ report \in {"none", "met", "missed", "refused"}
    /\ applied \in [Id -> {"zero", "velocity"}]

\* Nothing refuses to be recovered.
Recoverable == Follow(Here, recovers).error = "none"

\* README: "miss => attach failsafe (or idempotent re-trip) + zero command".
\* Whatever state a miss finds the bodies in, the walk that fails them safe
\* stops at none of them, nothing commands them or is staged for them, and
\* every one of them can be recovered from there.
MissStopsFleet ==
    report = "missed" =>
        /\ \A id \in Present :
             Tripped(body[id]) /\ body[id].command = "none" /\ setpoint[id] = "none"
        /\ Recoverable

\* Between a miss and its recovery a body takes part in nothing: no frame, on
\* time or not, no grant, and no event from elsewhere powers or commands it.
TrippedStaysDown ==
    \A id \in tripped : ~actuators_granted(body[id]) /\ body[id].command = "none"

\* A body that is driven after a frame is driven by that frame: nothing that
\* was staged before a failsafe, a hold or a new grant is flushed over it.
DrivenByThisFrame ==
    report # "none" =>
        \A id \in Present :
          actuators_granted(body[id]) /\ body[id].command = "velocity"
            => applied[id] = "velocity"

\* "apply=0 must not revive or clear hold": a drone that holds is not stopped
\* by frames that command it nothing, nor by those for other slots.
HoldSurvivesIdle ==
    [][report' \in {"met", "refused"} /\ setpoint["drone"] = "hold"
         /\ body["drone"].command = "hold" /\ applied'["drone"] = "zero"
       => body'["drone"].command \in {"hold", "none"}]_vars
=============================================================================
