---------------------------- MODULE HitlRackProofs ----------------------------
(***************************************************************************)
(* What the rack and the contracts on time it keeps promise, for every     *)
(* fleet, every stream of datagrams and every pattern of missed deadlines. *)
(* InvariantRack is inductive: the bodies are in states a walk leaves, a   *)
(* body that a miss has failed safe is down, and while a miss is latched   *)
(* nothing is commanded a velocity.                                        *)
(***************************************************************************)
EXTENDS HitlRack, WalkProofs

\* Division rounds down: the quotient is the largest whose product fits.
LEMMA Quotient ==
    ASSUME NEW n \in Nat, NEW d \in Nat \ {0}
    PROVE  /\ n \div d \in Nat
           /\ d * (n \div d) <= n
           /\ n < d * (n \div d) + d
  OBVIOUS

LEMMA QuotientMonotone ==
    ASSUME NEW n \in Nat, NEW m \in Nat, NEW d \in Nat \ {0}, n <= m
    PROVE  n \div d <= m \div d
<1>1. SUFFICES ASSUME m \div d + 1 <= n \div d PROVE FALSE
  BY Quotient
<1>2. d * (m \div d + 1) <= d * (n \div d)
  BY <1>1, Quotient
<1>3. d * (m \div d + 1) = d * (m \div d) + d
  BY Quotient
<1> QED
  BY <1>2, <1>3, Quotient

LEMMA QuotientBelow ==
    ASSUME NEW n \in Nat, NEW d \in Nat \ {0}, NEW k \in Nat, n < d * k
    PROVE  n \div d < k
<1>1. SUFFICES ASSUME k <= n \div d PROVE FALSE
  BY Quotient
<1>2. d * k <= d * (n \div d)
  BY <1>1, Quotient
<1> QED
  BY <1>2, Quotient

\* A quotient of the quotient is no smaller than the divisor it came from.
LEMMA QuotientInverse ==
    ASSUME NEW n \in Nat, NEW p \in Nat \ {0}, p <= n
    PROVE  n \div p # 0 /\ p <= n \div (n \div p)
<1> DEFINE h == n \div p
<1>1. h \in Nat \ {0}
  <2>1. SUFFICES ASSUME n \div p = 0 PROVE FALSE
    BY Quotient
  <2>2. p * (n \div p) = 0
    BY <2>1
  <2> QED
    BY <2>2, Quotient
<1>2. p * h <= n
  BY Quotient
<1>3. SUFFICES ASSUME n \div h + 1 <= p PROVE FALSE
  BY <1>1, Quotient
<1>4. h * (n \div h + 1) <= h * p
  BY <1>1, <1>3, Quotient
<1>5. h * (n \div h + 1) = h * (n \div h) + h
  BY <1>1, Quotient
<1>6. h * p = p * h
  BY <1>1
<1> HIDE DEF h
<1> QED
  BY <1>1, <1>2, <1>4, <1>5, <1>6, Quotient

-----------------------------------------------------------------------------
\* Evidence ages: what is stale at one instant is stale at every later one, so
\* a check that refused cannot be passed by asking again without new evidence.
THEOREM StaleStays ==
    ASSUME NEW stamped_at \in Instant, NEW now \in Instant, NEW later \in Instant,
           NEW max_age \in Nat, now <= later, get(stamped_at, later, max_age)
    PROVE  get(stamped_at, now, max_age)
<1> DEFINE since(t) == saturating_duration_since(t, stamped_at)
<1>1. /\ since(now) \in Nat /\ since(later) \in Nat
      /\ since(now) <= since(later)
  BY DEF Instant, saturating_duration_since, saturating_sub
<1>2. since(now) \div MILLI <= since(later) \div MILLI
  BY <1>1, TemporalAssumption, QuotientMonotone
<1>3. since(now) \div MILLI \in Nat /\ since(later) \div MILLI \in Nat
  BY <1>1, TemporalAssumption, Quotient
<1>4. age_ms(stamped_at, now) <= age_ms(stamped_at, later)
  BY <1>2, <1>3, TemporalAssumption DEF age_ms
<1>5. age_ms(stamped_at, now) \in Nat /\ age_ms(stamped_at, later) \in Nat
  BY <1>3, TemporalAssumption DEF age_ms
<1> QED
  BY <1>4, <1>5 DEF get, check_age

\* Command::within_deadline asks both the typed deadline and the kernel's bound
\* on the age; the deadline is the tighter of the two, whatever saturates, so a
\* command that meets its deadline is never refused for its age.
THEOREM DeadlineImpliesBound ==
    ASSUME NEW issued_at \in Instant, NEW now \in Instant,
           met(for_command(issued_at), now)
    PROVE  within_deadline(issued_at, now)
<1> DEFINE since == saturating_duration_since(now, issued_at)
<1> USE TemporalAssumption
<1>1. from_millis(99) <= 99 * MILLI
  BY DEF from_millis, Saturate
<1>2. now <= issued_at + 99 * MILLI
  BY <1>1 DEF met, for_command, saturating_add, from_millis, Saturate, COMMAND_MAX_AGE_MS, Instant
<1>3. since \in Nat /\ since <= 99 * MILLI
  BY <1>2 DEF saturating_duration_since, saturating_sub, Instant
<1>4. since < MILLI * 100
  BY <1>3
<1>5. since \div MILLI < 100 /\ since \div MILLI \in Nat
  BY <1>3, <1>4, QuotientBelow, Quotient
<1>6. age_ms(issued_at, now) < 100
  BY <1>5 DEF age_ms
<1> QED
  BY <1>6 DEF within_deadline, within_command_bound, CommandFresh, check_age, COMMAND_MAX_AGE_MS

\* Rate rounds down to whole hertz, so the period it gives back is never shorter
\* than the one it was made from: a loop of a second or less always admits a
\* computation that fits its period.
THEOREM RateAdmitsPeriod ==
    ASSUME NEW period \in 1 .. SECOND, NEW compute \in 0 .. period
    PROVE  admits(from_period_ns(period), compute)
<1>1. SECOND \in Nat /\ period \in Nat \ {0} /\ period <= SECOND
  BY TemporalAssumption
<1>2. SECOND \div period # 0 /\ period <= SECOND \div (SECOND \div period)
  BY <1>1, QuotientInverse
<1>3. SECOND \div (SECOND \div period) \in Nat
  BY <1>1, <1>2, Quotient
<1> QED
  BY <1>1, <1>2, <1>3 DEF admits, from_period_ns

-----------------------------------------------------------------------------
(* The worlds of a rack over the bodies C: those in down have been failed  *)
(* safe, and if late a miss is latched.                                    *)

\* A velocity is nowhere on its way to the body id.
Still(w, id) == w.body[id].command # "velocity" /\ w.setpoint[id] # "velocity"

Kept(C, down, late) ==
    {w \in Worlds(C) :
        /\ \A id \in C : w.body[id].command = "hold" => w.setpoint[id] # "velocity"
        /\ \A id \in down : Down(w.body[id]) /\ w.setpoint[id] = "none"
        /\ late => \A id \in C : Still(w, id)}

\* A leg leaves a world of the rack if its walk is refused by what is down.
LEMMA WalkedKept ==
    ASSUME NEW C, C \subseteq Id, NEW down, down \subseteq C, NEW late,
           NEW w \in Kept(C, down, late), w.error = "none",
           NEW id \in C, NEW walk, walk.stages \in {"none", "zero", "hold"},
           Left(id, w.body[id], walk, Attach(w.body[id], walk)),
           id \in down => Kind(w.body[id]) \notin walk.from
    PROVE  Walked(w, [id |-> id, walk |-> walk]) \in Kept(C, down, late)
  <1> DEFINE a == Attach(w.body[id], walk)
             x == Walked(w, [id |-> id, walk |-> walk])
  <1>1. walk.stages \in Setpoint
    BY DEF Setpoint
  <1>2. /\ a.body \in Sane(id) /\ a.error \in {"none", "Protocol", "Rejected"}
        /\ \/ a.body.command \in {w.body[id].command, "none"}
           \/ (a.body.command = "hold" /\ walk.stages = "hold" /\ a.error = "none")
        /\ Kind(w.body[id]) \notin walk.from => a.body = w.body[id] /\ a.error = "Protocol"
    BY DEF Left
  <1>3. w \in Worlds(C)
    BY DEF Kept
  <1>4. /\ x \in Worlds(C)
        /\ \A i \in C : x.body[i] = IF i = id THEN a.body ELSE w.body[i]
        /\ \A i \in C : x.setpoint[i] = IF i = id /\ a.error = "none" THEN walk.stages
                                                                     ELSE w.setpoint[i]
    BY <1>1, <1>3, WalkedIs
  <1> HIDE DEF a, x
  <1>5. ASSUME NEW i \in C, x.body[i].command = "hold" PROVE x.setpoint[i] # "velocity"
    BY <1>2, <1>4, <1>5 DEF Kept
  <1>6. ASSUME NEW i \in down PROVE Down(x.body[i]) /\ x.setpoint[i] = "none"
    BY <1>2, <1>4, <1>6 DEF Kept
  <1>7. ASSUME late, NEW i \in C PROVE Still(x, i)
    <2>1. w.body[i].command # "velocity" /\ w.setpoint[i] # "velocity"
      BY <1>7 DEF Kept, Still
    <2> QED BY <1>2, <1>4, <2>1 DEF Still
  <1>8. x \in Kept(C, down, late)
    BY <1>4, <1>5, <1>6, <1>7 DEF Kept
  <1> QED BY <1>8 DEF x

\* The ordinary legs over the bodies C.
Ordinary(C) == {t \in [id : C, walk : UNION {OrdinaryOf(id) : id \in Id}] :
                    t.walk \in OrdinaryOf(t.id)}

LEMMA OrdinaryLeg ==
    ASSUME NEW C, C \subseteq Id, NEW id \in C, NEW walk \in OrdinaryOf(id)
    PROVE  [id |-> id, walk |-> walk] \in Ordinary(C)
  BY DEF Ordinary

LEMMA CallKept ==
    ASSUME NEW C, C \subseteq Id, NEW down, down \subseteq C, NEW late,
           NEW w \in Kept(C, down, late), NEW legs \in Seq(Ordinary(C)),
           NEW r, Legs(w, legs, r)
    PROVE  r \in Kept(C, down, late)
  <1>1. ASSUME NEW x \in Kept(C, down, late), NEW t \in Ordinary(C), x.error = "none"
        PROVE  Walked(x, t) \in Kept(C, down, late)
    <2> DEFINE id == t.id
               k == t.walk
               b == x.body[id]
    <2>1. t = [id |-> id, walk |-> k] /\ id \in C /\ k \in OrdinaryOf(id)
      BY DEF Ordinary
    <2>2. b \in Sane(id)
      BY <2>1, WorldsAre DEF Kept
    <2> HIDE DEF id, k, b
    <2>3. /\ k.stages \in {"none", "zero", "hold"} /\ k.from \cap DownKinds = {}
          /\ Left(id, b, k, Attach(b, k))
      BY <2>1, <2>2, OrdinaryIs
    <2>4. id \in down => Kind(b) \notin k.from
      <3>1. SUFFICES ASSUME id \in down PROVE Kind(b) \in DownKinds
        BY <2>3
      <3>2. Down(b)
        BY <3>1 DEF Kept, b
      <3> QED BY <2>1, <2>2, <3>2, DownIs
    <2>5. Walked(x, [id |-> id, walk |-> k]) \in Kept(C, down, late)
      BY <1>1, <2>1, <2>3, <2>4, WalkedKept DEF b
    <2> QED BY <2>1, <2>5
  <1> QED BY <1>1, LegsIn

-----------------------------------------------------------------------------
(* The inductive invariant. *)

InvariantRack ==
    /\ Present \in Catalogs
    /\ Here \in Kept(Present, tripped, last_missed)
    /\ tripped \subseteq Present /\ last_missed \in BOOLEAN
    /\ wire \in Seq(Datagram)
    /\ MissStopsFleet /\ DrivenByThisFrame

LEMMA PresentIs ==
    ASSUME InvariantRack
    PROVE  /\ Present \subseteq Id /\ "drone" \in Present
           /\ Here.body = body /\ Here.setpoint = setpoint /\ Here.error = "none"
           /\ Here \in Worlds(Present)
           /\ \A id \in Present : body[id] \in Sane(id)
  <1>1. Present \subseteq Id /\ "drone" \in Present
    BY BoundsAssumption DEF InvariantRack
  <1>2. Here.body = body /\ Here.setpoint = setpoint /\ Here.error = "none"
    BY DEF Here
  <1>3. Here \in Worlds(Present)
    BY DEF InvariantRack, Kept
  <1> QED BY <1>1, <1>2, <1>3, WorldsAre

LEMMA HereIs ==
    ASSUME InvariantRack
    PROVE  /\ Here.body = [id \in Present |-> Here.body[id]]
           /\ Here.setpoint = [id \in Present |-> Here.setpoint[id]]
           /\ Here = [body |-> Here.body, setpoint |-> Here.setpoint, error |-> "none"]
  <1>1. Here \in Worlds(Present)
    BY PresentIs
  <1>2. Here.body = [id \in Present |-> Here.body[id]]
    BY <1>1, WorldsAre
  <1>3. Here.setpoint = [id \in Present |-> Here.setpoint[id]]
    BY <1>1, WorldsAre
  <1>4. Here = [body |-> Here.body, setpoint |-> Here.setpoint, error |-> "none"]
    BY DEF Here
  <1> QED BY <1>2, <1>3, <1>4

\* A step that leaves a world of the rack, and reports nothing false, keeps
\* the invariant.
LEMMA Rests ==
    ASSUME InvariantRack, NEW down, down \subseteq Present, NEW late \in BOOLEAN,
           NEW w \in Kept(Present, down, late),
           body' = w.body, setpoint' = w.setpoint, tripped' = down, last_missed' = late,
           wire' \in Seq(Datagram), MissStopsFleet', DrivenByThisFrame'
    PROVE  InvariantRack'
  <1>1. w \in Worlds(Present)
    BY DEF Kept
  <1>2. Present' = Present
    <2>1. DOMAIN w.body = Present
      BY <1>1, WorldsAre
    <2> QED BY <2>1 DEF Present
  <1> DEFINE x == [body |-> w.body, setpoint |-> w.setpoint, error |-> "none"]
  <1>3. Here' = x
    BY DEF Here
  <1>4. x \in Worlds(Present)
    <2>1. Present \subseteq Id
      BY PresentIs
    <2>2. /\ w.body = [id \in Present |-> w.body[id]]
          /\ w.setpoint = [id \in Present |-> w.setpoint[id]]
          /\ \A id \in Present : w.body[id] \in Sane(id) /\ w.setpoint[id] \in Setpoint
      BY <1>1, WorldsAre
    <2> QED BY <2>1, <2>2, WorldsMade
  <1>5. x.body = w.body /\ x.setpoint = w.setpoint
    OBVIOUS
  <1> HIDE DEF x
  <1>6. x \in Kept(Present, down, late)
    BY <1>4, <1>5 DEF Kept, Still
  <1> QED BY <1>2, <1>3, <1>6 DEF InvariantRack

LEMMA Unreported ==
    ASSUME NoFrame
    PROVE  MissStopsFleet' /\ DrivenByThisFrame'
  BY DEF NoFrame, MissStopsFleet, DrivenByThisFrame

LEMMA IfIn ==
    ASSUME NEW T, NEW id, NEW walk, id \in Present => [id |-> id, walk |-> walk] \in T
    PROVE  If(id, walk) \in Seq(T)
  BY DEF If, Leg

\* The legs of the calls are ordinary.
LEMMA OrdinaryCalls ==
    ASSUME InvariantRack
    PROVE  /\ grants \in Seq(Ordinary(Present))
           /\ Leg("drone", attach_airborne) \in Seq(Ordinary(Present))
           /\ Leg("drone", attach_land) \in Seq(Ordinary(Present))
           /\ Leg("drone", attach_hold) \in Seq(Ordinary(Present))
           /\ If("rover", attach_park) \in Seq(Ordinary(Present))
           /\ hulls(attach_station) \in Seq(Ordinary(Present))
           /\ hulls(attach_resume) \in Seq(Ordinary(Present))
           /\ hulls(attach_dock) \in Seq(Ordinary(Present))
  <1> DEFINE T == Ordinary(Present)
  <1>0. Present \subseteq Id /\ "drone" \in Present
    BY PresentIs
  <1>1. ASSUME NEW id \in Present, NEW walk \in OrdinaryOf(id)
        PROVE  [id |-> id, walk |-> walk] \in T
    BY <1>0, OrdinaryLeg
  <1> HIDE DEF T
  <1>2. ASSUME NEW walk \in {attach_takeoff, attach_airborne, attach_land, attach_hold}
        PROVE  Leg("drone", walk) \in Seq(T)
    <2>1. walk \in OrdinaryOf("drone")
      BY Domains DEF OrdinaryOf
    <2>2. [id |-> "drone", walk |-> walk] \in T
      BY <1>0, <1>1, <2>1
    <2> QED BY <2>2 DEF Leg
  <1>3. ASSUME NEW walk \in {attach_drive, attach_park}
        PROVE  If("rover", walk) \in Seq(T)
    <2>1. walk \in OrdinaryOf("rover")
      BY Domains DEF OrdinaryOf
    <2> QED BY <1>1, <2>1, IfIn
  <1>4. ASSUME NEW walk \in {attach_undock, attach_station, attach_resume, attach_dock}
        PROVE  hulls(walk) \in Seq(T)
    <2>1. walk \in OrdinaryOf("skiff") /\ walk \in OrdinaryOf("surveyor")
      BY Domains DEF OrdinaryOf
    <2>2. If("skiff", walk) \in Seq(T) /\ If("surveyor", walk) \in Seq(T)
      BY <1>1, <2>1, IfIn
    <2> QED BY <2>2, Concat DEF hulls
  <1>5. grants \in Seq(T)
    <2>1. /\ Leg("drone", attach_takeoff) \in Seq(T) /\ If("rover", attach_drive) \in Seq(T)
          /\ hulls(attach_undock) \in Seq(T)
      BY <1>2, <1>3, <1>4
    <2>2. Leg("drone", attach_takeoff) \o If("rover", attach_drive) \in Seq(T)
      BY <2>1, Concat
    <2> QED BY <2>1, <2>2, Concat DEF grants
  <1>6. /\ Leg("drone", attach_airborne) \in Seq(T) /\ Leg("drone", attach_land) \in Seq(T)
        /\ Leg("drone", attach_hold) \in Seq(T) /\ If("rover", attach_park) \in Seq(T)
    BY <1>2, <1>3
  <1>7. /\ hulls(attach_station) \in Seq(T) /\ hulls(attach_resume) \in Seq(T)
        /\ hulls(attach_dock) \in Seq(T)
    BY <1>4
  <1> QED BY <1>5, <1>6, <1>7 DEF T

\* A call keeps the invariant if its legs lead to a world of the rack.
LEMMA CallRests ==
    ASSUME InvariantRack, NEW legs, Call(legs),
           Follow(Here, legs) \in Kept(Present, tripped, last_missed)
    PROVE  InvariantRack'
  <1>1. /\ body' = Follow(Here, legs).body /\ setpoint' = Follow(Here, legs).setpoint
        /\ UNCHANGED <<last_missed, tripped, wire>> /\ NoFrame
    BY DEF Call, Now, Quiet
  <1>2. /\ tripped \subseteq Present /\ last_missed \in BOOLEAN /\ wire \in Seq(Datagram)
    BY DEF InvariantRack
  <1> QED BY <1>1, <1>2, Unreported, Rests

LEMMA OrdinaryRests ==
    ASSUME InvariantRack, NEW legs \in Seq(Ordinary(Present)), Call(legs)
    PROVE  InvariantRack'
  <1>1. Legs(Here, legs, Follow(Here, legs))
    BY FollowLegs
  <1>2. Present \subseteq Id /\ tripped \subseteq Present
        /\ Here \in Kept(Present, tripped, last_missed)
    BY PresentIs DEF InvariantRack
  <1>3. Follow(Here, legs) \in Kept(Present, tripped, last_missed)
    BY <1>1, <1>2, CallKept
  <1> QED BY <1>3, CallRests

\* A return lands first, which a drone that is down refuses.
LEMMA ReturnRests ==
    ASSUME InvariantRack, return_all
    PROVE  InvariantRack'
  <1> DEFINE C == Present
             K == Kept(Present, tripped, last_missed)
             land == [id |-> "drone", walk |-> attach_land]
             touch == [id |-> "drone", walk |-> attach_touchdown]
             T == Ordinary(Present) \cup {touch}
             a == Leg("drone", attach_land)
             b == Leg("drone", attach_touchdown)
             c == If("rover", attach_park)
             d == hulls(attach_dock)
             r == Follow(Here, returns)
  <1>0. /\ C \subseteq Id /\ "drone" \in C /\ tripped \subseteq C /\ Here \in K
        /\ Here.error = "none" /\ last_missed \in BOOLEAN
    BY PresentIs DEF InvariantRack
  <1>1. /\ a \in Seq(Ordinary(Present)) /\ c \in Seq(Ordinary(Present))
        /\ d \in Seq(Ordinary(Present))
    BY OrdinaryCalls
  <1>2. a \in Seq(T) /\ b \in Seq(T) /\ c \in Seq(T) /\ d \in Seq(T)
    <2>1. Seq(Ordinary(Present)) \subseteq Seq(T)
      OBVIOUS
    <2>2. touch \in T
      OBVIOUS
    <2> HIDE DEF T, a, c, d
    <2>3. b \in Seq(T)
      BY <2>2 DEF Leg
    <2> QED BY <1>1, <2>1, <2>3
  <1>3. a = <<land>> /\ b = <<touch>>
    BY DEF Leg
  <1>4. returns = a \o b \o c \o d
    BY DEF returns
  <1> HIDE DEF T, a, b, c, d, r, K, C, land, touch
  <1>5. a \o b \in Seq(T) /\ a \o b \o c \in Seq(T) /\ returns \in Seq(T)
    BY <1>2, <1>4, Concat
  <1>6. Legs(Here, a \o b \o c \o d, r)
    BY <1>4, <1>5, FollowLegs DEF r
  <1>7. PICK w3 : Legs(Here, a \o b \o c, w3) /\ Legs(w3, d, r)
    BY <1>2, <1>5, <1>6, LegsSplit
  <1>8. PICK w2 : Legs(Here, a \o b, w2) /\ Legs(w2, c, w3)
    BY <1>2, <1>5, <1>7, LegsSplit
  <1>9. PICK w1 : Legs(Here, a, w1) /\ Legs(w1, b, w2)
    BY <1>2, <1>8, LegsSplit
  <1>10. w1 \in K
    BY <1>0, <1>1, <1>9, CallKept DEF K, C
  <1>11. w1 = Legged(Here, land) /\ w2 = Legged(w1, touch)
    BY <1>3, <1>9, LegsOne
  <1>12. w2 \in K
    <2>1. CASE w1.error # "none"
      BY <1>10, <1>11, <2>1 DEF Legged
    <2>2. CASE w1.error = "none"
      <3>1. w1 = Walked(Here, [id |-> "drone", walk |-> attach_land])
        BY <1>0, <1>11 DEF Legged, land
      <3>2. Attach(body["drone"], attach_land).error = "none"
        <4>1. Here.body["drone"] = body["drone"]
          BY DEF Here
        <4> QED BY <2>2, <3>1, <4>1 DEF Walked
      <3>3. Kind(body["drone"]) \in {"Takeoff", "Airborne"}
        <4>1. attach_land.from = {"Takeoff", "Airborne"}
          BY DEF attach_land, Walk
        <4>2. SUFFICES ASSUME Kind(body["drone"]) \notin attach_land.from PROVE FALSE
          BY <4>1
        <4> QED BY <3>2, <4>2 DEF Attach
      <3>4. "drone" \notin tripped
        <4>1. SUFFICES ASSUME "drone" \in tripped PROVE FALSE
          OBVIOUS
        <4>2. Down(body["drone"]) /\ body["drone"] \in Sane("drone") /\ "drone" \in Id
          <5>1. Down(Here.body["drone"])
            BY <1>0, <4>1 DEF K, Kept
          <5> QED BY <1>0, <5>1, PresentIs DEF C
        <4>3. Kind(body["drone"]) \in DownKinds
          BY <4>2, DownIs
        <4> QED BY <3>3, <4>3 DEF DownKinds
      <3>5. w1.body["drone"] \in Sane("drone")
        BY <1>0, <1>10, WorldsAre DEF K, Kept, C
      <3>6. /\ Left("drone", w1.body["drone"], attach_touchdown,
                    Attach(w1.body["drone"], attach_touchdown))
            /\ attach_touchdown.stages = "none"
        BY <3>5, TouchdownLeft
      <3>7. Walked(w1, [id |-> "drone", walk |-> attach_touchdown]) \in K
        BY <1>0, <1>10, <2>2, <3>4, <3>6, WalkedKept DEF K, C
      <3> QED BY <1>11, <2>2, <3>7 DEF Legged, touch
    <2> QED BY <2>1, <2>2
  <1>13. w3 \in K
    BY <1>0, <1>1, <1>8, <1>12, CallKept DEF K, C
  <1>14. r \in K
    BY <1>0, <1>1, <1>7, <1>13, CallKept DEF K, C
  <1>15. Call(returns)
    BY DEF return_all
  <1> QED BY <1>14, <1>15, CallRests DEF r, K

\* A recovery takes no body to a velocity, and the bodies it did not reach are
\* as they were.
LEMMA RecoverRests ==
    ASSUME InvariantRack, recover_deadline
    PROVE  InvariantRack'
  <1> DEFINE C == Present
             K == {x \in Kept(Present, {}, last_missed) :
                      \A id \in tripped : x.setpoint[id] = "none"}
             T == {[id |-> id, walk |-> RecoverWalk(body[id])] : id \in Present}
  <1>0. /\ C \subseteq Id /\ "drone" \in C /\ tripped \subseteq C
        /\ last_missed \in BOOLEAN /\ wire \in Seq(Datagram)
        /\ \A id \in C : body[id] \in Sane(id) /\ body[id].id = id
    BY PresentIs, SaneIs DEF InvariantRack
  <1>1. Here \in K
    <2>1. Here \in Kept(Present, tripped, last_missed)
      BY DEF InvariantRack
    <2> QED BY <2>1 DEF Kept
  <1>2. recovers \in Seq(T)
    <2>1. \A id \in C : [id |-> id, walk |-> RecoverWalk(body[id])] \in T
      OBVIOUS
    <2> HIDE DEF T
    <2>2. Leg("drone", attach_recover_ready(body["drone"])) \in Seq(T)
      <3>1. RecoverWalk(body["drone"]) = attach_recover_ready(body["drone"])
        BY <1>0, Domains DEF RecoverWalk
      <3>2. [id |-> "drone", walk |-> attach_recover_ready(body["drone"])] \in T
        BY <1>0, <2>1, <3>1
      <3> QED BY <3>2 DEF Leg
    <2>3. If("rover", attach_reset) \in Seq(T)
      <3>1. "rover" \in C => RecoverWalk(body["rover"]) = attach_reset
        BY <1>0, Domains DEF RecoverWalk
      <3> QED BY <2>1, <3>1, IfIn
    <2>4. If("skiff", attach_recover) \in Seq(T)
      <3>1. "skiff" \in C => RecoverWalk(body["skiff"]) = attach_recover
        BY <1>0, Domains DEF RecoverWalk
      <3> QED BY <2>1, <3>1, IfIn
    <2>5. If("surveyor", attach_recover) \in Seq(T)
      <3>1. "surveyor" \in C => RecoverWalk(body["surveyor"]) = attach_recover
        BY <1>0, Domains DEF RecoverWalk
      <3> QED BY <2>1, <3>1, IfIn
    <2>6. hulls(attach_recover) \in Seq(T)
      BY <2>4, <2>5, Concat DEF hulls
    <2>7. Leg("drone", attach_recover_ready(body["drone"])) \o If("rover", attach_reset) \in Seq(T)
      BY <2>2, <2>3, Concat
    <2> QED BY <2>6, <2>7, Concat DEF recovers
  <1>3. ASSUME NEW x \in K, NEW t \in T, x.error = "none" PROVE Walked(x, t) \in K
    <2>1. PICK id \in C : t = [id |-> id, walk |-> RecoverWalk(body[id])]
      OBVIOUS
    <2> DEFINE walk == RecoverWalk(body[id])
    <2>2. walk.stages = "none" /\ walk.posts \in Seq(Calm(id))
      BY <1>0, RecoverCalm
    <2>3. x.body[id] \in Sane(id)
      BY WorldsAre DEF Kept
    <2> HIDE DEF walk
    <2>4. Left(id, x.body[id], walk, Attach(x.body[id], walk))
      BY <1>0, <2>2, <2>3, AttachCalm
    <2>5. Walked(x, [id |-> id, walk |-> walk]) \in Kept(Present, {}, last_missed)
      BY <1>0, <1>3, <2>2, <2>4, WalkedKept
    <2>6. \A i \in tripped : Walked(x, [id |-> id, walk |-> walk]).setpoint[i] = "none"
      <3> DEFINE e == Attach(x.body[id], walk).error
      <3>1. Walked(x, [id |-> id, walk |-> walk]).setpoint
              = IF e = "none" THEN [x.setpoint EXCEPT ![id] = "none"] ELSE x.setpoint
        BY <2>2 DEF Walked
      <3>2. x.setpoint = [i \in C |-> x.setpoint[i]] /\ \A i \in tripped : x.setpoint[i] = "none"
        <4>1. x \in Worlds(Present) /\ \A i \in tripped : x.setpoint[i] = "none"
          BY DEF Kept
        <4>2. ASSUME NEW S, x \in Worlds(S) PROVE x.setpoint = [i \in S |-> x.setpoint[i]]
          <5>1. x \in Worlds(S)
            BY <4>2
          <5> HIDE DEF K, T, walk, e, C
          <5> QED BY <5>1, WorldsAre
        <4> HIDE DEF K, T, walk, e
        <4> QED BY <4>1, <4>2
      <3> HIDE DEF e
      <3> QED BY <1>0, <3>1, <3>2
    <2> QED BY <2>1, <2>5, <2>6 DEF walk
  <1> DEFINE w == Follow(Here, recovers)
  <1>4. w \in K
    <2> HIDE DEF K, T
    <2>1. Legs(Here, recovers, w)
      BY <1>2, FollowLegs
    <2> HIDE DEF w
    <2> QED BY <1>1, <1>2, <1>3, <2>1, LegsIn
  <1>5. /\ body' = w.body /\ setpoint' = w.setpoint
        /\ last_missed' = (last_missed /\ w.error # "none")
        /\ tripped' = IF w.error = "none" THEN {} ELSE {id \in tripped : w.body[id] = body[id]}
        /\ wire' = wire /\ NoFrame
    BY DEF recover_deadline, Now, Quiet
  <1> HIDE DEF w
  <1>6. CASE w.error = "none"
    <2>1. w \in Kept(Present, {}, FALSE)
      BY <1>4 DEF Kept
    <2>2. tripped' = {} /\ last_missed' = FALSE /\ wire' \in Seq(Datagram)
      BY <1>0, <1>5, <1>6
    <2> QED BY <1>5, <2>1, <2>2, Unreported, Rests
  <1>7. CASE w.error # "none"
    <2> DEFINE down == {id \in tripped : w.body[id] = body[id]}
    <2>1. \A id \in down : Down(w.body[id]) /\ w.setpoint[id] = "none"
      <3>1. \A id \in tripped : Down(Here.body[id])
        BY DEF InvariantRack, Kept
      <3> QED BY <1>4, <3>1 DEF Here
    <2>2. down \subseteq Present
      BY <1>0
    <2>3. tripped' = down /\ last_missed' = last_missed /\ wire' \in Seq(Datagram)
      BY <1>0, <1>5, <1>7
    <2> HIDE DEF down
    <2>4. w \in Kept(Present, down, last_missed)
      BY <1>4, <2>1 DEF Kept
    <2> QED BY <1>0, <1>5, <2>2, <2>3, <2>4, Unreported, Rests
  <1> QED BY <1>6, <1>7

LEMMA InjectRests ==
    ASSUME InvariantRack, NEW e, inject(e)
    PROVE  InvariantRack'
  <1> DEFINE x == inject_revoke(body["drone"], e).body
             w == [body |-> [body EXCEPT !["drone"] = x], setpoint |-> setpoint, error |-> "none"]
  <1>0. /\ Present \subseteq Id /\ "drone" \in Present /\ tripped \subseteq Present
        /\ last_missed \in BOOLEAN /\ wire \in Seq(Datagram)
        /\ Here \in Kept(Present, tripped, last_missed) /\ Here \in Worlds(Present)
        /\ \A id \in Present : body[id] \in Sane(id)
    BY PresentIs DEF InvariantRack
  <1>1. /\ x \in Sane("drone") /\ x.command \in {body["drone"].command, "none"}
        /\ Down(body["drone"]) => Down(x)
    BY <1>0, InjectLeft
  <1>2. /\ body = [i \in Present |-> body[i]] /\ setpoint = [i \in Present |-> setpoint[i]]
        /\ \A i \in Present : setpoint[i] \in Setpoint
    <2>1. Here.body = body /\ Here.setpoint = setpoint
      BY DEF Here
    <2>2. \A i \in Present : Here.setpoint[i] \in Setpoint
      BY <1>0, WorldsAre
    <2> QED BY <2>1, <2>2, HereIs
  <1>3. /\ body' = w.body /\ setpoint' = w.setpoint /\ wire' = wire /\ NoFrame
        /\ last_missed' = last_missed /\ tripped' = tripped
    BY DEF inject, Quiet
  <1> HIDE DEF x
  <1>4. /\ w.body = [i \in Present |-> w.body[i]] /\ w.setpoint = setpoint
        /\ \A i \in Present : w.body[i] = IF i = "drone" THEN x ELSE body[i]
    BY <1>2
  <1>5. w = [body |-> w.body, setpoint |-> w.setpoint, error |-> "none"]
    OBVIOUS
  <1> HIDE DEF w
  <1>6. \A i \in Present : w.body[i] \in Sane(i)
    BY <1>0, <1>1, <1>4
  <1>7. w \in Worlds(Present)
    BY <1>0, <1>2, <1>4, <1>5, <1>6, WorldsMade
  <1>8. /\ \A i \in Present : body[i].command = "hold" => setpoint[i] # "velocity"
        /\ \A i \in tripped : Down(body[i]) /\ setpoint[i] = "none"
        /\ last_missed => \A i \in Present : body[i].command # "velocity" /\ setpoint[i] # "velocity"
    BY <1>0 DEF Kept, Here, Still
  <1>9. \A i \in Present : w.body[i].command = "hold" => w.setpoint[i] # "velocity"
    BY <1>1, <1>4, <1>8
  <1>10. \A i \in tripped : Down(w.body[i]) /\ w.setpoint[i] = "none"
    BY <1>0, <1>1, <1>4, <1>8
  <1>11. last_missed => \A i \in Present : Still(w, i)
    BY <1>1, <1>4, <1>8 DEF Still
  <1>12. w \in Kept(Present, tripped, last_missed)
    BY <1>7, <1>9, <1>10, <1>11 DEF Kept
  <1>13. wire' \in Seq(Datagram)
    BY <1>0, <1>3
  <1> QED BY <1>0, <1>3, <1>12, <1>13, Unreported, Rests

LEMMA SubSeqIn ==
    ASSUME NEW T, NEW s \in Seq(T), NEW m \in Nat \ {0}, NEW n \in Nat, n <= Len(s)
    PROVE  SubSeq(s, m, n) \in Seq(T)
  OBVIOUS

\* A step that leaves the fleet alone and reports nothing.
LEMMA SendRests ==
    ASSUME InvariantRack, NEW d \in Datagrams, send_command(d)
    PROVE  InvariantRack'
  <1>1. wire' \in Seq(Datagram)
    <2>1. wire \in Seq(Datagram) /\ d \in Datagram
      BY BoundsAssumption DEF InvariantRack
    <2>2. CASE wire' = wire
      BY <2>1, <2>2
    <2>3. CASE \E i \in 0..Len(wire) :
                 wire' = SubSeq(wire, 1, i) \o <<d>> \o SubSeq(wire, i + 1, Len(wire))
      <3>1. PICK i \in 0..Len(wire) :
                 wire' = SubSeq(wire, 1, i) \o <<d>> \o SubSeq(wire, i + 1, Len(wire))
        BY <2>3
      <3>2. Len(wire) \in Nat
        BY <2>1
      <3>3. SubSeq(wire, 1, i) \in Seq(Datagram) /\ SubSeq(wire, i + 1, Len(wire)) \in Seq(Datagram)
        BY <2>1, <3>2, SubSeqIn
      <3>4. <<d>> \in Seq(Datagram)
        BY <2>1
      <3>5. SubSeq(wire, 1, i) \o <<d>> \in Seq(Datagram)
        BY <3>3, <3>4, Concat
      <3> QED BY <3>1, <3>3, <3>5, Concat
    <2> QED BY <2>2, <2>3 DEF send_command
  <1>2. /\ body' = Here.body /\ setpoint' = Here.setpoint /\ tripped' = tripped
        /\ last_missed' = last_missed /\ NoFrame
    BY DEF send_command, Here
  <1>3. /\ tripped \subseteq Present /\ last_missed \in BOOLEAN
        /\ Here \in Kept(Present, tripped, last_missed)
    BY DEF InvariantRack
  <1> QED BY <1>1, <1>2, <1>3, Unreported, Rests

\* A nonempty set of positions has a last one.
LEMMA LastExists ==
    ASSUME NEW n \in Nat, NEW S, S \subseteq 1..n, S # {}
    PROVE  \E i \in S : \A j \in S : j <= i
  <1> DEFINE U == {m \in Nat : \A R \in SUBSET (1..m) :
                      R # {} => \E i \in R : \A j \in R : j <= i}
  <1>1. 0 \in U
    <2>1. 1..0 = {}
      OBVIOUS
    <2> QED BY <2>1
  <1>2. ASSUME NEW m \in Nat, m \in U PROVE m + 1 \in U
    <2>1. SUFFICES ASSUME NEW R \in SUBSET (1..(m + 1)), R # {}
                   PROVE  \E i \in R : \A j \in R : j <= i
      OBVIOUS
    <2>2. CASE m + 1 \in R
      BY <2>1, <2>2
    <2>3. CASE m + 1 \notin R
      <3>1. R \in SUBSET (1..m)
        BY <2>1, <2>3
      <3> QED BY <1>2, <2>1, <3>1
    <2> QED BY <2>2, <2>3
  <1>3. Nat \subseteq U
    <2> HIDE DEF U
    <2> QED BY <1>1, <1>2, SetInduction
  <1> QED BY <1>3

\* What a drain gives each slot is a velocity, zero or no number.
LEMMA DrainedIs ==
    ASSUME NEW ds \in Seq(Datagram)
    PROVE  from_fch1(ds) \in [Id -> Value]
  <1>1. ASSUME NEW id \in Id PROVE from_fch1(ds)[id] \in Value
    <2> DEFINE S == {i \in DOMAIN ds : ds[i].slot = id}
               last == CHOOSE i \in S : \A j \in S : j <= i
    <2>1. from_fch1(ds)[id] = IF S = {} THEN "zero"
                              ELSE IF ds[last].apply THEN ds[last].velocity ELSE "zero"
      BY DEF from_fch1
    <2>2. CASE S = {}
      BY <2>1, <2>2 DEF Value
    <2>3. CASE S # {}
      <3>1. Len(ds) \in Nat /\ S \subseteq 1..Len(ds)
        OBVIOUS
      <3> HIDE DEF S
      <3>2. last \in S
        BY <2>3, <3>1, LastExists
      <3> HIDE DEF last
      <3>3. ds[last] \in Datagram
        BY <3>1, <3>2
      <3> QED BY <2>1, <2>3, <3>3 DEF Datagram, Value
    <2> QED BY <2>2, <2>3
  <1> QED BY <1>1 DEF from_fch1

-----------------------------------------------------------------------------
(* A miss. *)

\* The walk that trips the body b.
TripWalk(b) ==
    IF Attach(b, FailsafeWalk(b.id)).error = "Protocol"
      THEN Walk({Kind(b)}, FALSE, <<FailsafeEvent(b.id)>>, "none")
      ELSE FailsafeWalk(b.id)

\* A walk of the one event that fails a body safe.
LEMMA FellWalk ==
    ASSUME NEW id \in Id, NEW b \in Sane(id), NEW walk,
           Kind(b) \in walk.from, ~walk.live, walk.posts = <<FailsafeEvent(id)>>,
           walk.stages = "none"
    PROVE  \E x \in Sane(id) : Felled(x) /\ Attach(b, walk) = Fresh(x)
  <1> DEFINE e == FailsafeEvent(id)
             x == Post(b, e)
  <1>1. Admits(b, e) /\ x \in Sane(id) /\ Felled(x)
    <2>1. e = CASE Domain(id) = "aerial" -> "TriggerFailsafe" [] Domain(id) = "ground" -> "EStop"
                [] Domain(id) = "marine" -> "Failsafe"
      BY DEF FailsafeEvent
    <2> HIDE DEF e
    <2> QED BY <2>1, FellTaken
  <1>2. Posted(b, walk.posts) = Fresh(x)
    BY <1>1, PostedOne, GivenTaken
  <1>3. Attach(b, walk) = Fresh(Settled(x, walk))
    BY <1>2, AttachTaken
  <1> HIDE DEF e, x
  <1>4. /\ x = [id |-> id, safety |-> x.safety, command |-> x.command]
        /\ x.command = "none"
    BY <1>1, SaneIs DEF Felled
  <1>5. [x EXCEPT !.command = "none"] = x
    BY <1>4
  <1>6. Settled(x, walk) \in {x, [x EXCEPT !.command = "none"]}
    BY DEF Settled
  <1> QED BY <1>1, <1>3, <1>5, <1>6

LEMMA TripTaken ==
    ASSUME NEW id \in Id, NEW b \in Sane(id)
    PROVE  /\ TripWalk(b).stages = "none"
           /\ \E x \in Sane(id) : Felled(x) /\ Attach(b, TripWalk(b)) = Fresh(x)
  <1> DEFINE f == FailsafeWalk(id)
             g == Walk({Kind(b)}, FALSE, <<FailsafeEvent(id)>>, "none")
  <1>0. b.id = id
    BY SaneIs
  <1>1. ~f.live /\ f.posts = <<FailsafeEvent(id)>> /\ f.stages = "none"
    <2>1. CASE id = "drone"
      BY <2>1, Domains DEF FailsafeWalk, FailsafeEvent, attach_failsafe, Walk
    <2>2. CASE id = "rover"
      BY <2>2, Domains DEF FailsafeWalk, FailsafeEvent, attach_estop, Walk
    <2>3. CASE id \in {"skiff", "surveyor"}
      BY <2>3, Domains DEF FailsafeWalk, FailsafeEvent, attach_marine_failsafe, Walk
    <2> QED BY <2>1, <2>2, <2>3, Domains
  <1>2. /\ Kind(b) \in g.from /\ ~g.live /\ g.posts = <<FailsafeEvent(id)>>
        /\ g.stages = "none"
    BY DEF Walk
  <1>3. TripWalk(b) = IF Attach(b, f).error = "Protocol" THEN g ELSE f
    BY <1>0 DEF TripWalk
  <1> HIDE DEF f, g
  <1>4. CASE Kind(b) \in f.from
    <2>1. PICK x \in Sane(id) : Felled(x) /\ Attach(b, f) = Fresh(x)
      BY <1>1, <1>4, FellWalk
    <2>2. TripWalk(b) = f
      BY <1>3, <2>1 DEF Fresh
    <2> QED BY <1>1, <2>1, <2>2
  <1>5. CASE Kind(b) \notin f.from
    <2>1. Attach(b, f) = [body |-> b, error |-> "Protocol"]
      BY <1>5 DEF Attach
    <2>2. TripWalk(b) = g
      BY <1>3, <2>1
    <2>3. PICK x \in Sane(id) : Felled(x) /\ Attach(b, g) = Fresh(x)
      BY <1>2, FellWalk
    <2> QED BY <1>2, <2>2, <2>3
  <1> QED BY <1>4, <1>5

\* Whatever the bodies are at, all of them are tripped.
LEMMA TripFells ==
    ASSUME Present \subseteq Id, NEW w \in Worlds(Present), w.error = "none",
           NEW r, r = trip_deadline_failsafe(w)
    PROVE  /\ r \in Worlds(Present) /\ r.error = "none"
           /\ \A id \in Present : Felled(r.body[id]) /\ r.setpoint[id] = "none"
  <1> DEFINE C == Present
             walks == [id \in Id |-> TripWalk(w.body[id])]
  <1>1. /\ w.body = [id \in C |-> w.body[id]] /\ w.setpoint = [id \in C |-> w.setpoint[id]]
        /\ w = [body |-> w.body, setpoint |-> w.setpoint, error |-> "none"]
        /\ \A id \in C : w.body[id] \in Sane(id)
    BY WorldsAre
  <1>2. \A id \in Id : walks[id] = TripWalk(w.body[id])
    OBVIOUS
  <1> HIDE DEF walks
  <1>3. \A id \in C : /\ Attach(w.body[id], walks[id]).error = "none"
                      /\ Attach(w.body[id], walks[id]).body \in Sane(id)
                      /\ Felled(Attach(w.body[id], walks[id]).body)
                      /\ walks[id].stages = "none"
    <2>1. SUFFICES ASSUME NEW id \in C
                   PROVE  /\ Attach(w.body[id], walks[id]).error = "none"
                          /\ Attach(w.body[id], walks[id]).body \in Sane(id)
                          /\ Felled(Attach(w.body[id], walks[id]).body)
                          /\ walks[id].stages = "none"
      OBVIOUS
    <2> DEFINE b == w.body[id]
    <2>2. b \in Sane(id) /\ id \in Id /\ walks[id] = TripWalk(b)
      BY <1>1, <1>2
    <2> HIDE DEF b
    <2>3. PICK x \in Sane(id) : Felled(x) /\ Attach(b, TripWalk(b)) = Fresh(x)
      BY <2>2, TripTaken
    <2>4. TripWalk(b).stages = "none"
      BY <2>2, TripTaken
    <2> QED BY <2>2, <2>3, <2>4 DEF Fresh, b
  <1>4. \A id \in Id : Trip(w, id) = Opt(C, walks, id)
    <2>1. SUFFICES ASSUME NEW id \in Id, id \in C PROVE trip(w.body[id]) = Leg(id, walks[id])
      BY DEF Trip, Opt
    <2>2. w.body[id].id = id
      BY <1>1, <2>1, SaneIs
    <2> QED BY <1>2, <2>1, <2>2 DEF trip, TripWalk
  <1>5. Fanned(C, w, walks, C, r)
    <2>1. r = Follow(w, Trip(w, "drone") \o Trip(w, "rover") \o Trip(w, "skiff")
                          \o Trip(w, "surveyor"))
      BY DEF trip_deadline_failsafe
    <2>2. \A id \in {"drone", "rover", "skiff", "surveyor"} : Trip(w, id) = Opt(C, walks, id)
      BY <1>4, Domains
    <2>3. Fanned(C, w, walks, C, Follow(w, Opt(C, walks, "drone") \o Opt(C, walks, "rover")
                                   \o Opt(C, walks, "skiff") \o Opt(C, walks, "surveyor")))
      BY <1>1, <1>3, FanFollow
    <2> QED BY <2>1, <2>2, <2>3
  <1>6. /\ r = [body |-> r.body, setpoint |-> r.setpoint, error |-> "none"]
        /\ r.body = [id \in C |-> Attach(w.body[id], walks[id]).body]
        /\ r.setpoint = [id \in C |-> walks[id].stages]
    BY <1>5 DEF Fanned
  <1>7. /\ \A id \in C : r.body[id] = Attach(w.body[id], walks[id]).body
        /\ \A id \in C : r.setpoint[id] = walks[id].stages
        /\ r.body = [id \in C |-> r.body[id]]
        /\ r.setpoint = [id \in C |-> r.setpoint[id]]
    BY <1>6
  <1>8. \A id \in C : /\ r.body[id] \in Sane(id) /\ Felled(r.body[id])
                      /\ r.setpoint[id] = "none" /\ r.setpoint[id] \in Setpoint
    BY <1>3, <1>7 DEF Setpoint
  <1>9. r \in Worlds(C)
    BY <1>6, <1>7, <1>8, WorldsMade
  <1> QED BY <1>6, <1>8, <1>9

\* From there every body recovers.
LEMMA FelledRecovers ==
    ASSUME NEW C, C \subseteq Id, "drone" \in C, NEW w \in Worlds(C), w.error = "none",
           \A id \in C : Felled(w.body[id]),
           NEW a, a = Leg("drone", attach_recover_ready(w.body["drone"])),
           NEW b, b = IF "rover" \in C THEN Leg("rover", attach_reset) ELSE << >>,
           NEW c, c = IF "skiff" \in C THEN Leg("skiff", attach_recover) ELSE << >>,
           NEW d, d = IF "surveyor" \in C THEN Leg("surveyor", attach_recover) ELSE << >>
    PROVE  Follow(w, a \o b \o (c \o d)).error = "none"
  <1> DEFINE walks == [id \in Id |-> RecoverWalk(w.body[id])]
  <1>1. /\ w.body = [id \in C |-> w.body[id]] /\ w.setpoint = [id \in C |-> w.setpoint[id]]
        /\ w = [body |-> w.body, setpoint |-> w.setpoint, error |-> "none"]
        /\ \A id \in C : w.body[id] \in Sane(id)
    BY WorldsAre
  <1>2. \A id \in Id : walks[id] = RecoverWalk(w.body[id])
    OBVIOUS
  <1> HIDE DEF walks
  <1>3. ASSUME NEW id \in C PROVE Attach(w.body[id], walks[id]).error = "none"
    <2> DEFINE x == w.body[id]
    <2>1. x \in Sane(id) /\ id \in Id /\ walks[id] = RecoverWalk(x) /\ Felled(x)
      BY <1>1, <1>2
    <2> HIDE DEF x
    <2>2. Attach(x, RecoverWalk(x)).error = "none"
      BY <2>1, RecoverTaken
    <2> QED BY <2>1, <2>2 DEF x
  <1>4. /\ a = Opt(C, walks, "drone") /\ b = Opt(C, walks, "rover")
        /\ c = Opt(C, walks, "skiff") /\ d = Opt(C, walks, "surveyor")
    <2>1. \A id \in C : w.body[id].id = id
      BY <1>1, SaneIs
    <2>2. a = Opt(C, walks, "drone")
      BY <1>2, <2>1, Domains DEF Opt, RecoverWalk
    <2>3. b = Opt(C, walks, "rover")
      BY <1>2, <2>1, Domains DEF Opt, RecoverWalk
    <2>4. c = Opt(C, walks, "skiff")
      BY <1>2, <2>1, Domains DEF Opt, RecoverWalk
    <2>5. d = Opt(C, walks, "surveyor")
      BY <1>2, <2>1, Domains DEF Opt, RecoverWalk
    <2> QED BY <2>2, <2>3, <2>4, <2>5
  <1>5. Fanned(C, w, walks, C, Follow(w, a \o b \o (c \o d)))
    BY <1>1, <1>3, <1>4, FanFollow
  <1> DEFINE r == Follow(w, a \o b \o (c \o d))
  <1>6. r = [body |-> r.body, setpoint |-> r.setpoint, error |-> "none"]
    BY <1>5 DEF Fanned
  <1> HIDE DEF r
  <1>7. r.error = "none"
    BY <1>6
  <1> QED BY <1>7 DEF r

-----------------------------------------------------------------------------
(* A frame. *)

\* What the frame wrote to a body in motion is what it was commanded, or it
\* was left as it was, at no velocity.
Poised(w, commands, id) ==
    actuators_granted(w.body[id]) =>
        w.setpoint[id] = commands[id] \/ Still(w, id)

\* A body that is driven is driven by the commands.
Driving(w, commands) ==
    \A id \in Present :
        actuators_granted(w.body[id]) /\ w.body[id].command = "velocity"
          => commands[id] = "velocity"

\* A drone that holds still does, or is commanded nothing.
Holds(w) == w.body["drone"].command \in {"hold", "none"}

Holding(commands) ==
    setpoint["drone"] = "hold" /\ body["drone"].command = "hold" /\ commands["drone"] = "zero"

\* A body that is down is not written to, nor one that is not in motion.
LEMMA WritableIs ==
    ASSUME NEW id \in Id, NEW b \in Sane(id), NEW v
    PROVE  /\ Writable(b, v) => Kind(b) \in Drivable /\ ~Down(b)
           /\ actuators_granted(b) /\ ~Writable(b, v)
                => b.command = "hold" /\ id = "drone" /\ v # "velocity"
           /\ id = "drone" /\ b.command = "hold" /\ v # "velocity" => ~Writable(b, v)
  <1>1. b.id = id
    BY SaneIs
  <1>2. Writable(b, v) => Kind(b) \in Drivable
    BY DEF Writable, Drivable
  <1>3. Down(b) => Kind(b) \in DownKinds
    BY DownIs
  <1>4. Drivable \cap DownKinds = {}
    BY DEF Drivable, OffboardControl, DownKinds
  <1>5. actuators_granted(b) => Kind(b) \in Drivable
    BY LiveIs
  <1>6. Writable(b, v) \/ Kind(b) \notin Drivable
          \/ (b.id = "drone" /\ b.command = "hold" /\ v # "velocity")
    BY DEF Writable, Drivable
  <1>7. b.id = "drone" /\ b.command = "hold" /\ v # "velocity" => ~Writable(b, v)
    BY DEF Writable
  <1> QED BY <1>1, <1>2, <1>3, <1>4, <1>5, <1>6, <1>7

\* The commands are taken by every body they are written to.
LEMMA WrittenIs ==
    ASSUME InvariantRack, NEW commands, \A id \in Id : commands[id] \in {"zero", "velocity"},
           ~last_missed, NEW r, r = Written(commands)
    PROVE  /\ r \in Worlds(Present) /\ r.error = "none"
           /\ \A id \in Present :
                \/ /\ Writable(body[id], commands[id])
                   /\ r.setpoint[id] = commands[id]
                \/ /\ ~Writable(body[id], commands[id])
                   /\ r.body[id] = body[id] /\ r.setpoint[id] = setpoint[id]
  <1> DEFINE C == Present
             go == {id \in Present : Writable(body[id], commands[id])}
             walks == [id \in Id |-> [Command(body[id]) EXCEPT !.stages = commands[id]]]
             w == Here
  <1>0. /\ Present \subseteq Id /\ Here \in Worlds(Present) /\ Here.error = "none"
        /\ Here.body = body /\ Here.setpoint = setpoint
        /\ \A id \in Present : body[id] \in Sane(id)
    BY PresentIs
  <1>1. /\ w.body = [id \in C |-> w.body[id]] /\ w.setpoint = [id \in C |-> w.setpoint[id]]
        /\ w = [body |-> w.body, setpoint |-> w.setpoint, error |-> "none"]
    <2>1. /\ Here.body = [id \in Present |-> Here.body[id]]
          /\ Here.setpoint = [id \in Present |-> Here.setpoint[id]]
          /\ Here = [body |-> Here.body, setpoint |-> Here.setpoint, error |-> "none"]
      BY HereIs
    <2> QED BY <2>1
  <1>2. \A id \in Id : walks[id] = [Command(body[id]) EXCEPT !.stages = commands[id]]
    OBVIOUS
  <1>3. go \subseteq C
    OBVIOUS
  <1>4. \A id \in C : id \in go <=> Writable(body[id], commands[id])
    OBVIOUS
  <1> HIDE DEF walks, go
  <1>5. ASSUME NEW id \in go
        PROVE  /\ Attach(body[id], walks[id]).error = "none"
               /\ Attach(body[id], walks[id]).body \in Sane(id)
               /\ walks[id].stages = commands[id]
    <2> DEFINE b == body[id]
               walk == [Command(b) EXCEPT !.stages = commands[id]]
    <2>1. /\ b \in Sane(id) /\ id \in Id /\ walks[id] = walk
          /\ Writable(b, commands[id])
      BY <1>0, <1>2, <1>3, <1>4
    <2> HIDE DEF b
    <2>2. Kind(b) \in Drivable
      BY <2>1, WritableIs
    <2>3. /\ Attach(b, walk).error = "none" /\ Left(id, b, walk, Attach(b, walk))
          /\ walk.stages = commands[id]
      BY <2>1, <2>2, CommandTaken
    <2> HIDE DEF walk
    <2>4. Attach(b, walk).body \in Sane(id)
      BY <2>3 DEF Left
    <2> QED BY <2>1, <2>3, <2>4 DEF b
  <1>6. \A id \in go : Attach(w.body[id], walks[id]).error = "none"
    BY <1>0, <1>5
  <1>7. \A id \in Id : write(id, commands[id]) = Opt(go, walks, id)
    <2>1. \A id \in Id : id \in go <=> (id \in C /\ Writable(body[id], commands[id]))
      BY <1>3, <1>4
    <2> QED BY <1>2, <2>1 DEF write, Opt
  <1>8. Fanned(C, w, walks, go, r)
    <2>1. r = Follow(Here, write("drone", commands["drone"]) \o write("rover", commands["rover"])
                \o write("skiff", commands["skiff"]) \o write("surveyor", commands["surveyor"]))
      BY DEF Written, write_granted_setpoints
    <2>2. \A id \in {"drone", "rover", "skiff", "surveyor"} :
            write(id, commands[id]) = Opt(go, walks, id)
      BY <1>7, Domains
    <2>3. Fanned(C, w, walks, go, Follow(w, Opt(go, walks, "drone") \o Opt(go, walks, "rover")
                                   \o Opt(go, walks, "skiff") \o Opt(go, walks, "surveyor")))
      BY <1>0, <1>1, <1>3, <1>6, FanFollow
    <2> QED BY <2>1, <2>2, <2>3
  <1>9. /\ r = [body |-> r.body, setpoint |-> r.setpoint, error |-> "none"]
        /\ r.body = [id \in C |-> IF id \in go THEN Attach(w.body[id], walks[id]).body
                                               ELSE w.body[id]]
        /\ r.setpoint = [id \in C |-> IF id \in go THEN walks[id].stages ELSE w.setpoint[id]]
    BY <1>8 DEF Fanned
  <1>10. /\ r.body = [id \in C |-> r.body[id]] /\ r.setpoint = [id \in C |-> r.setpoint[id]]
         /\ \A id \in C : r.body[id] = IF id \in go THEN Attach(w.body[id], walks[id]).body
                                                    ELSE w.body[id]
         /\ \A id \in C : r.setpoint[id] = IF id \in go THEN walks[id].stages
                                                        ELSE w.setpoint[id]
    BY <1>9
  <1>11. \A id \in C : setpoint[id] \in Setpoint
    BY <1>0, WorldsAre
  <1> HIDE DEF w
  <1>12. w.body = body /\ w.setpoint = setpoint
    BY <1>0 DEF w
  <1>13. ASSUME NEW id \in C
         PROVE  /\ r.body[id] \in Sane(id) /\ r.setpoint[id] \in Setpoint
                /\ \/ /\ Writable(body[id], commands[id])
                      /\ r.setpoint[id] = commands[id]
                   \/ /\ ~Writable(body[id], commands[id])
                      /\ r.body[id] = body[id] /\ r.setpoint[id] = setpoint[id]
    <2>0. id \in Id /\ commands[id] \in Setpoint
      BY <1>0 DEF Setpoint
    <2>1. CASE id \in go
      <3>1. r.body[id] = Attach(body[id], walks[id]).body /\ r.setpoint[id] = walks[id].stages
        BY <1>10, <1>12, <2>1
      <3> QED BY <1>4, <1>5, <2>0, <2>1, <3>1
    <2>2. CASE id \notin go
      <3>1. r.body[id] = body[id] /\ r.setpoint[id] = setpoint[id]
        BY <1>10, <1>12, <2>2
      <3> QED BY <1>0, <1>4, <1>11, <2>2, <3>1
    <2> QED BY <2>1, <2>2
  <1>14. r \in Worlds(C)
    <2>1. \A id \in C : r.body[id] \in Sane(id) /\ r.setpoint[id] \in Setpoint
      BY <1>13
    <2> QED BY <1>0, <1>9, <1>10, <2>1, WorldsMade
  <1> QED BY <1>9, <1>13, <1>14

\* What is written before the flush.
LEMMA WrittenPoised ==
    ASSUME InvariantRack, NEW commands, \A id \in Id : commands[id] \in {"zero", "velocity"},
           NEW r, r = Written(commands)
    PROVE  /\ r \in Worlds(Present) /\ r.error = "none"
           /\ \A id \in tripped : Down(r.body[id]) /\ r.setpoint[id] = "none"
           /\ last_missed => \A id \in Present : Still(r, id)
           /\ \A id \in Present : Poised(r, commands, id)
           /\ Holding(commands) => /\ r.body["drone"].command = "hold"
                                   /\ r.setpoint["drone"] = "hold"
  <1>0. /\ Present \subseteq Id /\ "drone" \in Present /\ tripped \subseteq Present
        /\ Here \in Kept(Present, tripped, last_missed)
        /\ Here \in Worlds(Present) /\ Here.error = "none"
        /\ Here.body = body /\ Here.setpoint = setpoint /\ last_missed \in BOOLEAN
        /\ \A id \in Present : body[id] \in Sane(id)
    BY PresentIs DEF InvariantRack
  <1>1. /\ \A id \in Present : body[id].command = "hold" => setpoint[id] # "velocity"
        /\ \A id \in tripped : Down(body[id]) /\ setpoint[id] = "none"
        /\ last_missed => \A id \in Present : Still(Here, id)
    BY <1>0 DEF Kept
  <1>2. CASE last_missed
    <2>1. r = Here
      BY <1>2 DEF Written
    <2>2. \A id \in Present : Poised(r, commands, id)
      BY <1>1, <1>2, <2>1 DEF Poised
    <2>3. \A id \in tripped : Down(r.body[id]) /\ r.setpoint[id] = "none"
      BY <1>0, <1>1, <2>1
    <2>4. Holding(commands) => r.body["drone"].command = "hold" /\ r.setpoint["drone"] = "hold"
      BY <1>0, <2>1 DEF Holding
    <2> QED BY <1>0, <1>1, <2>1, <2>2, <2>3, <2>4
  <1>3. CASE ~last_missed
    <2>1. /\ r \in Worlds(Present) /\ r.error = "none"
          /\ \A id \in Present :
                \/ /\ Writable(body[id], commands[id])
                   /\ r.setpoint[id] = commands[id]
                \/ /\ ~Writable(body[id], commands[id])
                   /\ r.body[id] = body[id] /\ r.setpoint[id] = setpoint[id]
      BY <1>3, WrittenIs
    <2>2. ASSUME NEW id \in tripped PROVE Down(r.body[id]) /\ r.setpoint[id] = "none"
      <3>1. ~Writable(body[id], commands[id])
        BY <1>0, <1>1, WritableIs
      <3> QED BY <1>0, <1>1, <2>1, <3>1
    <2>3. ASSUME NEW id \in Present PROVE Poised(r, commands, id)
      <3>1. CASE Writable(body[id], commands[id])
        BY <2>1, <3>1 DEF Poised
      <3>2. CASE ~Writable(body[id], commands[id])
        <4>1. r.body[id] = body[id] /\ r.setpoint[id] = setpoint[id]
          BY <2>1, <3>2
        <4>2. actuators_granted(body[id]) => body[id].command = "hold"
          BY <1>0, <3>2, WritableIs
        <4> QED BY <1>1, <4>1, <4>2 DEF Poised, Still
      <3> QED BY <3>1, <3>2
    <2>4. ASSUME Holding(commands)
          PROVE  r.body["drone"].command = "hold" /\ r.setpoint["drone"] = "hold"
      <3>1. ~Writable(body["drone"], commands["drone"])
        <4>1. body["drone"] \in Sane("drone") /\ "drone" \in Id
          BY <1>0
        <4> QED BY <2>4, <4>1, WritableIs DEF Holding
      <3> QED BY <1>0, <2>1, <2>4, <3>1 DEF Holding
    <2> QED BY <1>3, <2>1, <2>2, <2>3, <2>4
  <1> QED BY <1>0, <1>2, <1>3

\* A flush and a step change what commands a body, and nothing else of it.
LEMMA Recommanded ==
    ASSUME NEW id \in Id, NEW b \in Sane(id), NEW c \in Setpoint
    PROVE  LET x == [b EXCEPT !.command = c] IN
           /\ x \in Sane(id) /\ x.command = c
           /\ Down(b) /\ c = "none" => Down(x)
           /\ actuators_granted(x) <=> actuators_granted(b)
  <1> DEFINE x == [b EXCEPT !.command = c]
  <1>1. b = [id |-> id, safety |-> b.safety, command |-> b.command]
    BY SaneIs
  <1>2. x = [id |-> id, safety |-> b.safety, command |-> c]
    BY <1>1
  <1>3. x.id = b.id /\ x.safety = b.safety /\ x.command = c
    BY <1>1, <1>2
  <1>4. x \in Sane(id)
    BY <1>2 DEF Sane
  <1> HIDE DEF x
  <1>5. Down(b) /\ c = "none" => Down(x)
    BY <1>3 DEF Down
  <1>6. actuators_granted(x) <=> actuators_granted(b)
    BY <1>3 DEF actuators_granted
  <1>7. x \in Sane(id) /\ x.command = c
    BY <1>3, <1>4
  <1> QED BY <1>5, <1>6, <1>7 DEF x

\* The bodies of a world of the rack, each made another.
LEMMA Remade ==
    ASSUME Present \subseteq Id, NEW w \in Worlds(Present), w.error = "none",
           NEW made, \A id \in Present : made[id] \in Sane(id),
           NEW r, r = [w EXCEPT !.body = [id \in Present |-> made[id]]]
    PROVE  /\ r \in Worlds(Present) /\ r.error = "none" /\ r.setpoint = w.setpoint
           /\ \A id \in Present : r.body[id] = made[id]
  <1>1. w = [body |-> w.body, setpoint |-> w.setpoint, error |-> w.error]
    BY WorldsAre
  <1>2. w.setpoint = [id \in Present |-> w.setpoint[id]]
    BY WorldsAre
  <1>3. \A id \in Present : w.setpoint[id] \in Setpoint
    BY WorldsAre
  <1> DEFINE m == [id \in Present |-> made[id]]
  <1>4. m = [id \in Present |-> m[id]] /\ \A id \in Present : m[id] = made[id]
    OBVIOUS
  <1> HIDE DEF m
  <1>5. r = [body |-> m, setpoint |-> w.setpoint, error |-> "none"]
    BY <1>1 DEF m
  <1>6. \A id \in Present : m[id] \in Sane(id) /\ w.setpoint[id] \in Setpoint
    BY <1>3, <1>4
  <1>7. r \in Worlds(Present)
    BY <1>2, <1>4, <1>5, <1>6, WorldsMade
  <1> QED BY <1>4, <1>5, <1>7

LEMMA FlushKept ==
    ASSUME InvariantRack, NEW commands, \A id \in Id : commands[id] \in {"zero", "velocity"},
           NEW w, w = Written(commands), NEW r, r = Flush(w)
    PROVE  /\ r \in Kept(Present, tripped, last_missed) /\ r.error = "none"
           /\ Driving(r, commands) /\ (Holding(commands) => Holds(r))
  <1> DEFINE made == [id \in Present |-> Flushed(w.body[id], w.setpoint[id])]
  <1>0. Present \subseteq Id /\ "drone" \in Present /\ tripped \subseteq Present
    BY PresentIs DEF InvariantRack
  <1>1. /\ w \in Worlds(Present) /\ w.error = "none"
        /\ \A id \in tripped : Down(w.body[id]) /\ w.setpoint[id] = "none"
        /\ last_missed => \A id \in Present : Still(w, id)
        /\ \A id \in Present : Poised(w, commands, id)
        /\ Holding(commands) => /\ w.body["drone"].command = "hold"
                                /\ w.setpoint["drone"] = "hold"
    BY WrittenPoised
  <1>2. \A id \in Present : w.body[id] \in Sane(id) /\ w.setpoint[id] \in Setpoint
    BY <1>1, WorldsAre
  <1>3. ASSUME NEW id \in Present
        PROVE  /\ made[id] \in Sane(id)
               /\ \/ w.setpoint[id] = "none" /\ made[id] = w.body[id]
                  \/ w.setpoint[id] # "none" /\ made[id].command = w.setpoint[id]
               /\ Down(w.body[id]) /\ w.setpoint[id] = "none" => Down(made[id])
               /\ actuators_granted(made[id]) <=> actuators_granted(w.body[id])
    <2> DEFINE b == w.body[id]
               c == w.setpoint[id]
               x == [b EXCEPT !.command = c]
    <2>1. b \in Sane(id) /\ c \in Setpoint /\ id \in Id
      BY <1>0, <1>2
    <2>2. made[id] = IF c = "none" THEN b ELSE x
      BY DEF Flushed
    <2> HIDE DEF b, c, made
    <2>3. /\ x \in Sane(id) /\ x.command = c
          /\ actuators_granted(x) <=> actuators_granted(b)
      BY <2>1, Recommanded
    <2> HIDE DEF x
    <2>4. CASE c = "none"
      <3>1. made[id] = b
        BY <2>2, <2>4
      <3> QED BY <2>1, <2>4, <3>1 DEF b, c
    <2>5. CASE c # "none"
      <3>1. made[id] = x
        BY <2>2, <2>5
      <3> QED BY <2>3, <2>5, <3>1 DEF b, c
    <2> QED BY <2>4, <2>5
  <1>4. r = [w EXCEPT !.body = [id \in Present |-> made[id]]]
    <2>1. made = [id \in Present |-> made[id]]
      OBVIOUS
    <2>2. r = [w EXCEPT !.body = made]
      BY DEF Flush
    <2> HIDE DEF made
    <2> QED BY <2>1, <2>2
  <1> HIDE DEF made
  <1>5. /\ r \in Worlds(Present) /\ r.error = "none" /\ r.setpoint = w.setpoint
        /\ \A id \in Present : r.body[id] = made[id]
    BY <1>0, <1>1, <1>3, <1>4, Remade
  <1>6. ASSUME NEW id \in Present, r.body[id].command = "hold"
        PROVE  r.setpoint[id] # "velocity"
    BY <1>3, <1>5, <1>6
  <1>7. ASSUME NEW id \in tripped PROVE Down(r.body[id]) /\ r.setpoint[id] = "none"
    BY <1>0, <1>1, <1>3, <1>5
  <1>8. ASSUME last_missed, NEW id \in Present PROVE Still(r, id)
    BY <1>1, <1>3, <1>5, <1>8 DEF Still
  <1>9. r \in Kept(Present, tripped, last_missed)
    BY <1>5, <1>6, <1>7, <1>8 DEF Kept
  <1>10. Driving(r, commands)
    <2>1. SUFFICES ASSUME NEW id \in Present, actuators_granted(r.body[id]),
                          r.body[id].command = "velocity"
                   PROVE  commands[id] = "velocity"
      BY DEF Driving
    <2>2. w.setpoint[id] = commands[id] \/ Still(w, id)
      BY <1>1, <1>3, <1>5, <2>1 DEF Poised
    <2>3. commands[id] \in {"zero", "velocity"}
      BY <1>0
    <2> QED BY <1>3, <1>5, <2>1, <2>2, <2>3 DEF Still
  <1>11. Holding(commands) => Holds(r)
    BY <1>0, <1>1, <1>3, <1>5 DEF Holds
  <1> QED BY <1>5, <1>9, <1>10, <1>11

LEMMA StepKept ==
    ASSUME InvariantRack, NEW commands, NEW w \in Kept(Present, tripped, last_missed),
           w.error = "none", Driving(w, commands), NEW cut, NEW r, r = Step(w, cut)
    PROVE  /\ r \in Kept(Present, tripped, last_missed) /\ r.error = "none"
           /\ Driving(r, commands) /\ (Holds(w) => Holds(r))
  <1> DEFINE made == [id \in Present |-> Stepped(w.body[id], id \in cut)]
  <1>0. Present \subseteq Id /\ "drone" \in Present /\ tripped \subseteq Present
    BY PresentIs DEF InvariantRack
  <1>1. /\ w \in Worlds(Present)
        /\ \A id \in Present : w.body[id].command = "hold" => w.setpoint[id] # "velocity"
        /\ \A id \in tripped : Down(w.body[id]) /\ w.setpoint[id] = "none"
        /\ last_missed => \A id \in Present : Still(w, id)
    BY DEF Kept
  <1>2. \A id \in Present : w.body[id] \in Sane(id) /\ w.setpoint[id] \in Setpoint
    BY <1>1, WorldsAre
  <1>3. ASSUME NEW id \in Present
        PROVE  /\ made[id] \in Sane(id)
               /\ made[id].command \in {w.body[id].command, "none"}
               /\ Down(w.body[id]) => Down(made[id])
               /\ actuators_granted(made[id]) <=> actuators_granted(w.body[id])
    <2> DEFINE b == w.body[id]
               x == [b EXCEPT !.command = "none"]
    <2>1. b \in Sane(id) /\ id \in Id
      BY <1>0, <1>2
    <2>2. made[id] = b \/ made[id] = x
      BY DEF Stepped
    <2> HIDE DEF b, made
    <2>3. /\ x \in Sane(id) /\ x.command = "none"
          /\ Down(b) => Down(x)
          /\ actuators_granted(x) <=> actuators_granted(b)
      BY <2>1, Recommanded DEF Setpoint
    <2> HIDE DEF x
    <2>4. CASE made[id] = b
      BY <2>1, <2>4 DEF b
    <2>5. CASE made[id] = x
      BY <2>3, <2>5 DEF b
    <2> QED BY <2>2, <2>4, <2>5
  <1>4. r = [w EXCEPT !.body = [id \in Present |-> made[id]]]
    <2>1. made = [id \in Present |-> made[id]]
      OBVIOUS
    <2>2. r = [w EXCEPT !.body = made]
      BY DEF Step
    <2> HIDE DEF made
    <2> QED BY <2>1, <2>2
  <1> HIDE DEF made
  <1>5. /\ r \in Worlds(Present) /\ r.error = "none" /\ r.setpoint = w.setpoint
        /\ \A id \in Present : r.body[id] = made[id]
    BY <1>0, <1>1, <1>3, <1>4, Remade
  <1>6. ASSUME NEW id \in Present, r.body[id].command = "hold"
        PROVE  r.setpoint[id] # "velocity"
    BY <1>1, <1>3, <1>5, <1>6
  <1>7. ASSUME NEW id \in tripped PROVE Down(r.body[id]) /\ r.setpoint[id] = "none"
    BY <1>0, <1>1, <1>3, <1>5
  <1>8. ASSUME last_missed, NEW id \in Present PROVE Still(r, id)
    BY <1>1, <1>3, <1>5, <1>8 DEF Still
  <1>9. r \in Kept(Present, tripped, last_missed)
    BY <1>5, <1>6, <1>7, <1>8 DEF Kept
  <1>10. Driving(r, commands)
    BY <1>3, <1>5 DEF Driving
  <1>11. Holds(w) => Holds(r)
    BY <1>0, <1>3, <1>5 DEF Holds
  <1> QED BY <1>5, <1>9, <1>10, <1>11

\* The end of a frame that leaves the world r.
LEMMA FrameRests ==
    ASSUME InvariantRack, NEW commands, NEW r \in Kept(Present, tripped, last_missed),
           Driving(r, commands), applied' = commands,
           body' = r.body, setpoint' = r.setpoint, tripped' = tripped,
           \/ report' = "met" /\ last_missed' = FALSE
           \/ report' = "refused" /\ last_missed' = last_missed,
           wire' \in Seq(Datagram)
    PROVE  InvariantRack'
  <1>0. tripped \subseteq Present /\ last_missed \in BOOLEAN
    BY DEF InvariantRack
  <1>1. r \in Kept(Present, tripped, last_missed') /\ last_missed' \in BOOLEAN
    <2>1. r \in Kept(Present, tripped, FALSE)
      BY DEF Kept
    <2>2. CASE last_missed' = FALSE
      BY <2>1, <2>2
    <2>3. CASE last_missed' = last_missed
      BY <1>0, <2>3
    <2> QED BY <2>2, <2>3
  <1>2. MissStopsFleet'
    BY DEF MissStopsFleet
  <1>3. DOMAIN r.body = Present
    <2>1. r \in Worlds(Present)
      BY DEF Kept
    <2> QED BY <2>1, WorldsAre
  <1>4. DrivenByThisFrame'
    BY <1>3 DEF DrivenByThisFrame, Driving, Present
  <1> QED BY <1>0, <1>1, <1>2, <1>4, Rests

\* The end of a frame that missed.
LEMMA MissRests ==
    ASSUME InvariantRack, NEW w \in Worlds(Present), w.error = "none",
           NEW r, r = trip_deadline_failsafe(w),
           body' = r.body, setpoint' = r.setpoint, tripped' = Present, last_missed' = TRUE,
           wire' \in Seq(Datagram)
    PROVE  InvariantRack'
  <1>0. Present \subseteq Id /\ "drone" \in Present
    BY PresentIs
  <1>1. /\ r \in Worlds(Present) /\ r.error = "none"
        /\ \A id \in Present : Felled(r.body[id]) /\ r.setpoint[id] = "none"
    BY <1>0, TripFells
  <1>2. \A id \in Present : r.body[id] \in Sane(id)
    BY <1>1, WorldsAre
  <1>3. ASSUME NEW id \in Present
        PROVE  /\ Down(r.body[id]) /\ Tripped(r.body[id]) /\ ~actuators_granted(r.body[id])
               /\ r.body[id].command = "none"
    <2> DEFINE b == r.body[id]
    <2>1. b \in Sane(id) /\ id \in Id /\ Felled(b)
      BY <1>0, <1>1, <1>2
    <2> HIDE DEF b
    <2>2. Down(b) /\ Tripped(b)
      BY <2>1, FelledIs
    <2>3. ~actuators_granted(b)
      BY <2>1, <2>2, DownIs
    <2>4. b.command = "none"
      BY <2>1 DEF Felled
    <2> QED BY <2>2, <2>3, <2>4 DEF b
  <1>4. r \in Kept(Present, Present, TRUE)
    BY <1>1, <1>3 DEF Kept, Still
  <1>5. Present' = Present
    <2>1. DOMAIN r.body = Present
      BY <1>1, WorldsAre
    <2> QED BY <2>1 DEF Present
  <1>6. r = [body |-> r.body, setpoint |-> r.setpoint, error |-> "none"]
    BY <1>1, WorldsAre
  <1>7. Here' = r
    BY <1>6 DEF Here
  <1>8. Recoverable'
    <2> DEFINE a == Leg("drone", attach_recover_ready(r.body["drone"]))
               b == IF "rover" \in Present THEN Leg("rover", attach_reset) ELSE << >>
               c == IF "skiff" \in Present THEN Leg("skiff", attach_recover) ELSE << >>
               d == IF "surveyor" \in Present THEN Leg("surveyor", attach_recover) ELSE << >>
    <2>1. recovers' = a \o b \o (c \o d)
      BY <1>5 DEF recovers, If, hulls
    <2>2. Follow(r, a \o b \o (c \o d)).error = "none"
      BY <1>0, <1>1, FelledRecovers
    <2> HIDE DEF a, b, c, d
    <2> QED BY <1>7, <2>1, <2>2 DEF Recoverable
  <1>9. MissStopsFleet'
    BY <1>1, <1>3, <1>5, <1>8 DEF MissStopsFleet
  <1>10. DrivenByThisFrame'
    BY <1>3, <1>5 DEF DrivenByThisFrame
  <1> QED BY <1>4, <1>9, <1>10, Rests

\* The commands a frame applies.
LEMMA CommandsAre ==
    ASSUME NEW cmd \in [Id -> Value], NEW late \in BOOLEAN,
           NEW commands, commands = [id \in Id |-> command_after_deadline(late, cmd[id])]
    PROVE  \A id \in Id : commands[id] \in {"zero", "velocity"}
  BY DEF command_after_deadline, Value

LEMMA FrameKeeps ==
    ASSUME InvariantRack, NEW cmd \in [Id -> Value], frame(cmd), wire' \in Seq(Datagram)
    PROVE  InvariantRack'
  <1>0. last_missed \in BOOLEAN
    BY DEF InvariantRack
  <1> DEFINE commands == [id \in Id |-> command_after_deadline(last_missed, cmd[id])]
             w == Written(commands)
             f == Flush(w)
  <1>1. \A id \in Id : commands[id] \in {"zero", "velocity"}
    BY <1>0, CommandsAre
  <1>2. /\ applied' = commands
        /\ IF w.error # "none" THEN Refused(w)
           ELSE \/ Refused(f)
                \/ \E cut \in SUBSET (Cuttable \cap Present), compute \in Computes :
                     finish(Step(f, cut), compute)
    BY DEF frame
  <1> HIDE DEF commands
  <1>3. w.error = "none"
    BY <1>1, WrittenPoised
  <1>4. /\ f \in Kept(Present, tripped, last_missed) /\ f.error = "none"
        /\ Driving(f, commands)
    BY <1>1, FlushKept
  <1> HIDE DEF f, w
  <1>5. CASE Refused(f)
    BY <1>2, <1>4, <1>5, FrameRests DEF Refused, Now
  <1>6. ASSUME NEW cut \in SUBSET (Cuttable \cap Present), NEW compute \in Computes,
               finish(Step(f, cut), compute)
        PROVE  InvariantRack'
    <2> DEFINE s == Step(f, cut)
               r == trip_deadline_failsafe(s)
    <2>1. /\ s \in Kept(Present, tripped, last_missed) /\ s.error = "none"
          /\ Driving(s, commands)
      BY <1>4, StepKept
    <2>2. CASE Missed(spec, compute)
      <3>1. /\ body' = r.body /\ setpoint' = r.setpoint /\ tripped' = Present
            /\ last_missed' = TRUE
        BY <1>6, <2>2 DEF finish, Now
      <3> HIDE DEF s, r
      <3>2. s \in Worlds(Present)
        BY <2>1 DEF Kept
      <3>3. r = trip_deadline_failsafe(s)
        BY DEF r
      <3> QED BY <2>1, <3>1, <3>2, <3>3, MissRests
    <2>3. CASE ~Missed(spec, compute)
      <3>1. /\ body' = s.body /\ setpoint' = s.setpoint /\ tripped' = tripped
            /\ last_missed' = FALSE /\ report' = "met"
        BY <1>6, <2>3 DEF finish, Now
      <3> HIDE DEF s
      <3> QED BY <1>2, <2>1, <3>1, FrameRests
    <2> QED BY <2>2, <2>3
  <1> QED BY <1>2, <1>3, <1>5, <1>6

-----------------------------------------------------------------------------
(* The steps and the theorems. *)

LEMMA FrameRun ==
    ASSUME InvariantRack, NEW cmd \in Commands, frame_with_compute(cmd)
    PROVE  InvariantRack'
  <1>1. cmd \in [Id -> Value]
    BY BoundsAssumption
  <1>2. frame(cmd) /\ wire' \in Seq(Datagram)
    BY DEF frame_with_compute, InvariantRack
  <1> QED BY <1>1, <1>2, FrameKeeps

\* What a drain reads and what it leaves are datagrams.
LEMMA DrainIs ==
    ASSUME wire \in Seq(Datagram)
    PROVE  /\ SubSeq(wire, 1, Drained) \in Seq(Datagram)
           /\ SubSeq(wire, Drained + 1, Len(wire)) \in Seq(Datagram)
  <1>1. Len(wire) \in Nat /\ READS \in Nat
    BY BoundsAssumption
  <1>2. Drained \in Nat /\ Drained <= Len(wire)
    BY <1>1 DEF Drained, Fewer
  <1> HIDE DEF Drained
  <1>3. SubSeq(wire, 1, Drained) \in Seq(Datagram)
    BY <1>2, SubSeqIn
  <1>4. Drained + 1 \in Nat \ {0}
    BY <1>2
  <1> QED BY <1>1, <1>3, <1>4, SubSeqIn

LEMMA FrameFromIo ==
    ASSUME InvariantRack, frame_from_io
    PROVE  InvariantRack'
  <1> DEFINE ds == SubSeq(wire, 1, Drained)
  <1>1. /\ ds \in Seq(Datagram) /\ wire' \in Seq(Datagram)
        /\ frame(from_fch1(ds))
    BY DrainIs DEF frame_from_io, InvariantRack
  <1> HIDE DEF ds
  <1>2. from_fch1(ds) \in [Id -> Value]
    BY <1>1, DrainedIs
  <1> QED BY <1>1, <1>2, FrameKeeps

LEMMA SpawnedIs ==
    ASSUME NEW id \in Id
    PROVE  Spawned(id) \in Sane(id) /\ Spawned(id).command = "none"
  <1> DEFINE At(s) == [id |-> id, command |-> "none", safety |-> s]
  <1>1. ASSUME NEW s \in Sound(id) PROVE At(s) \in Sane(id) /\ At(s).command = "none"
    BY DEF Sane, Setpoint
  <1>2. CASE id = "drone"
    <2>1. Spawned(id) = At(Ready)
      BY <1>2, Domains DEF Spawned
    <2>2. Ready \in Flown
      BY DEF Ready, Flown, Air!Disconnected, Air!SafetyState, Air!Phase, Air!CheckInvariants,
             Air!InFlight
    <2> HIDE DEF At
    <2> QED BY <1>1, <1>2, <2>1, <2>2, Domains DEF Sound
  <1>3. CASE id = "rover"
    <2>1. Spawned(id) = At(Land!parked)
      BY <1>3, Domains DEF Spawned
    <2>2. Land!parked \in Driven
      BY DEF Driven, Land!parked, Land!GroundState, Land!GroundPhase, Land!ground_invariants
    <2> HIDE DEF At
    <2> QED BY <1>1, <1>3, <2>1, <2>2, Domains DEF Sound
  <1>4. CASE id \in {"skiff", "surveyor"}
    <2>1. Spawned(id) = At(Sea!docked)
      BY <1>4, Domains DEF Spawned
    <2>2. Sea!docked \in Sailed
      BY DEF Sailed, Sea!docked, Sea!MarineState, Sea!MarinePhase, Sea!marine_invariants
    <2> HIDE DEF At
    <2> QED BY <1>1, <1>4, <2>1, <2>2, Domains DEF Sound
  <1> QED BY <1>2, <1>3, <1>4, Domains

LEMMA RackStarts ==
    ASSUME Init
    PROVE  InvariantRack
  <1>1. PICK C \in Catalogs :
          LET scene == [body |-> [id \in C |-> Spawned(id)],
                        setpoint |-> [id \in C |-> "none"], error |-> "none"]
              grant == LET opt(id, walk) == IF id \in C THEN Leg(id, walk) ELSE <<>> IN
                       Leg("drone", attach_takeoff) \o opt("rover", attach_drive)
                       \o opt("skiff", attach_undock) \o opt("surveyor", attach_undock)
              w == Follow(scene, grant)
          IN  body = w.body /\ setpoint = w.setpoint
    BY DEF Init
  <1>2. C \subseteq Id /\ "drone" \in C
    BY BoundsAssumption
  <1> DEFINE bodies == [id \in C |-> Spawned(id)]
             staged == [id \in C |-> "none"]
             scene == [body |-> bodies, setpoint |-> staged, error |-> "none"]
             opt(id, walk) == IF id \in C THEN Leg(id, walk) ELSE <<>>
             grant == Leg("drone", attach_takeoff) \o opt("rover", attach_drive)
                        \o opt("skiff", attach_undock) \o opt("surveyor", attach_undock)
             w == Follow(scene, grant)
  <1>3. body = w.body /\ setpoint = w.setpoint
    BY <1>1
  <1>4. scene \in Kept(C, {}, FALSE)
    <2>1. /\ bodies = [id \in C |-> bodies[id]] /\ staged = [id \in C |-> staged[id]]
          /\ \A id \in C : bodies[id] = Spawned(id) /\ staged[id] = "none"
      OBVIOUS
    <2>2. scene.body = bodies /\ scene.setpoint = staged
      OBVIOUS
    <2> HIDE DEF bodies, staged
    <2>3. \A id \in C : /\ bodies[id] \in Sane(id) /\ staged[id] \in Setpoint
                        /\ bodies[id].command = "none"
      BY <1>2, <2>1, SpawnedIs DEF Setpoint
    <2>4. scene \in Worlds(C)
      BY <1>2, <2>1, <2>3, WorldsMade
    <2> HIDE DEF scene
    <2> QED BY <2>1, <2>2, <2>3, <2>4 DEF Kept
  <1>5. grant \in Seq(Ordinary(C))
    <2> DEFINE T == Ordinary(C)
    <2>1. ASSUME NEW id \in C, NEW walk \in OrdinaryOf(id)
          PROVE  [id |-> id, walk |-> walk] \in T
      BY <1>2, OrdinaryLeg
    <2> HIDE DEF T
    <2>2. Leg("drone", attach_takeoff) \in Seq(T)
      <3>1. attach_takeoff \in OrdinaryOf("drone")
        BY Domains DEF OrdinaryOf
      <3>2. [id |-> "drone", walk |-> attach_takeoff] \in T
        BY <1>2, <2>1, <3>1
      <3> QED BY <3>2 DEF Leg
    <2>3. ASSUME NEW id \in {"rover", "skiff", "surveyor"}, NEW walk \in OrdinaryOf(id)
          PROVE  opt(id, walk) \in Seq(T)
      <3>1. CASE id \in C
        <4>1. [id |-> id, walk |-> walk] \in T
          BY <2>1, <3>1
        <4> QED BY <3>1, <4>1 DEF Leg
      <3>2. CASE id \notin C
        BY <3>2
      <3> QED BY <3>1, <3>2
    <2>4. opt("rover", attach_drive) \in Seq(T)
      <3>1. attach_drive \in OrdinaryOf("rover")
        BY Domains DEF OrdinaryOf
      <3> QED BY <2>3, <3>1
    <2>5. opt("skiff", attach_undock) \in Seq(T) /\ opt("surveyor", attach_undock) \in Seq(T)
      <3>1. attach_undock \in OrdinaryOf("skiff") /\ attach_undock \in OrdinaryOf("surveyor")
        BY Domains DEF OrdinaryOf
      <3> QED BY <2>3, <3>1
    <2> HIDE DEF opt
    <2>6. Leg("drone", attach_takeoff) \o opt("rover", attach_drive) \in Seq(T)
      BY <2>2, <2>4, Concat
    <2>7. Leg("drone", attach_takeoff) \o opt("rover", attach_drive)
            \o opt("skiff", attach_undock) \in Seq(T)
      BY <2>5, <2>6, Concat
    <2>8. grant \in Seq(T)
      BY <2>5, <2>7, Concat
    <2> QED BY <2>8 DEF T
  <1> HIDE DEF scene, grant
  <1>6. w \in Kept(C, {}, FALSE)
    <2>1. Legs(scene, grant, w)
      BY <1>5, FollowLegs
    <2> HIDE DEF w
    <2> QED BY <1>2, <1>4, <1>5, <2>1, CallKept
  <1> HIDE DEF w
  <1>7. w \in Worlds(C)
    BY <1>6 DEF Kept
  <1>8. Present = C
    <2>1. DOMAIN w.body = C
      BY <1>7, WorldsAre
    <2> QED BY <1>3, <2>1 DEF Present
  <1>9. Here \in Kept(C, {}, FALSE)
    <2> DEFINE x == [body |-> w.body, setpoint |-> w.setpoint, error |-> "none"]
    <2>1. Here = x
      BY <1>3 DEF Here
    <2>2. /\ w.body = [id \in C |-> w.body[id]] /\ w.setpoint = [id \in C |-> w.setpoint[id]]
          /\ \A id \in C : w.body[id] \in Sane(id) /\ w.setpoint[id] \in Setpoint
      BY <1>7, WorldsAre
    <2>3. x \in Worlds(C)
      BY <1>2, <2>2, WorldsMade
    <2>4. x.body = w.body /\ x.setpoint = w.setpoint
      OBVIOUS
    <2> HIDE DEF x
    <2>5. x \in Kept(C, {}, FALSE)
      BY <1>6, <2>3, <2>4 DEF Kept
    <2> QED BY <2>1, <2>5
  <1>10. tripped = {} /\ last_missed = FALSE /\ wire = << >> /\ report = "none"
    BY DEF Init
  <1>11. MissStopsFleet /\ DrivenByThisFrame
    BY <1>10 DEF MissStopsFleet, DrivenByThisFrame
  <1>12. wire \in Seq(Datagram)
    BY <1>10
  <1> QED BY <1>8, <1>9, <1>10, <1>11, <1>12 DEF InvariantRack

\* The calls, one lemma for those of ordinary legs.
LEMMA CallsRest ==
    ASSUME InvariantRack,
           \/ grant_all \/ airborne \/ hold \/ station_all \/ resume_all \/ dock_all \/ park_all
    PROVE  InvariantRack'
  <1>1. CASE grant_all
    BY <1>1, OrdinaryCalls, OrdinaryRests DEF grant_all
  <1>2. CASE airborne
    BY <1>2, OrdinaryCalls, OrdinaryRests DEF airborne
  <1>3. CASE hold
    BY <1>3, OrdinaryCalls, OrdinaryRests DEF hold
  <1>4. CASE station_all
    BY <1>4, OrdinaryCalls, OrdinaryRests DEF station_all
  <1>5. CASE resume_all
    BY <1>5, OrdinaryCalls, OrdinaryRests DEF resume_all
  <1>6. CASE dock_all
    BY <1>6, OrdinaryCalls, OrdinaryRests DEF dock_all
  <1>7. CASE park_all
    BY <1>7, OrdinaryCalls, OrdinaryRests DEF park_all
  <1> QED BY <1>1, <1>2, <1>3, <1>4, <1>5, <1>6, <1>7

LEMMA RackStep ==
    ASSUME InvariantRack, [Next]_vars
    PROVE  InvariantRack'
  <1>1. CASE recover_deadline
    BY <1>1, RecoverRests
  <1>2. CASE \/ grant_all \/ airborne \/ hold \/ station_all \/ resume_all \/ dock_all
             \/ park_all
    BY <1>2, CallsRest
  <1>3. CASE return_all
    BY <1>3, ReturnRests
  <1>4. ASSUME NEW e \in Revokes, inject(e) PROVE InvariantRack'
    BY <1>4, InjectRests
  <1>5. ASSUME NEW d \in Datagrams, send_command(d) PROVE InvariantRack'
    BY <1>5, SendRests
  <1>6. CASE frame_from_io
    BY <1>6, FrameFromIo
  <1>7. ASSUME NEW cmd \in Commands, frame_with_compute(cmd) PROVE InvariantRack'
    BY <1>7, FrameRun
  <1>8. CASE UNCHANGED vars
    <2>1. UNCHANGED <<body, setpoint, last_missed, wire, tripped, report, applied>>
      BY <1>8 DEF vars
    <2>2. Here' = Here /\ Present' = Present
      BY <2>1 DEF Here, Present
    <2>3. Recoverable' = Recoverable
      BY <2>1, <2>2 DEF Recoverable, recovers, If, hulls
    <2>4. MissStopsFleet' /\ DrivenByThisFrame'
      BY <2>1, <2>2, <2>3 DEF InvariantRack, MissStopsFleet, DrivenByThisFrame
    <2> QED BY <2>1, <2>2, <2>4 DEF InvariantRack
  <1> QED BY <1>1, <1>2, <1>3, <1>4, <1>5, <1>6, <1>7, <1>8 DEF Next

\* Whatever is called on a rack, injected into its drone or sent to it, its
\* bodies are as the walks leave them, those that a miss tripped are down, and
\* while a miss is latched no velocity is on its way to a body.
THEOREM RackConsistent == Spec => []InvariantRack
  <1>1. Init => InvariantRack
    BY RackStarts
  <1>2. InvariantRack /\ [Next]_vars => InvariantRack'
    BY RackStep
  <1> QED BY <1>1, <1>2, PTL DEF Spec

\* Between the miss that tripped a body and its recovery the body is not
\* granted and not commanded.
THEOREM TrippedStays == Spec => []TrippedStaysDown
  <1>1. InvariantRack => TrippedStaysDown
    <2>1. SUFFICES ASSUME InvariantRack, NEW id \in tripped
                   PROVE  ~actuators_granted(body[id]) /\ body[id].command = "none"
      BY DEF TrippedStaysDown
    <2>2. /\ id \in Id /\ body[id] \in Sane(id)
          /\ Down(body[id])
      <3>1. id \in Present /\ Down(Here.body[id])
        BY <2>1 DEF InvariantRack, Kept
      <3> QED BY <2>1, <3>1, PresentIs
    <2>3. ~actuators_granted(body[id])
      BY <2>2, DownIs
    <2> QED BY <2>2, <2>3 DEF Down
  <1> QED BY <1>1, RackConsistent, PTL

\* The walk that a miss takes over the fleet is refused by no body, leaves every
\* one failed safe with nothing staged, and each can be recovered from there.
THEOREM MissStops == Spec => []MissStopsFleet
  <1>1. InvariantRack => MissStopsFleet
    BY DEF InvariantRack
  <1> QED BY <1>1, RackConsistent, PTL

\* No frame ends with a body driven by what an earlier one staged.
THEOREM FramesDrive == Spec => []DrivenByThisFrame
  <1>1. InvariantRack => DrivenByThisFrame
    BY DEF InvariantRack
  <1> QED BY <1>1, RackConsistent, PTL

\* A frame keeps a drone that holds and is commanded nothing.
LEMMA FrameHolds ==
    ASSUME InvariantRack, NEW cmd \in [Id -> Value], frame(cmd),
           report' = "met" \/ report' = "refused",
           setpoint["drone"] = "hold", body["drone"].command = "hold",
           applied'["drone"] = "zero"
    PROVE  body'["drone"].command \in {"hold", "none"}
  <1>0. last_missed \in BOOLEAN
    BY DEF InvariantRack
  <1> DEFINE commands == [id \in Id |-> command_after_deadline(last_missed, cmd[id])]
             w == Written(commands)
             f == Flush(w)
  <1>1. \A id \in Id : commands[id] \in {"zero", "velocity"}
    BY <1>0, CommandsAre
  <1>2. /\ applied' = commands
        /\ IF w.error # "none" THEN Refused(w)
           ELSE \/ Refused(f)
                \/ \E cut \in SUBSET (Cuttable \cap Present), compute \in Computes :
                     finish(Step(f, cut), compute)
    BY DEF frame
  <1> HIDE DEF commands
  <1>3. w.error = "none"
    BY <1>1, WrittenPoised
  <1>4. Holding(commands)
    BY <1>2 DEF Holding
  <1>5. /\ f \in Kept(Present, tripped, last_missed) /\ f.error = "none"
        /\ Driving(f, commands) /\ Holds(f)
    BY <1>1, <1>4, FlushKept
  <1> HIDE DEF f, w
  <1>6. CASE Refused(f)
    BY <1>5, <1>6 DEF Refused, Now, Holds
  <1>7. ASSUME NEW cut \in SUBSET (Cuttable \cap Present), NEW compute \in Computes,
               finish(Step(f, cut), compute)
        PROVE  body'["drone"].command \in {"hold", "none"}
    <2> DEFINE s == Step(f, cut)
    <2>1. Holds(s)
      BY <1>5, StepKept
    <2>2. ~Missed(spec, compute)
      BY <1>7 DEF finish
    <2>3. body' = s.body
      BY <1>7, <2>2 DEF finish, Now
    <2> HIDE DEF s
    <2> QED BY <2>1, <2>3 DEF Holds
  <1> QED BY <1>2, <1>3, <1>6, <1>7

\* Frames that command a drone that holds nothing leave it its hold, or, if its
\* power is cut, nothing.
THEOREM HoldSurvives == Spec => HoldSurvivesIdle
  <1> DEFINE A == report' \in {"met", "refused"} /\ setpoint["drone"] = "hold"
                    /\ body["drone"].command = "hold" /\ applied'["drone"] = "zero"
                  => body'["drone"].command \in {"hold", "none"}
  <1>1. ASSUME InvariantRack, Next PROVE A
    <2>1. SUFFICES ASSUME report' \in {"met", "refused"}, setpoint["drone"] = "hold",
                          body["drone"].command = "hold", applied'["drone"] = "zero"
                   PROVE  body'["drone"].command \in {"hold", "none"}
      OBVIOUS
    <2>2. CASE frame_from_io
      <3>1. SubSeq(wire, 1, Drained) \in Seq(Datagram)
        BY <1>1, DrainIs DEF InvariantRack
      <3>2. from_fch1(SubSeq(wire, 1, Drained)) \in [Id -> Value]
        BY <3>1, DrainedIs
      <3>3. frame(from_fch1(SubSeq(wire, 1, Drained)))
        BY <2>2 DEF frame_from_io
      <3> QED BY <1>1, <2>1, <3>2, <3>3, FrameHolds
    <2>3. ASSUME NEW cmd \in Commands, frame_with_compute(cmd)
          PROVE  body'["drone"].command \in {"hold", "none"}
      <3>1. cmd \in [Id -> Value] /\ frame(cmd)
        BY <2>3, BoundsAssumption DEF frame_with_compute
      <3> QED BY <1>1, <2>1, <3>1, FrameHolds
    <2>4. ~NoFrame
      BY <2>1 DEF NoFrame
    <2> QED BY <1>1, <2>2, <2>3, <2>4
            DEF Next, recover_deadline, grant_all, return_all, airborne, hold, station_all,
                resume_all, dock_all, park_all, Call, Quiet, inject, send_command
  <1>2. InvariantRack /\ [Next]_vars => [A]_vars
    BY <1>1
  <1> HIDE DEF A
  <1>3. Spec => [][A]_vars
    BY <1>2, RackConsistent, PTL DEF Spec
  <1> QED BY <1>3 DEF HoldSurvivesIdle, A
=============================================================================
