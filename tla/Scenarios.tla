------------------------------- MODULE Scenarios -------------------------------
(***************************************************************************)
(* The harnesses that put the contract of aerial offboard to the test, each*)
(* on worlds of its own: it grants, keeps a typed handle (the leftover),   *)
(* injects, asks the leftover for every command of the table, records what *)
(* it sees and evaluates the record.                                       *)
(*   world     run_world: a scenario's faults between the steps of a world *)
(*   table     run_revoke_table: a session for each revoking event, whose  *)
(*             samples are one trace                                       *)
(*   plants    run_hitl_revoke_table, run_ros2_revoke_table                *)
(*   contracts run_hitl_leftover_contract, run_ros2_leftover_contract for  *)
(*             each of the named contracts                                 *)
(*   miss      run_hitl_miss                                               *)
(*   after     leftover_after_failsafe and leftover_after_disarm of the    *)
(*             plant, leftover_after_deadline_miss of the rack             *)
(*   companion_table, companion_contracts                                  *)
(*             run_px4_revoke_table, run_px4_leftover_contract, and their  *)
(*             namesakes of ArduPilot, on a backend set to fly: no link    *)
(*                                                                         *)
(* A command of a typed handle stages a setpoint that nothing flushes here.*)
(* A fault that is plant-only (wind, battery, a motor) may cut propulsion. *)
(***************************************************************************)
EXTENDS WorldSession, Monitors

CONSTANTS
    Scenario,   \* the lists of faults of the scenarios: [kind, at, delay]
    Steps,      \* the steps a scenario takes
    Dt          \* what a step lasts, in ms

VARIABLES
    harness, scenario,
    turn,       \* the step of a world, the row of a table
    phase,      \* what the harness does next in this turn
    drone,      \* the body
    epoch,      \* its authority_epoch
    delay, stamp,   \* its imu_delay_ms and last_estimator_ts_ms
    due,        \* the faults of the scenario not injected yet
    permit,     \* the epoch the leftover's permit is bound to
    samples,    \* the trace
    verdict,    \* "running", or what the harness returned
    loss        \* history: kernel events injected since the grant

vars == <<harness, scenario, turn, phase, drone, epoch, delay, stamp, due, permit, samples,
          verdict, loss>>

ASSUME ScenariosAssumption == Steps \in Nat \ {0} /\ Dt \in Nat \ {0}

Companion == {"companion_table", "companion_contracts"}
Table == {"table", "plants", "companion_table"}
Contracts == {"contracts", "companion_contracts"}

\* What the walks apply_failsafe and apply_disarm post, and a deadline miss.
leftover_after == <<"TriggerFailsafe", "Disarm">>

Rows == CASE harness = "world" -> Steps
          [] harness \in Table -> Len(REVOKE_ON)
          [] harness \in Contracts -> Len(LEFTOVER_CONTRACTS)
          [] harness = "miss" -> 1
          [] harness = "after" -> Len(leftover_after)

-----------------------------------------------------------------------------
(* Faults, and what they post. *)

\* Fault: a delay of exactly the limit is still fresh.
LateOnly(f) ==
    CASE f.kind = "GpsDropout" -> {"EstimatorInvalid"}
      [] f.kind = "HeartbeatStale" -> {"HeartbeatStale"}
      [] f.kind = "Failsafe" -> {"TriggerFailsafe"}
      [] f.kind = "ImuUnhealthy" -> {"ImuUnhealthy"}
      [] f.kind = "ImuDelay" /\ f.delay > ESTIMATE_MAX_AGE_MS -> {"EstimatorInvalid"}
      [] OTHER -> {}

\* Fault::kernel_event, AerialOffboard::inject.
kernel_event(f) ==
    CASE f.kind = "GpsDropout" -> {"EstimatorInvalid"}
      [] f.kind = "HeartbeatStale" -> {"HeartbeatStale"}
      [] f.kind = "Failsafe" -> {"TriggerFailsafe"}
      [] f.kind = "ImuUnhealthy" -> {"ImuUnhealthy"}
      [] f.kind = "ImuDelay" -> estimate_revoke_event(f.delay)
      [] OTHER -> {}

\* Fault: only an event that latches failsafe bumps.
BumpsOnLatch(b, e) == IF After(b, e).failsafe /\ ~b.safety.failsafe THEN 1 ELSE 0

\* aerial_event: an event that revokes, or that latches failsafe, bumps once.
Bumps(b, e) ==
    IF Air!event_revokes_authority(e) \/ (After(b, e).failsafe /\ ~b.safety.failsafe)
      THEN 1 ELSE 0

\* A companion's backend: its flags armed, offboard and failsafe_latched, and
\* whether its last heartbeat is fresh, kept where a drone has them.
offboard_safety == Posted([Spawned("drone") EXCEPT !.safety = Air!Disconnected],
    <<"Connect", "InitComplete", "Initialized", "ImuHealthy", "EstimatorValid",
      "PreflightPassed", "Arm", "HeartbeatFresh", "EnterOffboard">>).body

\* What its inject_revoke leaves of them; it bumps once, whatever the event.
companion_inject(b, e) ==
    [b EXCEPT !.safety.armed = e \notin {"Disarm", "Disconnect"},
              !.safety.failsafe = e \notin {"Disarm", "Disconnect"},
              !.safety.offboard = FALSE,
              !.safety.offboard_heartbeat_fresh = e # "HeartbeatStale"]

\* Its telemetry takes the actuators to be enabled while it is armed.
telemetry(s) == [s EXCEPT !.actuators_enabled = s.armed /\ ~s.failsafe]

\* sample_drone, drone_trace of the rack and of the plant, to_trace_sample.
Seen == IF harness \in Companion THEN telemetry(drone.safety) ELSE drone.safety
sample(t) ==
    [t |-> t, armed |-> Seen.armed,
     actuators_enabled |-> Seen.actuators_enabled,
     failsafe |-> Seen.failsafe, epoch |-> epoch,
     heartbeat_age_ms |-> IF harness # "contracts" /\ ~drone.safety.offboard_heartbeat_fresh
                            THEN OFFBOARD_HEARTBEAT_MAX_AGE_MS ELSE 0,
     command |-> IF drone.command = "none" THEN "none" ELSE "finite",
     command_age_ms |-> 0,
     estimator_ts_ms |-> IF harness = "contracts" THEN t ELSE stamp]

\* leftover_commands_stale and leftover_declare_airborne_stale: the permit is of
\* another epoch, or the plant wants a fresh heartbeat.
leftover_stale == permit # epoch \/ ~drone.safety.offboard_heartbeat_fresh

-----------------------------------------------------------------------------
Running(p) == verdict = "running" /\ phase = p

\* The harness ends this turn, and with the last one returns what it has.
EndTurn ==
    IF turn = Rows THEN /\ verdict' = "Ok"
                        /\ UNCHANGED <<turn, phase>>
                   ELSE /\ turn' = turn + 1
                        /\ phase' = IF harness = "world" THEN "inject" ELSE "grant"
                        /\ UNCHANGED verdict

Fail == verdict' = "Err" /\ UNCHANGED <<turn, phase>>

\* A new world, the grant and the leftover's attach; it is an error for the
\* leftover to be stale already, and for the drone to be in failsafe.
grant ==
    /\ Running("grant")
    /\ \E r \in {CASE harness \in Companion -> [body |-> offboard_safety, error |-> "none"]
                   [] harness \in {"world", "table"} -> Attach(Spawned("drone"), attach_offboard)
                   [] OTHER -> Attach(Spawned("drone"), attach_takeoff)} :
         /\ drone' = r.body
         /\ IF /\ r.error = "none"
               /\ harness # "world" => r.body.safety.offboard_heartbeat_fresh
               /\ harness \in Contracts => ~r.body.safety.failsafe
              THEN phase' = (IF harness \in Contracts \cup {"miss"} THEN "before"
                                                                      ELSE "inject")
                   /\ UNCHANGED <<turn, verdict>>
              ELSE Fail
    /\ epoch' = 0 /\ permit' = 0 /\ delay' = 0 /\ stamp' = 0 /\ loss' = <<>>
    /\ UNCHANGED <<harness, scenario, due, samples>>

\* The sample before the loss; a contract has a trace of its own.
before ==
    /\ Running("before")
    /\ samples' = <<sample(0)>>
    /\ phase' = "inject"
    /\ UNCHANGED <<harness, scenario, turn, drone, epoch, delay, stamp, due, permit, verdict, loss>>

\* inject_revoke, attach_failsafe and attach_disarm: the event is posted.
Inject(e) ==
    LET r == inject_revoke(drone, e) IN
    /\ drone' = r.body
    /\ epoch' = IF r.error = "none" THEN epoch + Bumps(drone, e) ELSE epoch
    /\ loss' = Append(loss, turn)

Row == CASE harness \in Table -> REVOKE_ON[turn]
         [] harness \in Contracts -> LEFTOVER_CONTRACTS[turn].inject
         [] harness = "miss" -> "TriggerFailsafe"
         [] harness = "after" -> leftover_after[turn]

inject ==
    /\ harness \notin Companion \cup {"world"} /\ Running("inject")
    /\ Inject(Row)
    /\ IF inject_revoke(drone, Row).error = "none"
         THEN phase' = "leftover" /\ UNCHANGED <<turn, verdict>> ELSE Fail
    /\ UNCHANGED <<harness, scenario, delay, stamp, due, permit, samples>>

companion ==
    /\ harness \in Companion /\ Running("inject")
    /\ drone' = companion_inject(drone, Row) /\ epoch' = epoch + 1
    /\ loss' = Append(loss, turn)
    /\ phase' = "leftover" /\ UNCHANGED <<turn, verdict>>
    /\ UNCHANGED <<harness, scenario, delay, stamp, due, permit, samples>>

\* apply_fault, for the faults that are due, in the order of their list.
IsDue(i) == scenario[i].at <= (turn - 1) * Dt
apply_fault(i) ==
    /\ harness = "world" /\ Running("inject")
    /\ i \in due /\ IsDue(i) /\ \A j \in due : IsDue(j) => i <= j
    /\ due' = due \ {i}
    /\ delay' = IF scenario[i].kind = "ImuDelay" THEN scenario[i].delay ELSE delay
    /\ \/ kernel_event(scenario[i]) = {} /\ UNCHANGED <<drone, epoch, loss, turn, phase, verdict>>
       \/ \E e \in kernel_event(scenario[i]) :
            /\ Inject(e)
            /\ IF inject_revoke(drone, e).error = "none" THEN UNCHANGED <<turn, phase, verdict>>
                                                         ELSE Fail
    /\ UNCHANGED <<harness, scenario, stamp, permit, samples>>

\* What a harness asks of the body and of the leftover after the event.
Latched == drone.safety.failsafe
SessionRefuses == leftover_stale /\ epoch > 0
RowRefuses == SessionRefuses /\ (Latched <=> Row \notin {"Disarm", "Disconnect"})
ContractRefuses == leftover_stale /\ Latched /\ epoch > samples[1].epoch
WalkRefuses == leftover_stale /\ (Row = "Disarm" => ~Latched)

Refuses ==
    \/ harness \in {"world", "miss"}
    \/ harness = "after" /\ WalkRefuses
    \/ harness = "table" /\ SessionRefuses
    \/ harness \in {"plants", "companion_table"} /\ RowRefuses
    \/ harness \in Contracts /\ ContractRefuses

\* The last sample of a contract is evaluated with the first.
leftover ==
    /\ Running("leftover")
    /\ samples' = IF harness \in Contracts \cup {"miss"} THEN Append(samples, sample(0)) ELSE samples
    /\ CASE ~Refuses -> Fail
         [] Refuses /\ harness = "table" -> phase' = "step" /\ UNCHANGED <<turn, verdict>>
         [] Refuses /\ harness \in Contracts ->
              IF Ok(samples', LEFTOVER_CONTRACTS[turn].require) /\ Ok(samples', MONITORS)
                THEN EndTurn ELSE Fail
         [] Refuses /\ harness \in {"plants", "companion_table", "miss", "after"} -> EndTurn
    /\ UNCHANGED <<harness, scenario, drone, epoch, delay, stamp, due, permit, loss>>

\* Fault: the stamp is what the delay makes it.
LaggingStamp(now) == saturating_sub(now, delay)

\* stamp_estimators: the stamps lag by the delay and never go back.
stamp_estimators(now) == Max({stamp, saturating_sub(now, delay)})

\* session.step moves the world, which the world may refuse.
step(cut) ==
    /\ harness \in {"world", "table"}
    /\ Running("step") \/ (harness = "world" /\ Running("inject") /\ ~\E i \in due : IsDue(i))
    /\ drone' = Stepped(drone, cut)
    /\ stamp' = stamp_estimators(IF harness = "world" THEN turn * Dt ELSE Dt)
    /\ phase' = "sample"
    /\ UNCHANGED <<harness, scenario, turn, epoch, delay, due, permit, samples, verdict, loss>>

refused ==
    /\ harness \in {"world", "table"}
    /\ Running("step") \/ (harness = "world" /\ Running("inject") /\ ~\E i \in due : IsDue(i))
    /\ verdict' = "refused"
    /\ UNCHANGED <<harness, scenario, turn, phase, drone, epoch, delay, stamp, due, permit,
                   samples, loss>>

record ==
    /\ Running("sample")
    /\ samples' = Append(samples, sample((IF harness = "world" THEN turn ELSE turn - 1) * Dt))
    /\ EndTurn
    /\ UNCHANGED <<harness, scenario, drone, epoch, delay, stamp, due, permit, loss>>

-----------------------------------------------------------------------------
Init ==
    /\ harness \in {"world", "miss", "after"} \cup Table \cup Contracts
    /\ scenario \in IF harness = "world" THEN Scenario ELSE {<<>>}
    /\ turn = 1 /\ phase = "grant"
    /\ drone = Spawned("drone") /\ epoch = 0 /\ delay = 0 /\ stamp = 0 /\ permit = 0
    /\ due = DOMAIN scenario
    /\ samples = <<>> /\ verdict = "running" /\ loss = <<>>

Next ==
    \/ grant \/ before \/ inject \/ companion \/ leftover \/ refused \/ record
    \/ \E i \in due : apply_fault(i)
    \/ \E cut \in BOOLEAN : step(cut)

Spec == Init /\ [][Next]_vars

-----------------------------------------------------------------------------
\* Whatever faults a scenario lists, at whatever times, the trace of the world
\* passes the monitors of the capability, at every length.  (The record of the
\* revoke table too, for all it strings together samples of six sessions.)
TracesAdmitted == Ok(samples, MONITORS)

\* A loss of authority shows in the trace: if a kernel event is injected after
\* the first sample and inside the deadline that runs from it, the trace meets
\* the requirements named for the loss, whatever else is injected and whenever.
LossReported ==
    verdict = "Ok" /\ harness = "world"
    /\ (\E i \in DOMAIN loss :
          loss[i] > 1 /\ (loss[i] - 1) * Dt <= OFFBOARD_HEARTBEAT_MAX_AGE_MS)
    => Ok(samples, GPS_LOSS_REQUIRE)

\* The leftover loses its authority with the losses the contract lists and with
\* nothing else: not with wind, battery, motors, a delay short of the age at which
\* an estimate is stale, or with time.  (Every row of every table and contract
\* shows it lost: none of those harnesses returns an error.)
Loses(f) == \/ f.kind \notin {"Gust", "ImuDelay"}
            \/ f.kind = "ImuDelay" /\ f.delay >= OFFBOARD_HEARTBEAT_MAX_AGE_MS
RevokedExactly ==
    /\ harness = "world" /\ phase # "grant" =>
          (leftover_stale <=> \E i \in DOMAIN scenario \ due : Loses(scenario[i]))
    /\ verdict = "Err" => harness = "world"
=============================================================================
