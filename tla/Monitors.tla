------------------------------- MODULE Monitors -------------------------------
(***************************************************************************)
(* flight-core's contracts::monitor: requirements evaluated over a recorded*)
(* trace, and the lists of them the contract of aerial offboard names.     *)
(* Altitudes and the text of logs are left out.  Times are in milliseconds.*)
(***************************************************************************)
EXTENDS Temporal, Sequences, FiniteSetsExt

\* A sample's command is "none", "finite" or "nan".
TraceSample ==
    [t : Nat, armed : BOOLEAN, actuators_enabled : BOOLEAN, failsafe : BOOLEAN, epoch : Nat,
     heartbeat_age_ms : Nat, command : {"none", "finite", "nan"}, command_age_ms : Nat,
     estimator_ts_ms : Nat]

actuating(s) == s.actuators_enabled \/ s.command # "none"
heartbeat_fresh(s) == HeartbeatFresh(s.heartbeat_age_ms)
command_fresh(s) == CommandFresh(s.command_age_ms)
Flying(s) == s.armed /\ ~s.failsafe

\* What one sample must satisfy, and what it must satisfy after another.
SampleMeets(req, s) ==
    CASE req = "NeverActuateWhileDisarmed" -> actuating(s) => s.armed
      [] req = "ActuatorsImplyArmed" -> s.actuators_enabled => s.armed
      [] req = "NoNanCommands" -> s.command # "nan"
      [] req = "OffboardHeartbeatFresh" -> Flying(s) => heartbeat_fresh(s)
      [] req = "CommandAgeMs" -> s.command # "none" => command_fresh(s)
      [] req = "OffboardAdmitted" ->
            Flying(s) /\ actuating(s) => heartbeat_fresh(s) /\ command_fresh(s)
      [] OTHER -> TRUE

PairMeets(req, before, after) ==
    CASE req = "PermitEpochMonotonic" -> observe({before.epoch}, after.epoch).ok
      [] req = "EstimatorTimestampsMonotonic" ->
            precedes(from_millis(before.estimator_ts_ms), from_millis(after.estimator_ts_ms))
      [] OTHER -> TRUE

\* What some sample must satisfy, reckoned from the first.
SomeMeets(req, samples) ==
    CASE req = "FailsafeWithinMs" ->
            \E i \in DOMAIN samples :
              samples[i].failsafe
              /\ samples[i].t <= samples[1].t + OFFBOARD_HEARTBEAT_MAX_AGE_MS
      [] req = "EpochBumped" ->
            \E i \in DOMAIN samples : samples[i].epoch > samples[1].epoch
      [] OTHER -> TRUE

\* The samples at which a requirement fails; one that wants some sample fails at
\* the first.
Fails(req, samples) ==
    {i \in DOMAIN samples : \/ ~SampleMeets(req, samples[i])
                            \/ i > 1 /\ ~PairMeets(req, samples[i - 1], samples[i])}
    \cup (IF SomeMeets(req, samples) THEN {} ELSE {1})

Pass == [requirement |-> "none", index |-> 0]

\* evaluate_trace: the first requirement of the list that fails, and where.
evaluate_trace(samples, reqs) ==
    LET failing == {k \in DOMAIN reqs : Fails(reqs[k], samples) # {}} IN
    IF samples = <<>> \/ failing = {} THEN Pass
    ELSE [requirement |-> reqs[Min(failing)], index |-> Min(Fails(reqs[Min(failing)], samples))]

Ok(samples, reqs) == evaluate_trace(samples, reqs) = Pass

-----------------------------------------------------------------------------
(* AerialOffboard's lists. *)

MONITORS ==
    <<"NeverActuateWhileDisarmed", "ActuatorsImplyArmed", "PermitEpochMonotonic",
      "NoNanCommands", "OffboardHeartbeatFresh", "CommandAgeMs",
      "EstimatorTimestampsMonotonic", "OffboardAdmitted">>

GPS_LOSS_REQUIRE ==
    <<"NeverActuateWhileDisarmed", "ActuatorsImplyArmed", "NoNanCommands",
      "PermitEpochMonotonic", "FailsafeWithinMs", "EpochBumped", "CommandAgeMs",
      "EstimatorTimestampsMonotonic">>

EPOCH_REVOKE_REQUIRE ==
    <<"NeverActuateWhileDisarmed", "ActuatorsImplyArmed", "NoNanCommands",
      "PermitEpochMonotonic", "FailsafeWithinMs", "EpochBumped">>

REVOKE_TABLE_REQUIRE == <<"NeverActuateWhileDisarmed", "ActuatorsImplyArmed", "NoNanCommands">>

\* A named leftover contract: what it injects and what its trace must satisfy.
LEFTOVER_CONTRACTS ==
    <<[inject |-> "EstimatorInvalid", require |-> GPS_LOSS_REQUIRE],
      [inject |-> "HeartbeatStale", require |-> EPOCH_REVOKE_REQUIRE],
      [inject |-> "TriggerFailsafe", require |-> EPOCH_REVOKE_REQUIRE],
      [inject |-> "ImuUnhealthy", require |-> EPOCH_REVOKE_REQUIRE]>>

REVOKE_ON ==
    <<"TriggerFailsafe", "Disarm", "Disconnect", "HeartbeatStale", "EstimatorInvalid",
      "ImuUnhealthy">>
=============================================================================
