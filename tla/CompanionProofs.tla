---------------------------- MODULE CompanionProofs ----------------------------
(* What holds of either companion, however long its loops are and however much *)
(* a drain of its inbox reads.                                                  *)
EXTENDS Companions, TLAPS

Flags ==
    /\ armed \in BOOLEAN /\ offboard \in BOOLEAN
    /\ failsafe_latched \in BOOLEAN /\ actuation_revoked \in BOOLEAN

SetpointCall == {"set_velocity", "set_position", "hold"}

\* A call keeps the stage it was made in until it returns.
StageOfCall ==
    /\ call = "arm" => stage = "ready"
    /\ call = "enter_offboard" => stage = "armed"
    /\ call \in SetpointCall => stage \in OffboardControl

\* Whoever has armed is armed, unless the vehicle has disarmed since: and then
\* the backend refuses.
ArmedUnlessRevoked == stage = "armed" => armed \/ actuation_revoked

\* A setpoint was allowed when it was called, and what takes the permit from it
\* closes the gate of the backend.
PermitUnlessRefused ==
    call \in SetpointCall => permit = "current" \/ failsafe_latched \/ actuation_revoked

LiveInductive ==
    Flags /\ StageOfCall /\ ArmedUnlessRevoked /\ PermitUnlessRefused
    /\ LiveHandleMeansAuthority

\* Nothing of an earlier session is left to stream once a pose has been read.
Boot == {"disconnected", "disarmed"}
Renewed == last_velocity # "outlived" /\ last_position # "outlived"
StreamsInductive ==
    /\ StageOfCall
    /\ seen_local_position \/ stage \notin Boot => Renewed
    /\ held # "outlived"
    /\ ArmStreamsThisSession

-----------------------------------------------------------------------------

\* A step of ArduPilotBackend is one of the steps the two companions share.
LEMMA NextActs == [Next]_vars => Acts \/ UNCHANGED vars
  <1> SUFFICES ASSUME ArduPilotNext PROVE Acts
    BY DEF Next
  <1>1. ardupilot_inbox \/ wait_inbox => Proceeds
    BY DEF ardupilot_inbox, wait_inbox, ArduPilot, Proceeds
  <1>2. connect \/ preflight \/ arm \/ enter_offboard => Acts
    BY DEF connect, preflight, arm, enter_offboard, ArduPilot, Acts, Proceeds, Returns, Calls
  <1>3. command_velocity \/ command_position \/ hold_now \/ tick => Acts
    BY DEF command_velocity, command_position, hold_now, tick, ArduPilot,
           Acts, Proceeds, Returns, Calls
  <1>4. disarm \/ takeoff_now \/ land_now \/ ardupilot_failsafe \/ ardupilot_revoke => Calls
    BY DEF disarm, takeoff_now, land_now, ardupilot_failsafe, ardupilot_revoke, ArduPilot, Calls
  <1>5. ArduPilot(Touchdown \/ Recover \/ Rebind \/ Environment) => Acts
    BY DEF ArduPilot, Acts, Calls
  <1> QED BY <1>1, <1>2, <1>3, <1>4, <1>5 DEF ArduPilotNext, Acts

LEMMA LiveInit == Init => LiveInductive
  BY DEF Init, LiveInductive, Flags, StageOfCall, ArmedUnlessRevoked, PermitUnlessRefused,
         LiveHandleMeansAuthority, HandleLive, OffboardControl, SetpointCall

\* A frame that is read keeps the invariant: a heartbeat that disarms or
\* latches takes the permit, or finds the latch closed and nothing live.
LEMMA LiveIngest == LiveInductive /\ ingest_inbox => LiveInductive'
  <1> SUFFICES ASSUME LiveInductive, ingest_inbox PROVE LiveInductive'
    OBVIOUS
  <1> USE DEF LiveInductive, Flags, StageOfCall, ArmedUnlessRevoked, PermitUnlessRefused,
              LiveHandleMeansAuthority, HandleLive, OffboardControl, SetpointCall
  <1>1. UNCHANGED <<stage, call>>
    BY DEF ingest_inbox
  <1>2. CASE IngestPose \/ IngestOther
    BY <1>1, <1>2 DEF IngestPose, IngestOther, backend
  <1>3. ASSUME NEW h, apply_vehicle_heartbeat(h) PROVE LiveInductive'
    <2> DEFINE u == armed /\ ~heartbeat_reports_armed(h)
               r == Revokes(h)
    <2>1. /\ armed' = (armed /\ ~u) /\ offboard' = (offboard /\ ~u /\ ~r)
          /\ actuation_revoked' = (actuation_revoked \/ u)
          /\ failsafe_latched' = (failsafe_latched \/ r)
          /\ IF (r \/ u) /\ ~failsafe_latched THEN revoke_authority ELSE UNCHANGED permit
      BY <1>3 DEF apply_vehicle_heartbeat
    <2> HIDE DEF u, r
    <2>2. /\ (r \/ u) /\ ~failsafe_latched => permit' # "current"
          /\ ~((r \/ u) /\ ~failsafe_latched) => permit' = permit
      BY <2>1 DEF revoke_authority
    <2> QED BY <1>1, <2>1, <2>2
  <1>4. CASE IngestHeartbeat
    BY <1>3, <1>4 DEF IngestHeartbeat, ingest_heartbeat
  <1> QED BY <1>2, <1>4 DEF ingest_inbox

\* A call that goes round its loop, or returns.
LEMMA LiveReturns == LiveInductive /\ (Round \/ Returns) => LiveInductive'
  <1> SUFFICES ASSUME LiveInductive, Round \/ Returns PROVE LiveInductive'
    OBVIOUS
  <1> USE DEF LiveInductive, Flags, StageOfCall, ArmedUnlessRevoked, PermitUnlessRefused,
              LiveHandleMeansAuthority, HandleLive, OffboardControl, SetpointCall
  <1>1. CASE Round
    BY <1>1 DEF Round, backend, handle
  <1>2. CASE ConnectReturns
    BY <1>2 DEF ConnectReturns, Return
  <1>3. CASE PreflightReturns
    BY <1>3 DEF PreflightReturns, Return, backend
  <1>4. CASE ArmReturns
    BY <1>4 DEF ArmReturns, Return
  <1>5. CASE EnterOffboardReturns
    BY <1>5 DEF EnterOffboardReturns, Over, Return, enable_actuators,
                refuse_revoked_setpoint, handle
  <1>6. ASSUME NEW position, NEW v, Accept(position, v) PROVE LiveInductive'
    <2> DEFINE r == estimator_estimate /\ ~failsafe_latched
    <2>1. /\ failsafe_latched' = (failsafe_latched \/ r) /\ offboard' = (offboard /\ ~r)
          /\ IF r THEN revoke_authority ELSE UNCHANGED permit
          /\ call' = "idle" /\ UNCHANGED <<armed, actuation_revoked, stage>>
      BY <1>6 DEF Accept, maybe_revoke_stale_estimator, Return
    <2>2. r => permit' # "current"
      BY <2>1 DEF revoke_authority
    <2> HIDE DEF r
    <2> QED BY <2>1, <2>2
  <1>7. CASE SetVelocityReturns \/ SetPositionReturns \/ HoldReturns
    BY <1>6, <1>7 DEF SetVelocityReturns, SetPositionReturns, HoldReturns
  <1>8. CASE TickReturns
    BY <1>8 DEF TickReturns, Return, backend, handle
  <1> QED BY <1>1, <1>2, <1>3, <1>4, <1>5, <1>7, <1>8 DEF Returns

\* A call that is made.
LEMMA LiveCalls == LiveInductive /\ (Calls \/ Tick) => LiveInductive'
  <1> SUFFICES ASSUME LiveInductive, Calls \/ Tick PROVE LiveInductive'
    OBVIOUS
  <1> USE DEF LiveInductive, Flags, StageOfCall, ArmedUnlessRevoked, PermitUnlessRefused,
              LiveHandleMeansAuthority, HandleLive, OffboardControl, SetpointCall, Idle
  <1>1. CASE Connect
    BY <1>1 DEF Connect, Enter, Return, revoke_authority
  <1>2. CASE Preflight \/ Arm \/ EnterOffboard
    BY <1>2 DEF Preflight, Arm, EnterOffboard, Enter, backend, handle
  <1>3. CASE SetVelocity \/ SetPosition \/ Hold
    BY <1>3 DEF SetVelocity, SetPosition, Hold, Setpoint, require_live_permit, Enter,
                backend, handle
  <1>4. CASE Tick
    BY <1>4 DEF Tick, Enter, backend, handle
  <1>5. CASE Climb \/ Land \/ Touchdown \/ Recover \/ Rebind
    BY <1>5 DEF Climb, Land, Touchdown, Recover, Rebind, backend, handle, running
  <1>6. CASE Disarm
    BY <1>6 DEF Disarm, revoke_authority, running
  <1>7. CASE Failsafe
    BY <1>7 DEF Failsafe, trigger_failsafe, revoke_authority, running
  <1>8. CASE inject_revoke
    <2>1. /\ permit' # "current" /\ stage' = stage /\ call' = "idle"
          /\ stage \in OffboardControl
      BY <1>8 DEF inject_revoke, revoke_authority, running
    <2>2. Flags'
      BY <1>8 DEF inject_revoke
    <2> QED BY <2>1, <2>2
  <1> QED BY <1>1, <1>2, <1>3, <1>4, <1>5, <1>6, <1>7, <1>8 DEF Calls

LEMMA LiveStep == LiveInductive /\ [Next]_vars => LiveInductive'
  <1> SUFFICES ASSUME LiveInductive, [Next]_vars PROVE LiveInductive'
    OBVIOUS
  <1>1. CASE Proceeds
    BY <1>1, LiveIngest, LiveReturns DEF Proceeds
  <1>2. CASE Calls \/ Tick
    BY <1>2, LiveCalls
  <1> USE DEF LiveInductive, Flags, StageOfCall, ArmedUnlessRevoked, PermitUnlessRefused,
              LiveHandleMeansAuthority, HandleLive, OffboardControl, SetpointCall
  <1>3. CASE Environment
    BY <1>3 DEF Environment, Age, SendsHeartbeat, SendsPose, Sends, Decides,
                backend, handle, running
  <1>4. CASE UNCHANGED vars
    BY <1>4 DEF vars, backend, handle, running
  <1> QED BY <1>1, <1>2, <1>3, <1>4, NextActs DEF Acts

\* A handle that types as offboard and holds a current permit is one whose
\* backend is armed, offboard, not latched and not revoked, whatever the
\* autopilot sends and however long the windows are in which it is read.
THEOREM LiveHandle == Spec => []LiveHandleMeansAuthority
  <1>1. Spec => []LiveInductive
    BY LiveInit, LiveStep, PTL DEF Spec
  <1>2. LiveInductive => LiveHandleMeansAuthority
    BY DEF LiveInductive
  <1> QED BY <1>1, <1>2, PTL

-----------------------------------------------------------------------------

\* What a setpoint call may still leave behind is decided when it returns: by
\* then the loss it has read of is in the latch or in actuation_revoked.
LEMMA LostStep ==
    LiveInductive /\ [Next]_vars =>
        [(SetVelocityReturns \/ SetPositionReturns \/ HoldReturns)
            /\ (~HandleLive' \/ estimator_estimate) => UNCHANGED setpoint]_vars
  <1> SUFFICES ASSUME LiveInductive,
                      SetVelocityReturns \/ SetPositionReturns \/ HoldReturns,
                      ~HandleLive' \/ estimator_estimate
               PROVE  UNCHANGED setpoint
    OBVIOUS
  <1>1. PICK position, v : Accept(position, v)
    BY DEF SetVelocityReturns, SetPositionReturns, HoldReturns
  <1>2. call \in SetpointCall
    BY DEF SetVelocityReturns, SetPositionReturns, HoldReturns, Over, SetpointCall
  <1>3. stage \in OffboardControl /\ stage' = stage
    BY <1>1, <1>2 DEF LiveInductive, StageOfCall, Accept
  <1>4. permit = "current" \/ failsafe_latched \/ actuation_revoked
    BY <1>2 DEF LiveInductive, PermitUnlessRefused
  <1>5. failsafe_latched' \/ actuation_revoked
    <2>1. CASE estimator_estimate
      BY <1>1, <2>1 DEF Accept, maybe_revoke_stale_estimator
    <2>2. CASE ~estimator_estimate
      <3>1. failsafe_latched' = failsafe_latched /\ permit' = permit
        BY <1>1, <2>2 DEF Accept, maybe_revoke_stale_estimator, LiveInductive, Flags
      <3>2. permit' # "current"
        BY <1>3, <2>2 DEF HandleLive
      <3> QED BY <1>4, <3>1, <3>2
    <2> QED BY <2>1, <2>2
  <1> QED BY <1>1, <1>5 DEF Accept

\* A setpoint whose call has read of a loss of authority, or finds the estimate
\* stale, leaves nothing that a later pump could stream.
THEOREM LostCalls == Spec => LostCallsLeaveNoSetpoint
  BY LiveInit, LiveStep, LostStep, PTL DEF Spec, LostCallsLeaveNoSetpoint

-----------------------------------------------------------------------------

LEMMA StreamsStep == StreamsInductive /\ [Next]_vars => StreamsInductive'
  <1> SUFFICES ASSUME StreamsInductive, [Next]_vars PROVE StreamsInductive'
    OBVIOUS
  <1> USE DEF StreamsInductive, StageOfCall, Renewed, Boot, ArmStreamsThisSession,
              SetpointCall, OffboardControl, Idle
  <1>1. CASE ingest_inbox
    <2>1. UNCHANGED <<stage, call, held, streamed>>
      BY <1>1 DEF ingest_inbox
    <2>2. \/ last_position' = "measured" /\ last_velocity' = "measured"
          \/ UNCHANGED <<last_position, last_velocity, seen_local_position>>
      BY <1>1 DEF ingest_inbox, IngestPose, IngestHeartbeat, ingest_heartbeat, IngestOther,
                  setpoint, backend
    <2> QED BY <2>1, <2>2
  <1>2. CASE Round
    BY <1>2 DEF Round, pump_setpoint, Streams, backend, setpoint, handle
  <1>3. CASE ConnectReturns \/ PreflightReturns \/ ArmReturns \/ EnterOffboardReturns \/ TickReturns
    BY <1>3 DEF ConnectReturns, PreflightReturns, ArmReturns, EnterOffboardReturns,
                TickReturns, Over, Return, backend, setpoint, handle
  <1>4. CASE SetVelocityReturns \/ SetPositionReturns \/ HoldReturns
    <2>1. PICK position \in BOOLEAN, v \in {"commanded", held} : Accept(position, v)
      BY <1>4 DEF SetVelocityReturns, SetPositionReturns, HoldReturns
    <2>2. stage \in OffboardControl
      BY <1>4 DEF SetVelocityReturns, SetPositionReturns, HoldReturns, Over
    <2>3. /\ stage' = stage /\ call' = "idle" /\ held' = "measured" /\ streamed' = "measured"
          /\ last_position' \in {last_position, "commanded", held}
          /\ last_velocity' \in {last_velocity, "commanded", held}
      BY <2>1 DEF Accept, Return, setpoint
    <2> QED BY <2>2, <2>3
  <1>5. CASE Connect
    BY <1>5 DEF Connect, Enter, Return
  <1>6. CASE Preflight \/ Arm \/ EnterOffboard \/ Tick
    BY <1>6 DEF Preflight, Arm, EnterOffboard, Tick, Enter, pump_setpoint, Streams,
                backend, setpoint, handle
  <1>7. CASE SetVelocity \/ SetPosition \/ Hold
    BY <1>7 DEF SetVelocity, SetPosition, Hold, Setpoint, Enter, backend, setpoint, handle
  <1>8. CASE Climb \/ Land \/ Touchdown \/ Recover \/ Rebind \/ Disarm \/ Failsafe
    BY <1>8 DEF Climb, Land, Touchdown, Recover, Rebind, Disarm, Failsafe, pump_setpoint,
                Streams, backend, setpoint, handle, running
  <1>9. CASE inject_revoke
    BY <1>9 DEF inject_revoke, setpoint, running
  <1>10. CASE Environment \/ UNCHANGED vars
    BY <1>10 DEF Environment, Age, SendsHeartbeat, SendsPose, Sends, Decides, vars,
                 backend, setpoint, handle, running
  <1> QED BY <1>1, <1>2, <1>3, <1>4, <1>5, <1>6, <1>7, <1>8, <1>9, <1>10,
             NextActs DEF Acts, Proceeds, Returns, Calls

\* While arm and enter_offboard warm the stream up, no setpoint of an earlier
\* connection goes out.
THEOREM ArmStreams == Spec => []ArmStreamsThisSession
  <1>1. Init => StreamsInductive
    BY DEF Init, StreamsInductive, StageOfCall, Renewed, Boot, ArmStreamsThisSession,
           SetpointCall, OffboardControl
  <1>2. Spec => []StreamsInductive
    BY <1>1, StreamsStep, PTL DEF Spec
  <1>3. StreamsInductive => ArmStreamsThisSession
    BY DEF StreamsInductive
  <1> QED BY <1>2, <1>3, PTL
=============================================================================
