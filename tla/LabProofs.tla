------------------------------ MODULE LabProofs ------------------------------
(***************************************************************************)
(* Proofs about the lab and what is built on it: the demo server's console *)
(* (no command is lost, and the script yields to an operator), the lab's   *)
(* bodies and permits under every caller (calls, walks, agents, chains,    *)
(* injected events, steps), and the machine-hardware surface over them.    *)
(*                                                                         *)
(* LabKnown is the inductive invariant: bodies stay in states of their     *)
(* kernels, a drone in failsafe is commanded nothing, and a permit is      *)
(* current only for a body that is up.  What a call does to a body is      *)
(* proved of the operators first (Keeps, Bounces), for any sequence of     *)
(* events that fits a walk or a command, and the actions only cite it.     *)
(***************************************************************************)
EXTENDS Research, Console, WalkProofs

-----------------------------------------------------------------------------
(* The console: where the commands are that operators have asked for.      *)

\* The commands a console is asked for, overruled or not.
ConsoleAct ==
    [id  : DOMAIN Buttons \cup {req.device : req \in Writes},
     cmd : (UNION {Buttons[id] : id \in DOMAIN Buttons}) \cup {req.channel : req \in Writes},
     asked : BOOLEAN]

ConsoleTypes ==
    /\ scripted \in BOOLEAN
    /\ queue \in Seq(ConsoleAct)
    /\ DOMAIN handler = Handlers
    /\ \A h \in Handlers : handler[h].at \in {"yield", "push"} =>
         \E act \in ConsoleAct : handler[h] = [at |-> handler[h].at, act |-> act]
    /\ worker.at = "tick" =>
         \E acts \in Seq(ConsoleAct) : worker = [at |-> "tick", acts |-> acts]
    /\ served \in [queued : Nat, given : Nat]

\* While the script is on, no command that is on its way is still asked for.
Quiet(acts) == \A i \in 1..Len(acts) : ~acts[i].asked
AllOverruled ==
    scripted => /\ Quiet(queue)
                /\ worker.at = "tick" => Quiet(worker.acts)
                /\ \A h \in Handlers : At(h, "push") => ~handler[h].act.asked

\* Between being queued and being given to a lab, a command is in the queue or
\* in the batch the worker has drained, and never lost or doubled: resets and opens
\* take none with them (main.rs run_lab drains after it has looked for a reset).
CommandsKept ==
    served.queued =
        served.given + Len(queue) + (IF worker.at = "tick" THEN Len(worker.acts) ELSE 0)

ConsoleInductive == ConsoleTypes /\ ScriptYields /\ AllOverruled /\ CommandsKept

LEMMA OverruledAct ==
    ASSUME NEW act \in ConsoleAct
    PROVE  Overruled(act) \in ConsoleAct /\ ~Overruled(act).asked
  BY DEF ConsoleAct, Overruled

LEMMA WithdrawnActs ==
    ASSUME NEW acts \in Seq(ConsoleAct)
    PROVE  /\ Withdrawn(acts) \in Seq(ConsoleAct)
           /\ Len(Withdrawn(acts)) = Len(acts)
           /\ Quiet(Withdrawn(acts))
  <1>1. \A i \in 1..Len(acts) : acts[i] \in ConsoleAct
    OBVIOUS
  <1>2. \A i \in 1..Len(acts) : /\ Overruled(acts[i]) \in ConsoleAct
                                /\ ~Overruled(acts[i]).asked
    BY <1>1, OverruledAct
  <1>3. Withdrawn(acts) = [i \in 1..Len(acts) |-> Overruled(acts[i])]
    BY DEF Withdrawn
  <1>4. Withdrawn(acts) \in Seq(ConsoleAct) /\ Len(Withdrawn(acts)) = Len(acts)
    BY <1>2, <1>3
  <1> QED BY <1>2, <1>3, <1>4 DEF Quiet

\* What every step has to be shown of: the parts of the state the invariant
\* speaks of.
LEMMA ConsoleStarts == ConsoleInit => ConsoleInductive
  <1> SUFFICES ASSUME ConsoleInit PROVE ConsoleInductive
    OBVIOUS
  <1>1. \A h \in Handlers : handler[h].at = "idle"
    BY DEF ConsoleInit, Waiting
  <1>2. worker.at = "start"
    BY DEF ConsoleInit
  <1>3. ConsoleTypes
    BY <1>1, <1>2 DEF ConsoleInit, ConsoleTypes
  <1> QED
    BY <1>1, <1>2, <1>3
       DEF ConsoleInit, ConsoleInductive, ScriptYields, AllOverruled, CommandsKept, Quiet, At

\* A handler goes on to a state in which it holds no command.
LEMMA HandlerMoves ==
    ASSUME ConsoleInductive, NEW h \in Handlers, NEW state, Go(h, state),
           \/ state.at \notin {"yield", "push"}
           \/ state.at = "yield" /\ \E act \in ConsoleAct : state = [at |-> "yield", act |-> act],
           UNCHANGED <<scripted, queue, worker, yielded, served>>
    PROVE  ConsoleInductive'
  <1> USE DEF ConsoleInductive, ConsoleTypes
  <1>1. /\ DOMAIN handler' = Handlers
        /\ \A k \in Handlers : handler'[k] = IF k = h THEN state ELSE handler[k]
    BY DEF Go
  <1>2. ConsoleTypes'
    BY <1>1
  <1>3. AllOverruled'
    BY <1>1 DEF AllOverruled, At, Quiet
  <1> QED BY <1>2, <1>3 DEF ScriptYields, CommandsKept

\* A command is on the way once the script is off.
LEMMA YieldKeeps ==
    ASSUME ConsoleInductive, NEW h \in Handlers, yield(h)
    PROVE  ConsoleInductive'
  <1> USE DEF ConsoleInductive, ConsoleTypes
  <1>1. PICK act \in ConsoleAct : handler[h] = [at |-> "yield", act |-> act]
    BY DEF yield, At
  <1>2. /\ DOMAIN handler' = Handlers
        /\ \A k \in Handlers : handler'[k] = IF k = h THEN [at |-> "push", act |-> act]
                                                     ELSE handler[k]
    BY <1>1 DEF yield, Go
  <1>3. ASSUME NEW k \in Handlers, handler'[k].at \in {"yield", "push"}
        PROVE  \E a \in ConsoleAct : handler'[k] = [at |-> handler'[k].at, act |-> a]
    <2>1. CASE k = h
      BY <1>2, <2>1
    <2>2. CASE k # h
      BY <1>2, <1>3, <2>2
    <2> QED BY <2>1, <2>2
  <1>4. ConsoleTypes'
    BY <1>2, <1>3 DEF yield
  <1> QED BY <1>4 DEF yield, ScriptYields, AllOverruled, CommandsKept

LEMMA PushKeeps ==
    ASSUME ConsoleInductive, NEW h \in Handlers, push(h)
    PROVE  ConsoleInductive'
  <1> USE DEF ConsoleInductive, ConsoleTypes
  <1>1. PICK act \in ConsoleAct : handler[h] = [at |-> "push", act |-> act]
    BY DEF push, At
  <1>2. /\ DOMAIN handler' = Handlers
        /\ \A k \in Handlers : handler'[k] = IF k = h THEN [at |-> "done"] ELSE handler[k]
    BY DEF push, Go, Done
  <1>3. queue' = Append(queue, act)
    BY <1>1 DEF push
  <1>4. /\ queue' \in Seq(ConsoleAct) /\ Len(queue') = Len(queue) + 1
        /\ \A i \in 1..Len(queue') : queue'[i] = IF i = Len(queue) + 1 THEN act ELSE queue[i]
    BY <1>3
  <1>5. /\ served' \in [queued : Nat, given : Nat]
        /\ served'.queued = served.queued + 1 /\ served'.given = served.given
    BY DEF push
  <1>6. ConsoleTypes'
    BY <1>2, <1>4, <1>5 DEF push
  <1>7. AllOverruled'
    <2>1. scripted => ~act.asked
      BY <1>1 DEF AllOverruled, push
    <2>2. scripted => Quiet(queue')
      BY <1>4, <2>1 DEF AllOverruled, Quiet
    <2> QED BY <1>2, <2>2 DEF AllOverruled, At, push
  <1>8. CommandsKept'
    <2>1. worker.at = "tick" => Len(worker.acts) \in Nat
      OBVIOUS
    <2> QED BY <1>4, <1>5, <2>1 DEF CommandsKept, push
  <1> QED BY <1>6, <1>7, <1>8 DEF ScriptYields, push

\* The script is asked for: whatever is on its way is overruled.
LEMMA OverruleKeeps ==
    ASSUME ConsoleInductive, NEW h \in Handlers, NEW state, Overrule(h, state),
           state.at \notin {"yield", "push"}, UNCHANGED served
    PROVE  ConsoleInductive'
  <1> USE DEF ConsoleInductive, ConsoleTypes
  <1>1. /\ queue' \in Seq(ConsoleAct) /\ Len(queue') = Len(queue) /\ Quiet(queue')
    BY WithdrawnActs DEF Overrule
  <1>2. worker'.at = worker.at /\ (worker.at # "tick" => worker' = worker)
    BY DEF Overrule
  <1>3. worker.at = "tick" =>
          /\ \E acts \in Seq(ConsoleAct) : worker' = [at |-> "tick", acts |-> acts]
          /\ Len(worker'.acts) = Len(worker.acts) /\ Quiet(worker'.acts)
    <2> HAVE worker.at = "tick"
    <2>1. PICK acts \in Seq(ConsoleAct) : worker = [at |-> "tick", acts |-> acts]
      OBVIOUS
    <2>2. worker' = [at |-> "tick", acts |-> Withdrawn(acts)]
      BY <2>1 DEF Overrule
    <2> QED BY <2>1, <2>2, WithdrawnActs
  <1>4. DOMAIN handler' = Handlers /\ handler'[h] = state
    BY DEF Overrule
  <1>5. ASSUME NEW k \in Handlers, handler'[k].at \in {"yield", "push"}
        PROVE  /\ \E act \in ConsoleAct : handler'[k] = [at |-> handler'[k].at, act |-> act]
               /\ handler'[k].at = "push" => ~handler'[k].act.asked
    <2>1. k # h
      BY <1>4, <1>5
    <2>2. CASE At(k, "push")
      <3>1. PICK act \in ConsoleAct : handler[k] = [at |-> "push", act |-> act]
        BY <2>2 DEF At
      <3>2. handler'[k] = [handler[k] EXCEPT !.act = Overruled(@)]
        BY <2>1, <2>2 DEF Overrule
      <3> DEFINE o == Overruled(act)
      <3>3. o \in ConsoleAct /\ ~o.asked
        BY OverruledAct
      <3>4. handler'[k] = [at |-> "push", act |-> o]
        BY <3>1, <3>2
      <3> HIDE DEF o
      <3>5. handler'[k].at = "push" /\ handler'[k].act = o
        BY <3>4
      <3> QED BY <3>3, <3>4, <3>5
    <2>3. CASE ~At(k, "push")
      <3>1. handler'[k] = handler[k]
        BY <2>1, <2>3 DEF Overrule
      <3> QED BY <1>5, <2>3, <3>1 DEF At
    <2> QED BY <2>2, <2>3
  <1>6. ConsoleTypes'
    BY <1>1, <1>2, <1>3, <1>4, <1>5 DEF Overrule
  <1>7. AllOverruled'
    BY <1>1, <1>2, <1>3, <1>5 DEF AllOverruled, At
  <1>8. CommandsKept'
    BY <1>1, <1>2, <1>3 DEF CommandsKept
  <1> QED BY <1>6, <1>7, <1>8 DEF ScriptYields, Overrule

-----------------------------------------------------------------------------
(* The worker. *)

LEMMA WorkerKeeps ==
    ASSUME ConsoleInductive, run_lab
    PROVE  ConsoleInductive'
  <1> USE DEF ConsoleInductive, ConsoleTypes
  <1>1. CASE \/ /\ start \/ read_scenario \/ check_reset \/ rest
                /\ worker'.at # "tick" /\ worker.at # "tick"
                /\ UNCHANGED yielded
    <2>1. UNCHANGED <<scripted, queue, handler, served, yielded>>
      BY <1>1 DEF start, read_scenario, check_reset, rest, shared
    <2> QED BY <1>1, <2>1 DEF ScriptYields, AllOverruled, CommandsKept, At, Quiet
  <1>2. CASE open_lab
    <2>1. /\ UNCHANGED <<scripted, queue, handler, served>>
          /\ yielded' = FALSE /\ worker'.at = "top" /\ worker.at = "seed"
      BY <1>2 DEF open_lab, shared
    <2> QED BY <2>1 DEF ScriptYields, AllOverruled, CommandsKept, At, Quiet
  <1>3. CASE drain
    <2>1. /\ UNCHANGED <<scripted, handler, served, yielded>>
          /\ queue' = << >> /\ worker' = [at |-> "tick", acts |-> queue] /\ worker.at = "drain"
      BY <1>3 DEF drain
    <2>2. worker'.at = "tick" /\ worker'.acts = queue
      BY <2>1
    <2>3. ConsoleTypes'
      BY <2>1, <2>2
    <2>4. AllOverruled'
      BY <2>1, <2>2 DEF AllOverruled, At, Quiet
    <2>5. CommandsKept'
      BY <2>1, <2>2 DEF CommandsKept
    <2> QED BY <2>1, <2>3, <2>4, <2>5 DEF ScriptYields
  <1>4. CASE tick
    <2>1. /\ UNCHANGED <<scripted, queue, handler>>
          /\ yielded' = (yielded \/ \E i \in DOMAIN worker.acts : worker.acts[i].asked)
          /\ served' = [served EXCEPT !.given = @ + Len(worker.acts)]
          /\ worker'.at = "rest" /\ worker.at = "tick"
      BY <1>4 DEF tick, shared
    <2>2. PICK acts \in Seq(ConsoleAct) : worker = [at |-> "tick", acts |-> acts]
      BY <2>1
    <2>3. worker.acts = acts /\ DOMAIN acts = 1..Len(acts) /\ Len(acts) \in Nat
      BY <2>2
    <2>4. /\ served' \in [queued : Nat, given : Nat] /\ served'.queued = served.queued
          /\ served'.given = served.given + Len(acts)
      BY <2>1, <2>3
    <2>5. ScriptYields'
      BY <2>1, <2>3 DEF ScriptYields, AllOverruled, Quiet
    <2>6. ConsoleTypes'
      BY <2>1, <2>4
    <2>7. AllOverruled'
      BY <2>1 DEF AllOverruled, At, Quiet
    <2>8. CommandsKept'
      BY <2>1, <2>3, <2>4 DEF CommandsKept
    <2> QED BY <2>5, <2>6, <2>7, <2>8
  <1>5. start \/ read_scenario \/ check_reset \/ rest =>
          worker'.at # "tick" /\ worker.at # "tick" /\ UNCHANGED yielded
    BY DEF start, read_scenario, check_reset, rest
  <1> QED BY <1>1, <1>2, <1>3, <1>4, <1>5 DEF run_lab

\* A handler's steps: it takes a request, holds its command, and puts the flags
\* and the queue in turn.
LEMMA HandlerKeeps ==
    ASSUME ConsoleInductive, NEW h \in Handlers, begun(h) \/ continued(h)
    PROVE  ConsoleInductive'
  <1> DEFINE Still == UNCHANGED <<scripted, queue, worker, yielded, served>>
  <1>1. CASE queue_robot(h)
    <2>1. PICK id \in DOMAIN Buttons : \E cmd \in Buttons[id] :
             Go(h, [at |-> "yield", act |-> Queued(id, cmd)])
      BY <1>1 DEF queue_robot
    <2>2. PICK cmd \in Buttons[id] : Go(h, [at |-> "yield", act |-> Queued(id, cmd)])
      BY <2>1
    <2> DEFINE act == Queued(id, cmd)
    <2>3. act \in ConsoleAct
      BY <2>2 DEF ConsoleAct, Queued
    <2>4. Still
      BY <1>1 DEF queue_robot, shared
    <2> HIDE DEF act
    <2>5. [at |-> "yield", act |-> act].at = "yield"
      OBVIOUS
    <2> QED BY <2>2, <2>3, <2>4, <2>5, HandlerMoves DEF act
  <1>2. CASE mhs_write(h)
    <2>1. Still
      BY <1>2 DEF mhs_write, shared
    <2>2. PICK req \in Writes :
             Go(h, IF preview_write(observed, req) = "ok"
                     THEN [at |-> "yield", act |-> Queued(req.device, req.channel)] ELSE Done)
      BY <1>2 DEF mhs_write
    <2>3. CASE preview_write(observed, req) = "ok"
      <3> DEFINE act == Queued(req.device, req.channel)
      <3>1. act \in ConsoleAct
        BY DEF ConsoleAct, Queued
      <3>2. Go(h, [at |-> "yield", act |-> act])
        BY <2>2, <2>3
      <3> HIDE DEF act
      <3>3. [at |-> "yield", act |-> act].at = "yield"
        OBVIOUS
      <3> QED BY <2>1, <3>1, <3>2, <3>3, HandlerMoves
    <2>4. CASE preview_write(observed, req) # "ok"
      <3>1. Go(h, Done) /\ Done.at = "done"
        BY <2>2, <2>4 DEF Done
      <3> QED BY <2>1, <3>1, HandlerMoves
    <2> QED BY <2>3, <2>4
  <1>3. CASE begin_reset(h) \/ open_scenario(h) \/ open_seed(h) \/ open_reset(h)
    <2>1. Still
      BY <1>3 DEF begin_reset, open_scenario, open_seed, open_reset, shared
    <2>2. \E state : Go(h, state) /\ state.at \notin {"yield", "push"}
      <3>1. CASE begin_reset(h)
        BY <3>1 DEF begin_reset
      <3>2. CASE open_scenario(h)
        <4>1. PICK name \in Scenarios, s \in Seeds : Go(h, [at |-> "seed", seed |-> s])
          BY <3>2 DEF open_scenario
        <4> QED BY <4>1
      <3>3. CASE open_seed(h)
        BY <3>3 DEF open_seed
      <3>4. CASE open_reset(h)
        BY <3>4 DEF open_reset, Done
      <3> QED BY <1>3, <3>1, <3>2, <3>3, <3>4
    <2> QED BY <2>1, <2>2, HandlerMoves
  <1>4. CASE end_reset(h)
    <2>1. Overrule(h, Done) /\ Done.at \notin {"yield", "push"} /\ UNCHANGED served
      BY <1>4 DEF end_reset, Done
    <2> QED BY <2>1, OverruleKeeps
  <1>5. CASE open_scripted(h)
    <2>1. /\ Overrule(h, [at |-> "reopen"]) /\ [at |-> "reopen"].at \notin {"yield", "push"}
          /\ UNCHANGED served
      BY <1>5 DEF open_scripted
    <2> QED BY <2>1, OverruleKeeps
  <1> QED
    BY <1>1, <1>2, <1>3, <1>4, <1>5, YieldKeeps, PushKeeps DEF begun, continued

\* ConsoleInductive is an inductive invariant of the console, for any requests,
\* any bodies and any number of handlers.
THEOREM ConsoleInvariant == ConsoleSpec => []ConsoleInductive
  <1>1. ConsoleInductive /\ [ConsoleNext]_cvars => ConsoleInductive'
    <2> SUFFICES ASSUME ConsoleInductive, [ConsoleNext]_cvars PROVE ConsoleInductive'
      OBVIOUS
    <2>1. CASE run_lab
      BY <2>1, WorkerKeeps
    <2>2. ASSUME NEW h \in Handlers, begun(h) \/ continued(h) PROVE ConsoleInductive'
      BY <2>2, HandlerKeeps
    <2>3. CASE UNCHANGED cvars
      <3>1. UNCHANGED <<scripted, queue, handler, worker, served, yielded>>
        BY <2>3 DEF cvars, shared
      <3> QED
        BY <3>1 DEF ConsoleInductive, ConsoleTypes, ScriptYields, AllOverruled, CommandsKept,
                    At, Quiet
    <2> QED BY <2>1, <2>2, <2>3 DEF ConsoleNext
  <1> QED BY <1>1, ConsoleStarts, PTL DEF ConsoleSpec

\* The script drives no lab that has taken a command which is still asked for
\* (main.rs action and queue_robot against run_lab), for any number of handlers.
THEOREM ConsoleYields == ConsoleSpec => []ScriptYields
  <1>1. ConsoleInductive => ScriptYields
    BY DEF ConsoleInductive
  <1> QED BY <1>1, ConsoleInvariant, PTL

\* No command that was queued is lost or given twice: each is in the queue, in the
\* batch the worker holds, or with a lab, whatever is opened and reset between.
THEOREM ConsoleLosesNothing == ConsoleSpec => []CommandsKept
  <1>1. ConsoleInductive => CommandsKept
    BY DEF ConsoleInductive
  <1> QED BY <1>1, ConsoleInvariant, PTL

-----------------------------------------------------------------------------
(* The bodies of a lab: what the events of its commands and walks keep.    *)

\* The states a lab brings a drone to: unlike on a rack, it may be armed alone.
Piloted ==
    {s \in Air!SafetyState :
       /\ Air!CheckInvariants(s)
       /\ s.armed => s.phase \in Air!InFlight \cup {"Armed", "Failsafe"}}

Known(id) ==
    {b \in [id : {id}, command : Setpoint,
            safety : CASE Domain(id) = "aerial" -> Piloted
                       [] Domain(id) = "ground" -> Land!GroundState
                       [] Domain(id) = "marine" -> Sea!MarineState] :
       Domain(id) = "aerial" /\ b.safety.failsafe => b.command = "none"}

\* The events of the commands and walks, and those others inject.
Told(id) ==
    CASE Domain(id) = "aerial" ->
           {"HeartbeatFresh", "MissionCommand", "ReachedAltitude", "Land", "Touchdown",
            "Disarm", "Recover", "TriggerFailsafe", "Disconnect", "HeartbeatStale",
            "EstimatorInvalid", "ImuUnhealthy", "Arm", "EnterOffboard", "EnableActuators",
            "Takeoff"}
      [] Domain(id) = "ground" -> Land!GroundEvent
      [] Domain(id) = "marine" -> Sea!MarineEvent

\* What a lab's own lemmas need of a body.
LEMMA KnownIs ==
    ASSUME NEW id \in Id, NEW b \in Known(id)
    PROVE  /\ b.id = id /\ b.command \in Setpoint
           /\ b = [id |-> id, safety |-> b.safety, command |-> b.command]
           /\ id = "drone" => b.safety \in Piloted /\ (b.safety.failsafe => b.command = "none")
           /\ id = "rover" => b.safety \in Land!GroundState
           /\ id \in {"skiff", "surveyor"} => b.safety \in Sea!MarineState
  BY Domains DEF Known

LEMMA PilotedStays ==
    ASSUME NEW s \in Piloted, NEW e \in Told("drone"), Air!Admits(s, e)
    PROVE  Air!After(s, e) \in Piloted
  <1> USE DEF Piloted, Air!CheckInvariants, Air!InFlight, Air!Admits, Air!SafetyState, Air!Phase
  <1>1. CASE e = "HeartbeatFresh"
    <2>1. Air!After(s, e) = [s EXCEPT !.offboard_heartbeat_fresh = TRUE]
      BY <1>1 DEF Air!After
    <2> QED BY <1>1, <2>1
  <1>2. CASE e = "MissionCommand"
    <2>1. Air!After(s, e) = s
      BY <1>2 DEF Air!After
    <2> QED BY <1>2, <2>1
  <1>3. CASE e = "ReachedAltitude"
    <2>1. Air!After(s, e) = [s EXCEPT !.phase = "Airborne"]
      BY <1>3 DEF Air!After
    <2> QED BY <1>3, <2>1 DEF Air!LegalIn
  <1>4. CASE e = "Land"
    <2>1. Air!After(s, e) = [s EXCEPT !.phase = "Landing"]
      BY <1>4 DEF Air!After
    <2> QED BY <1>4, <2>1 DEF Air!LegalIn
  <1>5. CASE e = "Touchdown"
    <2>1. Air!After(s, e) = [Air!Grounded(s, "Ready") EXCEPT !.failsafe = FALSE]
      BY <1>5 DEF Air!After
    <2> QED BY ZenonT(60), <1>5, <2>1 DEF Air!Grounded
  <1>6. CASE e = "Disarm"
    <2>1. Air!After(s, e) = Air!Grounded(s, IF s.failsafe THEN "Recovery" ELSE "Ready")
      BY <1>6 DEF Air!After
    <2> QED BY ZenonT(60), <1>6, <2>1 DEF Air!Grounded, Air!LegalIn
  <1>7. CASE e = "Recover"
    <2>1. Air!After(s, e) = [s EXCEPT !.failsafe = FALSE, !.phase = "Ready"]
      BY <1>7 DEF Air!After
    <2> QED BY ZenonT(60), <1>7, <2>1 DEF Air!LegalIn
  <1>8. CASE e = "TriggerFailsafe"
    <2>1. Air!After(s, e) = Air!EnterFailsafe(s)
      BY <1>8 DEF Air!After
    <2> QED BY ZenonT(60), <1>8, <2>1 DEF Air!EnterFailsafe
  <1>9. CASE e = "Disconnect"
    <2>1. Air!After(s, e) = [Air!Grounded(s, "Disconnected") EXCEPT !.failsafe = FALSE]
      BY <1>9 DEF Air!After
    <2> QED BY ZenonT(60), <1>9, <2>1 DEF Air!Grounded
  <1>10. CASE e = "HeartbeatStale"
    <2>1. Air!After(s, e) =
            Air!FailsafeIf(s.offboard, [s EXCEPT !.offboard_heartbeat_fresh = FALSE])
      BY <1>10 DEF Air!After
    <2> QED BY ZenonT(60), <1>10, <2>1 DEF Air!FailsafeIf, Air!EnterFailsafe
  <1>11. CASE e = "EstimatorInvalid"
    <2>1. Air!After(s, e) = [Air!FailsafeIf(s.armed, s) EXCEPT !.estimator_valid = FALSE]
      BY <1>11 DEF Air!After
    <2> QED BY ZenonT(60), <1>11, <2>1 DEF Air!FailsafeIf, Air!EnterFailsafe
  <1>12. CASE e = "ImuUnhealthy"
    <2>1. Air!After(s, e) = [Air!FailsafeIf(s.armed, s) EXCEPT !.imu_healthy = FALSE]
      BY <1>12 DEF Air!After
    <2> QED BY ZenonT(60), <1>12, <2>1 DEF Air!FailsafeIf, Air!EnterFailsafe
  <1>13. CASE e = "Arm"
    <2>1. Air!After(s, e) = [s EXCEPT !.armed = TRUE, !.phase = "Armed"]
      BY <1>13 DEF Air!After
    <2> QED BY <1>13, <2>1 DEF Air!LegalIn, Air!NeedsSensors, Air!Latched
  <1>14. CASE e = "EnterOffboard"
    <2>1. Air!After(s, e) = [s EXCEPT !.offboard = TRUE]
      BY <1>14 DEF Air!After
    <2> QED BY <1>14, <2>1 DEF Air!LegalIn, Air!NeedsArmed
  <1>15. CASE e = "EnableActuators"
    <2>1. Air!After(s, e) = [s EXCEPT !.actuators_enabled = TRUE]
      BY <1>15 DEF Air!After
    <2> QED BY <1>15, <2>1 DEF Air!NeedsArmed
  <1>16. CASE e = "Takeoff"
    <2>1. Air!After(s, e) = [s EXCEPT !.actuators_enabled = TRUE, !.phase = "Takeoff"]
      BY <1>16 DEF Air!After
    <2> QED BY ZenonT(60), <1>16, <2>1 DEF Air!LegalIn, Air!NeedsArmed, Air!Latched
  <1>17. Domain("drone") = "aerial"
    BY Domains
  <1> HIDE DEF Piloted, Air!Admits, Air!SafetyState, Air!Phase
  <1> QED
    BY ZenonT(60), <1>1, <1>2, <1>3, <1>4, <1>5, <1>6, <1>7, <1>8, <1>9, <1>10, <1>11, <1>12,
       <1>13, <1>14, <1>15, <1>16, <1>17 DEF Told

LEMMA RolledStays ==
    ASSUME NEW s \in Land!GroundState, NEW e \in Land!GroundEvent, Land!Admits(s, e)
    PROVE  Land!After(s, e) \in Land!GroundState
  BY DEF Land!GroundState, Land!GroundPhase, Land!ground_invariants, Land!Admits,
         Land!After, Land!GroundEvent, Land!stopped, Land!parked

LEMMA FloatedStays ==
    ASSUME NEW s \in Sea!MarineState, NEW e \in Sea!MarineEvent, Sea!Admits(s, e)
    PROVE  Sea!After(s, e) \in Sea!MarineState
  BY DEF Sea!MarineState, Sea!MarinePhase, Sea!marine_invariants, Sea!Admits,
         Sea!After, Sea!MarineEvent, Sea!docked, Sea!tripped

\* An event a body takes leaves it in a state its kernel can be in.
LEMMA KnownPost ==
    ASSUME NEW id \in Id, NEW b \in Known(id), NEW e \in Told(id), Admits(b, e)
    PROVE  /\ Post(b, e) \in Known(id)
           /\ Post(b, e).command = IF Cuts(b, e) THEN "none" ELSE b.command
           /\ Post(b, e).safety = After(b, e) /\ Post(b, e).id = id
  <1>1. /\ b.id = id /\ b.command \in Setpoint
        /\ b = [id |-> id, safety |-> b.safety, command |-> b.command]
    BY KnownIs
  <1> DEFINE S == CASE Domain(id) = "aerial" -> Piloted
                    [] Domain(id) = "ground" -> Land!GroundState
                    [] Domain(id) = "marine" -> Sea!MarineState
  <1>2. After(b, e) \in S
    <2>1. CASE id = "drone"
      <3>1. Air!Admits(b.safety, e) /\ b.safety \in Piloted
        BY <1>1, <2>1, KnownIs, Domains DEF Admits
      <3>2. Air!After(b.safety, e) \in Piloted
        BY <2>1, <3>1, PilotedStays
      <3> QED BY <1>1, <2>1, <3>2, Domains DEF After
    <2>2. CASE id = "rover"
      <3>1. Land!Admits(b.safety, e) /\ b.safety \in Land!GroundState /\ e \in Land!GroundEvent
        BY <1>1, <2>2, KnownIs, Domains DEF Admits, Told
      <3>2. Land!After(b.safety, e) \in Land!GroundState
        BY <2>2, <3>1, RolledStays
      <3> QED BY <1>1, <2>2, <3>2, Domains DEF After
    <2>3. CASE id \in {"skiff", "surveyor"}
      <3>1. Sea!Admits(b.safety, e) /\ b.safety \in Sea!MarineState /\ e \in Sea!MarineEvent
        BY <1>1, <2>3, KnownIs, Domains DEF Admits, Told
      <3>2. Sea!After(b.safety, e) \in Sea!MarineState
        BY <2>3, <3>1, FloatedStays
      <3> QED BY <1>1, <2>3, <3>2, Domains DEF After
    <2> QED BY <2>1, <2>2, <2>3, Domains
  <1> DEFINE c == IF Cuts(b, e) THEN "none" ELSE b.command
             n == After(b, e)
  <1>3. Post(b, e) = [b EXCEPT !.safety = n, !.command = c]
    BY DEF Post
  <1>4. c \in Setpoint
    BY <1>1 DEF Setpoint
  <1>5. /\ Known(id) = {x \in [id : {id}, command : Setpoint, safety : S] :
                         Domain(id) = "aerial" /\ x.safety.failsafe => x.command = "none"}
        /\ Domain(id) = "aerial" /\ n.failsafe => c = "none"
    BY <1>1 DEF Known, Cuts
  <1> HIDE DEF n, c, S
  <1>6. Post(b, e) = [id |-> id, safety |-> n, command |-> c]
    BY <1>1, <1>3
  <1>7. [id |-> id, safety |-> n, command |-> c] \in Known(id)
    BY <1>2, <1>4, <1>5 DEF n
  <1> QED BY <1>6, <1>7 DEF n, c

LEMMA KnownPosted ==
    ASSUME NEW id \in Id, NEW b \in Known(id), NEW posts \in Seq(Told(id))
    PROVE  LET r == Posted(b, posts) IN
           /\ r \in [body : Known(id), error : {"none", "Rejected"}]
           /\ r = [body |-> r.body, error |-> r.error]
  <1> DEFINE K == Known(id)
  <1>1. \A x \in K, e \in Told(id) : Admits(x, e) => Post(x, e) \in K
    BY KnownPost
  <1> HIDE DEF K
  <1>2. b \in K
    BY DEF K
  <1>3. Posted(b, posts) \in [body : K, error : {"none", "Rejected"}]
    BY <1>1, <1>2, PostedIn
  <1> QED BY <1>3 DEF K

-----------------------------------------------------------------------------
(* Bodies a permit can be current for.                                     *)

\* The kinds from which whatever revokes is walked, never posted.
UpKinds(id) ==
    CASE Domain(id) = "aerial" -> CanTripFailsafe
      [] Domain(id) = "ground" -> {"Parked", "Moving"}
      [] Domain(id) = "marine" -> {"Underway", "StationKeep"}
Up(b) == Kind(b) \in UpKinds(b.id)

UpPhases == {"Ready", "Armed", "Takeoff", "Airborne", "Landing"}

LEMMA AirUp ==
    ASSUME NEW s \in Piloted
    PROVE  /\ Air!aerial_kind(s) \in CanTripFailsafe <=> ~s.failsafe /\ s.phase \in UpPhases
           /\ Air!aerial_kind(s) = "PreflightReady" => s.phase = "Ready" /\ ~s.failsafe /\ ~s.armed
           /\ Air!aerial_kind(s) = "Armed" => s.phase = "Armed" /\ ~s.failsafe /\ s.armed
           /\ Air!aerial_kind(s) = "Offboard" =>
                s.phase = "Armed" /\ ~s.failsafe /\ s.armed /\ s.offboard
           /\ Air!aerial_kind(s) = "Failsafe" => s.failsafe /\ s.phase = "Failsafe"
  BY DEF Piloted, Air!SafetyState, Air!Phase, Air!CheckInvariants, Air!InFlight, Air!aerial_kind,
         CanTripFailsafe, OffboardControl, UpPhases

LEMMA UpIs ==
    ASSUME NEW id \in Id, NEW b \in Known(id)
    PROVE  /\ id = "drone" => (Up(b) <=> ~b.safety.failsafe /\ b.safety.phase \in UpPhases)
           /\ id = "rover" => (Up(b) <=> b.safety.phase # "EStop")
           /\ id \in {"skiff", "surveyor"} =>
                (Up(b) <=> b.safety.phase \in {"Underway", "StationKeep"})
  <1>0. b.id = id
    BY KnownIs
  <1>1. CASE id = "drone"
    <2>1. Kind(b) = Air!aerial_kind(b.safety) /\ b.safety \in Piloted
      BY <1>0, <1>1, KnownIs, Domains DEF Kind
    <2>2. UpKinds(id) = CanTripFailsafe
      BY <1>1, Domains DEF UpKinds
    <2> QED BY <1>0, <1>1, <2>1, <2>2, AirUp DEF Up
  <1>2. CASE id = "rover"
    <2>1. Kind(b) = Land!ground_kind(b.safety) /\ b.safety \in Land!GroundState
      BY <1>0, <1>2, KnownIs, Domains DEF Kind
    <2>2. UpKinds(id) = {"Parked", "Moving"}
      BY <1>2, Domains DEF UpKinds
    <2>3. Land!ground_kind(b.safety) \in {"Parked", "Moving"} <=> b.safety.phase # "EStop"
      BY <2>1 DEF Land!ground_kind, Land!GroundState, Land!GroundPhase, Land!ground_invariants
    <2> QED BY <1>0, <1>2, <2>1, <2>2, <2>3 DEF Up
  <1>3. CASE id \in {"skiff", "surveyor"}
    <2>1. Kind(b) = Sea!marine_kind(b.safety) /\ b.safety \in Sea!MarineState
      BY <1>0, <1>3, KnownIs, Domains DEF Kind
    <2>2. UpKinds(id) = {"Underway", "StationKeep"}
      BY <1>3, Domains DEF UpKinds
    <2>3. Sea!marine_kind(b.safety) \in {"Underway", "StationKeep"}
            <=> b.safety.phase \in {"Underway", "StationKeep"}
      BY <2>1 DEF Sea!marine_kind, Sea!MarineState, Sea!MarinePhase, Sea!marine_invariants
    <2> QED BY <1>0, <1>3, <2>1, <2>2, <2>3 DEF Up
  <1> QED BY <1>1, <1>2, <1>3, Domains

\* An event that does not revoke leaves a body up.
LEMMA UpStays ==
    ASSUME NEW id \in Id, NEW b \in Known(id), Up(b), NEW e \in Told(id), Admits(b, e),
           ~event_revokes(id, e)
    PROVE  Up(Post(b, e))
  <1> DEFINE s == b.safety
             p == Post(b, e)
  <1>0. b.id = id /\ p \in Known(id) /\ p.safety = After(b, e)
    BY KnownIs, KnownPost
  <1>1. CASE id = "drone"
    <2>1. s \in Piloted /\ ~s.failsafe /\ s.phase \in UpPhases
      BY <1>1, KnownIs, UpIs
    <2>2. Air!Admits(s, e) /\ p.safety = Air!After(s, e)
      BY <1>0, <1>1, Domains DEF Admits, After
    <2>3. e \in {"HeartbeatFresh", "MissionCommand", "ReachedAltitude", "Land", "Touchdown",
                 "Recover", "Arm", "EnterOffboard", "EnableActuators", "Takeoff"}
      BY <1>1, Domains DEF Told, event_revokes, Air!event_revokes_authority
    <2>4. Air!LegalIn("Recover") = {"Recovery"}
      BY DEF Air!LegalIn
    <2>5. ~Air!After(s, e).failsafe /\ Air!After(s, e).phase \in UpPhases
      <3> HIDE DEF p
      <3>1. s \in Air!SafetyState
        BY <2>1 DEF Piloted
      <3>2. e # "Recover"
        BY <2>1, <2>2, <2>4 DEF Air!Admits, UpPhases
      <3> HIDE DEF s
      <3>3. CASE e = "HeartbeatFresh"
        <4>1. Air!After(s, e) = [s EXCEPT !.offboard_heartbeat_fresh = TRUE]
          BY <3>3 DEF Air!After
        <4> QED BY <2>1, <3>1, <4>1 DEF Air!SafetyState
      <3>4. CASE e = "MissionCommand"
        <4>1. Air!After(s, e) = s
          BY <3>4 DEF Air!After
        <4> QED BY <2>1, <3>1, <4>1 DEF Air!SafetyState
      <3>5. CASE e = "ReachedAltitude"
        <4>1. Air!After(s, e) = [s EXCEPT !.phase = "Airborne"]
          BY <3>5 DEF Air!After
        <4> QED BY <2>1, <3>1, <4>1 DEF Air!SafetyState, UpPhases
      <3>6. CASE e = "Land"
        <4>1. Air!After(s, e) = [s EXCEPT !.phase = "Landing"]
          BY <3>6 DEF Air!After
        <4> QED BY <2>1, <3>1, <4>1 DEF Air!SafetyState, UpPhases
      <3>7. CASE e = "Touchdown"
        <4>1. Air!After(s, e) = [Air!Grounded(s, "Ready") EXCEPT !.failsafe = FALSE]
          BY <3>7 DEF Air!After
        <4> QED BY ZenonT(60), <2>1, <3>1, <4>1 DEF Air!SafetyState, UpPhases, Air!Grounded
      <3>8. CASE e = "Arm"
        <4>1. Air!After(s, e) = [s EXCEPT !.armed = TRUE, !.phase = "Armed"]
          BY <3>8 DEF Air!After
        <4> QED BY <2>1, <3>1, <4>1 DEF Air!SafetyState, UpPhases
      <3>9. CASE e = "EnterOffboard"
        <4>1. Air!After(s, e) = [s EXCEPT !.offboard = TRUE]
          BY <3>9 DEF Air!After
        <4> QED BY <2>1, <3>1, <4>1 DEF Air!SafetyState
      <3>10. CASE e = "EnableActuators"
        <4>1. Air!After(s, e) = [s EXCEPT !.actuators_enabled = TRUE]
          BY <3>10 DEF Air!After
        <4> QED BY <2>1, <3>1, <4>1 DEF Air!SafetyState
      <3>11. CASE e = "Takeoff"
        <4>1. Air!After(s, e) = [s EXCEPT !.actuators_enabled = TRUE, !.phase = "Takeoff"]
          BY <3>11 DEF Air!After
        <4> QED BY <2>1, <3>1, <4>1 DEF Air!SafetyState, UpPhases
      <3> QED BY <2>3, <3>2, <3>3, <3>4, <3>5, <3>6, <3>7, <3>8, <3>9, <3>10, <3>11
    <2> HIDE DEF p, s
    <2> QED BY <1>0, <1>1, <2>2, <2>5, UpIs DEF p
  <1>2. CASE id = "rover"
    <2>1. s \in Land!GroundState /\ s.phase # "EStop"
      BY <1>2, KnownIs, UpIs
    <2>2. Land!Admits(s, e) /\ p.safety = Land!After(s, e) /\ e \in Land!GroundEvent
          /\ ~Land!ground_event_revokes_authority(e)
      BY <1>0, <1>2, Domains DEF Admits, After, Told, event_revokes
    <2>3. Land!After(s, e).phase # "EStop"
      BY <2>1, <2>2 DEF Land!GroundState, Land!GroundPhase, Land!ground_invariants, Land!Admits,
         Land!After, Land!GroundEvent, Land!parked, Land!ground_event_revokes_authority
    <2> HIDE DEF p, s
    <2> QED BY <1>0, <1>2, <2>2, <2>3, UpIs DEF p
  <1>3. CASE id \in {"skiff", "surveyor"}
    <2>1. s \in Sea!MarineState /\ s.phase \in {"Underway", "StationKeep"}
      BY <1>3, KnownIs, UpIs
    <2>2. Sea!Admits(s, e) /\ p.safety = Sea!After(s, e) /\ e \in Sea!MarineEvent
          /\ ~Sea!marine_event_revokes_authority(e)
      BY <1>0, <1>3, Domains DEF Admits, After, Told, event_revokes
    <2>3. Sea!After(s, e).phase \in {"Underway", "StationKeep"}
      BY <2>1, <2>2 DEF Sea!MarineState, Sea!MarinePhase, Sea!marine_invariants, Sea!Admits,
         Sea!After, Sea!MarineEvent, Sea!marine_event_revokes_authority
    <2> HIDE DEF p, s
    <2> QED BY <1>0, <1>3, <2>2, <2>3, UpIs DEF p
  <1> QED BY <1>1, <1>2, <1>3, Domains

LEMMA UpPosted ==
    ASSUME NEW id \in Id, NEW b \in Known(id), Up(b), NEW posts \in Seq(Told(id)),
           ~revokes(id, posts)
    PROVE  Up(Posted(b, posts).body)
  <1> DEFINE K == {x \in Known(id) : Up(x)}
             T == {e \in Told(id) : ~event_revokes(id, e)}
  <1>1. ASSUME NEW x \in K, NEW e \in T, Admits(x, e) PROVE Post(x, e) \in K
    <2>1. x \in Known(id) /\ Up(x) /\ e \in Told(id) /\ ~event_revokes(id, e)
      OBVIOUS
    <2> QED BY <1>1, <2>1, UpStays, KnownPost
  <1>2. posts \in Seq(T)
    BY DEF revokes
  <1>3. b \in K
    OBVIOUS
  <1> HIDE DEF K, T
  <1>4. Posted(b, posts) \in [body : K, error : {"none", "Rejected"}]
    BY <1>1, <1>2, <1>3, PostedIn
  <1>5. Posted(b, posts).body \in K
    BY <1>4
  <1> QED BY <1>5 DEF K

-----------------------------------------------------------------------------
(* The walks of the commands and of the agents' calls.                     *)

start_now == Walk({"Armed"}, FALSE,
                  <<"HeartbeatFresh", "EnterOffboard", "EnableActuators", "Takeoff",
                    "EnableActuators">>, "zero")
AirWalks(b) ==
    {Walk({"PreflightReady"}, FALSE, <<"Arm">>, "none"), enter_offboard_now, velocity_now,
     Walk(OffboardControl \cup {"Armed"}, FALSE, <<"EnableActuators">>, "none"),
     attach_takeoff, attach_start_takeoff, attach_airborne, attach_land, attach_touchdown,
     attach_failsafe, attach_disarm, attach_recover_ready(b), attach_hold}
RoverWalks ==
    {attach_estop, attach_drive, attach_park, attach_reset, attach_ground_hold,
     Walk({"Moving"}, FALSE, <<"DriveCommand">>, "velocity")}
HullWays ==
    {attach_marine_failsafe, attach_undock, attach_dock, attach_station, attach_resume,
     attach_recover, attach_marine_hold,
     Walk({"Underway", "StationKeep"}, FALSE, <<"ThrustCommand">>, "velocity")}

\* Walks of the agents' calls that no command has; they bind a drone or a hull.
fly_now == Walk({"Offboard", "Takeoff", "Airborne"}, TRUE, mission, "velocity")
thrust_now == Walk({"Underway"}, FALSE, <<"ThrustCommand">>, "velocity")
CallWalks == {attach_takeoff, attach_start_takeoff, start_now, fly_now, thrust_now}

LabWalks(b) ==
    CallWalks \cup CASE Domain(b.id) = "aerial" -> AirWalks(b)
                     [] Domain(b.id) = "ground" -> RoverWalks
                     [] Domain(b.id) = "marine" -> HullWays

\* The walks of a command are the walks of its domain.
LEMMA AirWays ==
    ASSUME NEW b, NEW cmd, cmd \in DOMAIN aerial_walks(b)
    PROVE  aerial_walks(b)[cmd] \in Seq(AirWalks(b))
  <1> DEFINE W == AirWalks(b)
             arm == Walk({"PreflightReady"}, FALSE, <<"Arm">>, "none")
             enable == Walk(OffboardControl \cup {"Armed"}, FALSE, <<"EnableActuators">>, "none")
             recover == attach_recover_ready(b)
             w1 == <<arm>>
             w2 == <<enter_offboard_now>>
             w3 == <<enable>>
             w4 == <<attach_takeoff, attach_start_takeoff>>
             w5 == <<attach_airborne>>
             w6 == <<attach_land>>
             w7 == <<attach_touchdown>>
             w8 == <<attach_failsafe>>
             w9 == <<attach_disarm>>
             w10 == <<recover>>
             w11 == <<attach_hold>>
             w12 == <<velocity_now>>
  <1>1. /\ arm \in W /\ enter_offboard_now \in W /\ enable \in W /\ attach_takeoff \in W
        /\ attach_start_takeoff \in W /\ attach_airborne \in W /\ attach_land \in W
        /\ attach_touchdown \in W /\ attach_failsafe \in W /\ attach_disarm \in W
        /\ recover \in W /\ attach_hold \in W /\ velocity_now \in W
    BY DEF AirWalks
  <1>2. aerial_walks(b) =
          [Arm |-> w1, Offboard |-> w2, EnableActuators |-> w3, Takeoff |-> w4,
           Airborne |-> w5, Land |-> w6, Touchdown |-> w7, Failsafe |-> w8,
           Disarm |-> w9, Recover |-> w10, Hold |-> w11, Position |-> w11,
           Velocity |-> w12]
    BY DEF aerial_walks
  <1> HIDE DEF W, arm, enable, recover
  <1>3. /\ w1 \in Seq(W) /\ w2 \in Seq(W) /\ w3 \in Seq(W) /\ w4 \in Seq(W) /\ w5 \in Seq(W)
        /\ w6 \in Seq(W) /\ w7 \in Seq(W) /\ w8 \in Seq(W) /\ w9 \in Seq(W)
        /\ w10 \in Seq(W) /\ w11 \in Seq(W) /\ w12 \in Seq(W)
    BY <1>1
  <1> HIDE DEF w1, w2, w3, w4, w5, w6, w7, w8, w9, w10, w11, w12
  <1> QED BY <1>2, <1>3 DEF W

LEMMA RoverWays ==
    ASSUME NEW cmd \in DOMAIN ground_walks
    PROVE  ground_walks[cmd] \in Seq(RoverWalks)
  <1> DEFINE W == RoverWalks
             drive == Walk({"Moving"}, FALSE, <<"DriveCommand">>, "velocity")
             w1 == <<attach_estop>>
             w2 == <<attach_drive>>
             w3 == <<attach_park>>
             w4 == <<attach_reset>>
             w5 == <<attach_ground_hold>>
             w6 == <<drive>>
  <1>1. /\ attach_estop \in W /\ attach_drive \in W /\ attach_park \in W /\ attach_reset \in W
        /\ attach_ground_hold \in W /\ drive \in W
    BY DEF RoverWalks
  <1>2. ground_walks =
          [Failsafe |-> w1, Estop |-> w1, Release |-> w2, Halt |-> w3, Park |-> w3,
           Clear |-> w4, Hold |-> w5, Drive |-> w6]
    BY DEF ground_walks
  <1> HIDE DEF W, drive
  <1>3. /\ w1 \in Seq(W) /\ w2 \in Seq(W) /\ w3 \in Seq(W) /\ w4 \in Seq(W) /\ w5 \in Seq(W)
        /\ w6 \in Seq(W)
    BY <1>1
  <1> HIDE DEF w1, w2, w3, w4, w5, w6
  <1> QED BY <1>2, <1>3 DEF W

LEMMA HullWalksOf ==
    ASSUME NEW cmd \in DOMAIN marine_walks
    PROVE  marine_walks[cmd] \in Seq(HullWays)
  <1> DEFINE W == HullWays
             thrust == Walk({"Underway", "StationKeep"}, FALSE, <<"ThrustCommand">>, "velocity")
             w1 == <<attach_marine_failsafe>>
             w2 == <<attach_undock>>
             w3 == <<attach_dock>>
             w4 == <<attach_station>>
             w5 == <<attach_resume>>
             w6 == <<attach_recover>>
             w7 == <<attach_marine_hold>>
             w8 == <<thrust>>
  <1>1. /\ attach_marine_failsafe \in W /\ attach_undock \in W /\ attach_dock \in W
        /\ attach_station \in W /\ attach_resume \in W /\ attach_recover \in W
        /\ attach_marine_hold \in W /\ thrust \in W
    BY DEF HullWays
  <1>2. marine_walks =
          [Failsafe |-> w1, Undock |-> w2, Dock |-> w3, Station |-> w4, Resume |-> w5,
           Recover |-> w6, Hold |-> w7, Thrust |-> w8]
    BY DEF marine_walks
  <1> HIDE DEF W, thrust
  <1>3. /\ w1 \in Seq(W) /\ w2 \in Seq(W) /\ w3 \in Seq(W) /\ w4 \in Seq(W) /\ w5 \in Seq(W)
        /\ w6 \in Seq(W) /\ w7 \in Seq(W) /\ w8 \in Seq(W)
    BY <1>1
  <1> HIDE DEF w1, w2, w3, w4, w5, w6, w7, w8
  <1> QED BY <1>2, <1>3 DEF W

LEMMA WaysOf ==
    ASSUME NEW id \in Id, NEW b, b.id = id, NEW cmd
    PROVE  walks(b, cmd) \in Seq(LabWalks(b))
  <1> DEFINE W == LabWalks(b)
  <1>1. CASE id = "drone"
    <2>1. /\ W = CallWalks \cup AirWalks(b)
          /\ walks(b, cmd) = IF cmd \in DOMAIN aerial_walks(b) THEN aerial_walks(b)[cmd] ELSE <<>>
      BY <1>1, Domains DEF LabWalks, walks
    <2> HIDE DEF W
    <2> QED BY <2>1, AirWays DEF W
  <1>2. CASE id = "rover"
    <2>1. /\ W = CallWalks \cup RoverWalks
          /\ walks(b, cmd) = IF cmd \in DOMAIN ground_walks THEN ground_walks[cmd] ELSE <<>>
      BY <1>2, Domains DEF LabWalks, walks
    <2> HIDE DEF W
    <2> QED BY <2>1, RoverWays DEF W
  <1>3. CASE id \in {"skiff", "surveyor"}
    <2>1. /\ W = CallWalks \cup HullWays
          /\ walks(b, cmd) = IF cmd \in DOMAIN marine_walks THEN marine_walks[cmd] ELSE <<>>
      BY <1>3, Domains DEF LabWalks, walks
    <2> HIDE DEF W
    <2> QED BY <2>1, HullWalksOf DEF W
  <1> QED BY <1>1, <1>2, <1>3, Domains

\* The walk that is taken is the first of them that binds.
LEMMA BoundIs ==
    ASSUME NEW W, NEW ws \in Seq(W), NEW b, Binding(b, ws) # {}
    PROVE  Bound(b, ws) \in W /\ Kind(b) \in Bound(b, ws).from
  <1> DEFINE R == {p \in Nat \X Nat : p[1] < p[2]}
             B == Binding(b, ws)
             first == CHOOSE i \in B : \A j \in B : i <= j
  <1>1. IsWellFoundedOn(R, Nat)
    <2>1. OpToRel(<, Nat) = R
      BY DEF OpToRel
    <2> QED BY <2>1, NatLessThanWellFounded
  <1>2. B \subseteq Nat /\ B # {} /\ \A i \in B : i \in DOMAIN ws /\ Kind(b) \in ws[i].from
    BY DEF Binding
  <1>3. \E i \in B : \A j \in B : i <= j
    <2>1. PICK x \in B : \A y \in B : ~(<<y, x>> \in R)
      <3> HIDE DEF R, B
      <3> QED BY <1>1, <1>2, WFMin
    <2>2. \A y \in B : ~(y < x)
      <3> HIDE DEF B
      <3> QED BY <1>2, <2>1
    <2>3. \A y \in B : x <= y
      <3> HIDE DEF B
      <3> QED BY <1>2, <2>2
    <2> HIDE DEF B
    <2> QED BY <2>3
  <1>4. Bound(b, ws) = ws[first]
    BY DEF Bound
  <1> HIDE DEF B
  <1>5. first \in B
    BY <1>3
  <1> HIDE DEF first
  <1>6. ws[first] \in W
    BY <1>2, <1>5
  <1> QED BY <1>2, <1>4, <1>5, <1>6

LEMMA CallsOf ==
    ASSUME NEW id \in Id, NEW b, b.id = id, NEW cmd
    PROVE  agent_walks(b, cmd) \in Seq(LabWalks(b))
  <1> DEFINE W == LabWalks(b)
             grant == <<attach_takeoff, attach_start_takeoff, start_now>>
             off == <<attach_takeoff>>
             fly == <<fly_now>>
             thrust == <<thrust_now>>
  <1>1. /\ attach_takeoff \in W /\ attach_start_takeoff \in W /\ start_now \in W
        /\ fly_now \in W /\ thrust_now \in W
    BY DEF LabWalks, CallWalks
  <1>2. agent_walks(b, cmd) \in {grant, off, fly, thrust, walks(b, "Thrust"), walks(b, cmd)}
    BY DEF agent_walks, grant_drone_attached, start_now, fly_now, thrust_now
  <1> HIDE DEF W
  <1>3. grant \in Seq(W) /\ off \in Seq(W) /\ fly \in Seq(W) /\ thrust \in Seq(W)
    BY <1>1
  <1>4. walks(b, "Thrust") \in Seq(W) /\ walks(b, cmd) \in Seq(W)
    BY WaysOf DEF W
  <1> HIDE DEF grant, off, fly, thrust
  <1> QED BY <1>2, <1>3, <1>4 DEF W

\* The kinds of the bodies.
LEMMA KnownKinds ==
    ASSUME NEW id \in Id, NEW b \in Known(id)
    PROVE  /\ id = "drone" => /\ Kind(b) = Air!aerial_kind(b.safety)
                              /\ Kind(b) \notin {"Underway", "StationKeep"}
           /\ id = "rover" => Kind(b) \in {"Parked", "Moving", "EStopped"}
           /\ id \in {"skiff", "surveyor"} =>
                Kind(b) \in {"Docked", "Underway", "StationKeep", "Failsafe"}
  <1>0. b.id = id
    BY KnownIs
  <1>1. CASE id = "drone"
    <2>1. b.safety \in Piloted /\ Kind(b) = Air!aerial_kind(b.safety)
      BY <1>0, <1>1, KnownIs, Domains DEF Kind
    <2>2. Air!aerial_kind(b.safety) \notin {"Underway", "StationKeep"}
      BY <2>1 DEF Piloted, Air!SafetyState, Air!Phase, Air!aerial_kind
    <2> QED BY <1>1, <2>1, <2>2
  <1>2. CASE id = "rover"
    <2>1. b.safety \in Land!GroundState /\ Kind(b) = Land!ground_kind(b.safety)
      BY <1>0, <1>2, KnownIs, Domains DEF Kind
    <2> QED BY <1>2, <2>1 DEF Land!GroundState, Land!GroundPhase, Land!ground_kind
  <1>3. CASE id \in {"skiff", "surveyor"}
    <2>1. b.safety \in Sea!MarineState /\ Kind(b) = Sea!marine_kind(b.safety)
      BY <1>0, <1>3, KnownIs, Domains DEF Kind
    <2> QED BY <1>3, <2>1 DEF Sea!MarineState, Sea!MarinePhase, Sea!marine_kind
  <1> QED BY <1>1, <1>2, <1>3, Domains

\* What the events of a walk or a command are to a body that may be up: none of
\* them revokes, or there is one, or the body is down and they bring it back.
Meek(id) == {e \in Told(id) : ~event_revokes(id, e)}
Fitting(id, b, posts) ==
    \/ posts \in Seq(Meek(id))
    \/ \E e \in Told(id) : posts = <<e>>
    \/ id = "drone" /\ ~Up(b) /\ posts = <<"Disarm", "Recover">>

LEMMA MeekAre ==
    /\ {"HeartbeatFresh", "MissionCommand", "ReachedAltitude", "Land", "Touchdown", "Recover",
        "Arm", "EnterOffboard", "EnableActuators", "Takeoff"} \subseteq Meek("drone")
    /\ {"Disarm", "TriggerFailsafe"} \subseteq Told("drone")
    /\ Told("rover") = Land!GroundEvent
    /\ Told("skiff") = Sea!MarineEvent /\ Told("surveyor") = Sea!MarineEvent
    /\ \A id : Meek(id) \subseteq Told(id)
  BY Domains DEF Meek, Told, event_revokes, Air!event_revokes_authority

LEMMA MeekChains ==
    /\ <<"HeartbeatFresh", "EnterOffboard", "EnableActuators">> \in Seq(Meek("drone"))
    /\ mission \in Seq(Meek("drone"))
    /\ <<"HeartbeatFresh", "EnterOffboard">> \in Seq(Meek("drone"))
    /\ attach_takeoff.posts \in Seq(Meek("drone"))
    /\ <<"Takeoff", "EnableActuators">> \in Seq(Meek("drone"))
    /\ start_now.posts \in Seq(Meek("drone"))
  <1> DEFINE M == Meek("drone")
             a == <<"Arm", "HeartbeatFresh", "EnterOffboard", "EnableActuators">>
             t == <<"Takeoff", "EnableActuators">>
  <1>1. /\ "HeartbeatFresh" \in M /\ "EnterOffboard" \in M /\ "EnableActuators" \in M
        /\ "MissionCommand" \in M /\ "Arm" \in M /\ "Takeoff" \in M
    BY MeekAre
  <1> HIDE DEF M
  <1>2. /\ <<"HeartbeatFresh", "EnterOffboard", "EnableActuators">> \in Seq(M)
        /\ <<"HeartbeatFresh", "MissionCommand">> \in Seq(M)
        /\ <<"HeartbeatFresh", "EnterOffboard">> \in Seq(M)
        /\ a \in Seq(M) /\ t \in Seq(M)
        /\ <<"HeartbeatFresh", "EnterOffboard", "EnableActuators", "Takeoff",
             "EnableActuators">> \in Seq(M)
    BY <1>1
  <1>3. a \o t \in Seq(M)
    <2> HIDE DEF a, t
    <2> QED BY <1>2, Concat
  <1>4. /\ attach_takeoff.posts = a \o t
        /\ start_now.posts = <<"HeartbeatFresh", "EnterOffboard", "EnableActuators", "Takeoff",
                               "EnableActuators">>
    BY DEF attach_takeoff, arm_and_enter, start_now, Walk
  <1> QED BY <1>2, <1>3, <1>4 DEF mission, M

LEMMA AirFits ==
    ASSUME NEW b \in Known("drone"), NEW w \in AirWalks(b) \cup CallWalks, Kind(b) \in w.from
    PROVE  Fitting("drone", b, w.posts)
  <1>0. "drone" \in Id /\ b.id = "drone" /\ UpKinds(b.id) = CanTripFailsafe
    BY Domains, KnownIs DEF UpKinds
  <1>1. CASE w \in {enter_offboard_now, velocity_now, attach_takeoff, attach_start_takeoff,
                    attach_hold, start_now, fly_now}
    <2>1. /\ enter_offboard_now.posts = <<"HeartbeatFresh", "EnterOffboard", "EnableActuators">>
          /\ velocity_now.posts = mission /\ attach_hold.posts = mission
          /\ fly_now.posts = mission
          /\ attach_start_takeoff.posts = <<"Takeoff", "EnableActuators">>
      BY DEF enter_offboard_now, velocity_now, attach_hold, fly_now, attach_start_takeoff,
             mission, Walk
    <2>2. w.posts \in Seq(Meek("drone"))
      BY <1>1, <2>1, MeekChains
    <2> QED BY <2>2 DEF Fitting
  <1>2. CASE \/ w \in {attach_airborne, attach_land, attach_touchdown, attach_failsafe,
                       attach_disarm}
             \/ w \in {Walk({"PreflightReady"}, FALSE, <<"Arm">>, "none"),
                       Walk(OffboardControl \cup {"Armed"}, FALSE, <<"EnableActuators">>, "none")}
    <2>1. \E e \in {"Arm", "EnableActuators", "ReachedAltitude", "Land", "Touchdown",
                    "TriggerFailsafe", "Disarm"} : w.posts = <<e>>
      BY <1>2 DEF attach_airborne, attach_land, attach_touchdown, attach_failsafe, attach_disarm,
                  Walk
    <2>2. {"Arm", "EnableActuators", "ReachedAltitude", "Land", "Touchdown", "TriggerFailsafe",
           "Disarm"} \subseteq Told("drone")
      BY Domains DEF Told
    <2> QED BY <2>1, <2>2 DEF Fitting
  <1>3. CASE w = attach_recover_ready(b)
    <2>1. /\ w.from = {"Failsafe", "Recovery"}
          /\ w.posts \in {<<"Disarm", "Recover">>, <<"Recover">>}
      BY <1>3 DEF attach_recover_ready, Walk
    <2>2. ~Up(b)
      BY <1>0, <2>1 DEF Up, CanTripFailsafe, OffboardControl
    <2>3. "Recover" \in Told("drone")
      BY MeekAre
    <2> QED BY <2>1, <2>2, <2>3 DEF Fitting
  <1>4. w # thrust_now
    <2>1. thrust_now.from = {"Underway"}
      BY DEF thrust_now, Walk
    <2> QED BY <1>0, <2>1, KnownKinds
  <1> QED BY <1>1, <1>2, <1>3, <1>4 DEF AirWalks, CallWalks

LEMMA RoverFits ==
    ASSUME NEW b \in Known("rover"), NEW w \in RoverWalks \cup CallWalks, Kind(b) \in w.from
    PROVE  Fitting("rover", b, w.posts)
  <1>0. "rover" \in Id
    BY Domains
  <1>1. /\ attach_takeoff.from = {"PreflightReady"} /\ attach_start_takeoff.from = {"Offboard"}
        /\ start_now.from = {"Armed"} /\ fly_now.from = {"Offboard", "Takeoff", "Airborne"}
        /\ thrust_now.from = {"Underway"}
    BY DEF attach_takeoff, attach_start_takeoff, start_now, fly_now, thrust_now, Walk
  <1>2. w \notin CallWalks
    BY <1>0, <1>1, KnownKinds DEF CallWalks
  <1>3. \E e \in Land!GroundEvent : w.posts = <<e>>
    BY <1>2 DEF RoverWalks, attach_estop, attach_drive, attach_park, attach_reset,
                attach_ground_hold, Walk, Land!GroundEvent
  <1> QED BY <1>3, MeekAre DEF Fitting

LEMMA HullFits ==
    ASSUME NEW id \in {"skiff", "surveyor"}, NEW b \in Known(id),
           NEW w \in HullWays \cup CallWalks, Kind(b) \in w.from
    PROVE  Fitting(id, b, w.posts)
  <1>0. id \in Id
    BY Domains
  <1>1. /\ attach_takeoff.from = {"PreflightReady"} /\ attach_start_takeoff.from = {"Offboard"}
        /\ start_now.from = {"Armed"} /\ fly_now.from = {"Offboard", "Takeoff", "Airborne"}
    BY DEF attach_takeoff, attach_start_takeoff, start_now, fly_now, Walk
  <1>2. w \in HullWays \cup {thrust_now}
    BY <1>0, <1>1, KnownKinds DEF CallWalks
  <1>3. \E e \in Sea!MarineEvent : w.posts = <<e>>
    BY <1>2 DEF HullWays, thrust_now, attach_marine_failsafe, attach_undock, attach_dock,
                attach_station, attach_resume, attach_recover, attach_marine_hold, Walk,
                Sea!MarineEvent
  <1> QED BY <1>3, MeekAre DEF Fitting

\* A vehicle is commanded by what it has staged while it is up.
Staging(id, b, w) ==
    id = "drone" /\ w.stages \in {"hold", "velocity"} => Up(b) /\ w.posts = mission

LEMMA AirStages ==
    ASSUME NEW b \in Known("drone"), NEW w \in AirWalks(b) \cup CallWalks, Kind(b) \in w.from
    PROVE  Staging("drone", b, w)
  <1>0. "drone" \in Id /\ b.id = "drone" /\ UpKinds(b.id) = CanTripFailsafe
    BY Domains, KnownIs DEF UpKinds
  <1>1. /\ enter_offboard_now.stages = "zero" /\ attach_takeoff.stages = "zero"
        /\ start_now.stages = "zero" /\ attach_start_takeoff.stages = "none"
        /\ attach_airborne.stages = "none" /\ attach_land.stages = "none"
        /\ attach_touchdown.stages = "none" /\ attach_failsafe.stages = "none"
        /\ attach_disarm.stages = "none" /\ attach_recover_ready(b).stages = "none"
        /\ Walk({"PreflightReady"}, FALSE, <<"Arm">>, "none").stages = "none"
        /\ Walk(OffboardControl \cup {"Armed"}, FALSE, <<"EnableActuators">>, "none").stages = "none"
    BY DEF enter_offboard_now, attach_takeoff, start_now, attach_start_takeoff, attach_airborne,
           attach_land, attach_touchdown, attach_failsafe, attach_disarm, attach_recover_ready,
           Walk
  <1>2. thrust_now.from = {"Underway"}
    BY DEF thrust_now, Walk
  <1>3. w # thrust_now
    BY <1>0, <1>2, KnownKinds
  <1>4. w.stages \in {"hold", "velocity"} => w \in {velocity_now, attach_hold, fly_now}
    BY <1>1, <1>3 DEF AirWalks, CallWalks
  <1>5. /\ velocity_now.posts = mission /\ attach_hold.posts = mission /\ fly_now.posts = mission
        /\ velocity_now.from \subseteq CanTripFailsafe
        /\ attach_hold.from \subseteq CanTripFailsafe
        /\ fly_now.from \subseteq CanTripFailsafe
    BY DEF velocity_now, attach_hold, fly_now, mission, Walk, CanTripFailsafe, OffboardControl
  <1> QED BY <1>0, <1>4, <1>5 DEF Staging, Up

LEMMA WalkFits ==
    ASSUME NEW id \in Id, NEW b \in Known(id), NEW w \in LabWalks(b), Kind(b) \in w.from
    PROVE  Fitting(id, b, w.posts) /\ Staging(id, b, w)
  <1>0. b.id = id
    BY KnownIs
  <1>1. CASE id = "drone"
    BY <1>0, <1>1, AirFits, AirStages, Domains DEF LabWalks
  <1>2. CASE id = "rover"
    BY <1>0, <1>2, RoverFits, Domains DEF LabWalks, Staging
  <1>3. CASE id \in {"skiff", "surveyor"}
    BY <1>0, <1>3, HullFits, Domains DEF LabWalks, Staging
  <1> QED BY <1>1, <1>2, <1>3, Domains

-----------------------------------------------------------------------------
(* What walks, commands and calls leave of a body.                         *)

\* What a body is commanded is no part of its kind.
LEMMA Recommanded ==
    ASSUME NEW id \in Id, NEW b \in Known(id), NEW c \in Setpoint,
           c = "none" \/ id # "drone" \/ Up(b)
    PROVE  LET x == [b EXCEPT !.command = c] IN
           /\ x \in Known(id) /\ x.safety = b.safety /\ x.command = c
           /\ Kind(x) = Kind(b) /\ (Up(x) <=> Up(b)) /\ Unfresh(x).safety = Unfresh(b).safety
  <1> DEFINE x == [b EXCEPT !.command = c]
  <1>1. /\ b.id = id /\ b = [id |-> id, safety |-> b.safety, command |-> b.command]
    BY KnownIs
  <1>2. x = [id |-> id, safety |-> b.safety, command |-> c]
    BY <1>1
  <1>3. x \in Known(id)
    <2>1. id = "drone" /\ b.safety.failsafe => c = "none"
      BY UpIs
    <2>2. x \in [id : {id}, command : Setpoint,
                 safety : CASE Domain(id) = "aerial" -> Piloted
                            [] Domain(id) = "ground" -> Land!GroundState
                            [] Domain(id) = "marine" -> Sea!MarineState]
      BY <1>2 DEF Known
    <2>3. Domain(id) = "aerial" <=> id = "drone"
      BY Domains
    <2>4. x.safety = b.safety /\ x.command = c
      BY <1>2
    <2> HIDE DEF x
    <2> QED BY <2>1, <2>2, <2>3, <2>4 DEF Known
  <1> HIDE DEF x
  <1>4. x.id = b.id /\ x.safety = b.safety /\ x.command = c
    BY <1>1, <1>2
  <1>5. Kind(x) = Kind(b)
    BY <1>4 DEF Kind
  <1>6. Up(x) <=> Up(b)
    BY <1>4, <1>5 DEF Up
  <1>7. Unfresh(x).safety = Unfresh(b).safety
    <2>1. CASE Domain(id) = "aerial"
      <3>1. /\ Unfresh(x) = [x EXCEPT !.safety.offboard_heartbeat_fresh = FALSE]
            /\ Unfresh(b) = [b EXCEPT !.safety.offboard_heartbeat_fresh = FALSE]
        BY <1>1, <1>4, <2>1 DEF Unfresh
      <3>2. /\ Unfresh(x).safety = [x.safety EXCEPT !.offboard_heartbeat_fresh = FALSE]
            /\ Unfresh(b).safety = [b.safety EXCEPT !.offboard_heartbeat_fresh = FALSE]
        BY <1>1, <1>2, <3>1
      <3> QED BY <1>4, <3>2
    <2>2. CASE Domain(id) # "aerial"
      BY <1>1, <1>4, <2>2 DEF Unfresh
    <2> QED BY <2>1, <2>2
  <1> QED BY <1>3, <1>4, <1>5, <1>6, <1>7 DEF x

\* Events that fit leave a body in a state of its kernel, and up if it was and
\* they did not revoke.
Keeps(id, b, posts, r) ==
    /\ r.body \in Known(id) /\ r.error \in {"none", "Protocol", "Rejected"}
    /\ Up(b) => Up(r.body) \/ (r.error = "none" /\ revokes(id, posts))

LEMMA FittingKept ==
    ASSUME NEW id \in Id, NEW b \in Known(id), NEW posts, Fitting(id, b, posts)
    PROVE  LET r == Posted(b, posts) IN
           Keeps(id, b, posts, r) /\ r = [body |-> r.body, error |-> r.error]
  <1> DEFINE r == Posted(b, posts)
  <1>1. CASE posts \in Seq(Meek(id))
    <2>1. posts \in Seq(Told(id)) /\ ~revokes(id, posts)
      BY <1>1 DEF Meek, revokes
    <2>2. r \in [body : Known(id), error : {"none", "Rejected"}]
          /\ r = [body |-> r.body, error |-> r.error]
      BY <2>1, KnownPosted
    <2>3. Up(b) => Up(r.body)
      BY <2>1, UpPosted
    <2> HIDE DEF r
    <2>4. r.body \in Known(id) /\ r.error \in {"none", "Rejected"}
      BY <2>2
    <2> QED BY <2>2, <2>3, <2>4 DEF Keeps, r
  <1>2. ASSUME NEW e \in Told(id), posts = <<e>>
        PROVE  Keeps(id, b, posts, r) /\ r = [body |-> r.body, error |-> r.error]
    <2>1. r = Given(Fresh(b), e)
      BY <1>2, PostedOne
    <2>2. event_revokes(id, e) => revokes(id, posts)
      BY <1>2 DEF revokes
    <2>3. CASE Admits(b, e)
      <3>1. r = Fresh(Post(b, e)) /\ Post(b, e) \in Known(id)
        BY <2>1, <2>3, GivenTaken, KnownPost
      <3>2. Up(b) => Up(Post(b, e)) \/ revokes(id, posts)
        BY <2>2, <2>3, UpStays
      <3> DEFINE p == Post(b, e)
      <3> HIDE DEF r, p
      <3>3. r.body = p /\ r.error = "none" /\ r = [body |-> r.body, error |-> r.error]
        BY <3>1 DEF Fresh, p
      <3> QED BY <3>1, <3>2, <3>3 DEF Keeps, p, r
    <2>4. CASE ~Admits(b, e)
      <3>0. Fresh(b).error = "none" /\ Fresh(b).body = b
        BY DEF Fresh
      <3>1. r = [body |-> b, error |-> "Rejected"]
        <4>1. Given(Fresh(b), e) = [Fresh(b) EXCEPT !.error = "Rejected"]
          BY <2>4, <3>0, GivenRejected
        <4> HIDE DEF r
        <4> QED BY <2>1, <4>1 DEF Fresh
      <3> HIDE DEF r
      <3>2. r.body = b /\ r.error = "Rejected" /\ r = [body |-> r.body, error |-> r.error]
        BY <3>1
      <3> QED BY <3>2 DEF Keeps, r
    <2> QED BY <2>3, <2>4
  <1>3. CASE id = "drone" /\ ~Up(b) /\ posts = <<"Disarm", "Recover">>
    <2>1. posts \in Seq(Told(id))
      <3> DEFINE T == Told(id)
      <3>1. "Disarm" \in T /\ "Recover" \in T
        BY <1>3, MeekAre
      <3> HIDE DEF T
      <3>2. posts \in Seq(T)
        BY <1>3, <3>1
      <3> QED BY <3>2 DEF T
    <2>2. r \in [body : Known(id), error : {"none", "Rejected"}]
          /\ r = [body |-> r.body, error |-> r.error]
      BY <2>1, KnownPosted
    <2> HIDE DEF r
    <2> QED BY <1>3, <2>2 DEF Keeps, r
  <1> QED BY <1>1, <1>2, <1>3 DEF Fitting

\* A walk, and a call of the first walk that binds.
LEMMA TakenKept ==
    ASSUME NEW id \in Id, NEW b \in Known(id), NEW w,
           Kind(b) \in w.from => Fitting(id, b, w.posts) /\ Staging(id, b, w)
    PROVE  Keeps(id, b, w.posts, Attach(b, w)) /\ Keeps(id, b, w.posts, Taken(b, w))
  <1> DEFINE a == Attach(b, w)
             p == Posted(b, w.posts)
  <1>0. Up(b) /\ w.posts = mission => ~revokes(id, w.posts)
    <2>1. CASE id = "drone"
      <3>1. mission \in Seq(Meek("drone"))
        BY MeekChains
      <3> QED BY <2>1, <3>1 DEF revokes, Meek
    <2>2. CASE id # "drone"
      <3>1. \A e \in {"HeartbeatFresh", "MissionCommand"} : ~event_revokes(id, e)
        BY <2>2, Domains DEF event_revokes, Land!ground_event_revokes_authority,
           Sea!marine_event_revokes_authority
      <3>2. mission \in Seq({"HeartbeatFresh", "MissionCommand"})
        BY DEF mission
      <3> QED BY <3>1, <3>2 DEF revokes
    <2> QED BY <2>1, <2>2
  <1>1. Keeps(id, b, w.posts, a) /\ a = [body |-> a.body, error |-> a.error]
    <2>1. CASE Kind(b) \notin w.from \/ (w.live /\ ~b.safety.offboard_heartbeat_fresh)
      <3>1. a \in {[body |-> b, error |-> "Protocol"], [body |-> b, error |-> "Rejected"]}
        BY <2>1 DEF Attach
      <3> HIDE DEF a
      <3>2. a.body = b /\ a.error \in {"Protocol", "Rejected"}
            /\ a = [body |-> a.body, error |-> a.error]
        BY <3>1
      <3> QED BY <3>2 DEF Keeps
    <2>2. CASE Kind(b) \in w.from /\ ~(w.live /\ ~b.safety.offboard_heartbeat_fresh)
      <3> DEFINE x == p.body
                 s == Settled(x, w)
      <3>1. a = IF p.error = "none" THEN [p EXCEPT !.body = s] ELSE p
        BY <2>2 DEF Attach
      <3>2. Keeps(id, b, w.posts, p) /\ p = [body |-> p.body, error |-> p.error]
        BY <2>2, FittingKept
      <3>3. x \in Known(id)
        BY <3>2 DEF Keeps
      <3>4. ASSUME p.error = "none" PROVE s \in Known(id) /\ (Up(s) <=> Up(x))
        <4>1. /\ s \in {x, [x EXCEPT !.command = "hold"], [x EXCEPT !.command = "none"]}
              /\ w.stages # "hold" => s \in {x, [x EXCEPT !.command = "none"]}
          BY DEF Settled
        <4>3. w.stages = "hold" /\ id = "drone" => Up(x)
          <5>1. w.stages = "hold" /\ id = "drone" => Up(b) /\ ~revokes(id, w.posts)
            BY <1>0, <2>2 DEF Staging
          <5> HIDE DEF s
          <5> QED BY <3>2, <3>4, <5>1 DEF Keeps
        <4>2. "hold" \in Setpoint /\ "none" \in Setpoint
          BY DEF Setpoint
        <4> HIDE DEF x, s
        <4> QED BY <3>3, <4>1, <4>2, <4>3, Recommanded
      <3> HIDE DEF s, p, a
      <3>5. CASE p.error = "none"
        <4>1. a = [body |-> s, error |-> "none"]
          BY <3>1, <3>2, <3>5
        <4> HIDE DEF x
        <4>2. a.body = s /\ a.error = "none" /\ a = [body |-> a.body, error |-> a.error]
          BY <4>1
        <4> QED BY <3>2, <3>4, <3>5, <4>2 DEF Keeps, x
      <3>6. CASE p.error # "none"
        BY <3>1, <3>2, <3>6
      <3> QED BY <3>5, <3>6
    <2> QED BY <2>1, <2>2
  <1> DEFINE t == Taken(b, w)
  <1>2. /\ t \in {a, [a EXCEPT !.body.command = "velocity"]}
        /\ t # a => a.error = "none" /\ w.stages = "velocity"
    BY DEF Taken
  <1>4. a.error = "none" => Kind(b) \in w.from
    <2>1. Kind(b) \notin w.from => a = [body |-> b, error |-> "Protocol"]
      BY DEF Attach
    <2> HIDE DEF a
    <2> QED BY <2>1
  <1>3. Keeps(id, b, w.posts, t)
    <2> HIDE DEF a, t
    <2> DEFINE x == a.body
               v == [x EXCEPT !.command = "velocity"]
    <2>1. x \in Known(id)
      BY <1>1 DEF Keeps
    <2>2. ASSUME t # a PROVE v \in Known(id) /\ (Up(v) <=> Up(x))
      <3>1. "velocity" \in Setpoint
        BY DEF Setpoint
      <3>2. id = "drone" => Up(x)
        <4>1. id = "drone" => Up(b) /\ ~revokes(id, w.posts)
          BY <1>0, <1>2, <1>4, <2>2 DEF Staging
        <4> QED BY <1>1, <1>2, <2>2, <4>1 DEF Keeps
      <3> HIDE DEF x
      <3> QED BY <2>1, <3>1, <3>2, Recommanded
    <2>3. CASE t = a
      BY <1>1, <2>3
    <2>4. CASE t # a
      <3>1. t = [a EXCEPT !.body.command = "velocity"] /\ a.error = "none"
        BY <1>2, <2>4
      <3>2. t.body = v /\ t.error = a.error
        BY <1>1, <3>1
      <3> HIDE DEF x, v
      <3> QED BY <1>1, <2>2, <2>4, <3>1, <3>2 DEF Keeps, x
    <2> QED BY <2>3, <2>4
  <1> QED BY <1>1, <1>3

\* A call of walks of the lab: what it leaves, and what it tells the session.
LEMMA CallKept ==
    ASSUME NEW id \in Id, NEW b \in Known(id), NEW ws \in Seq(LabWalks(b))
    PROVE  LET r == try_attach(b, ws) IN
           /\ r.body \in Known(id)
           /\ Up(b) => Up(r.body) \/ (r.error = "none" /\ revokes(id, Bound(b, ws).posts))
  <1> DEFINE r == try_attach(b, ws)
             w == Bound(b, ws)
  <1>1. CASE Binding(b, ws) = {}
    <2>1. r = [body |-> b, error |-> "Protocol"]
      BY <1>1 DEF try_attach
    <2> HIDE DEF r
    <2>2. r.body = b
      BY <2>1
    <2> QED BY <2>2 DEF r
  <1>2. CASE Binding(b, ws) # {}
    <2>1. r = Taken(b, w)
      BY <1>2 DEF try_attach
    <2>2. w \in LabWalks(b) /\ Kind(b) \in w.from
      BY <1>2, BoundIs
    <2> HIDE DEF r, w
    <2>3. Fitting(id, b, w.posts) /\ Staging(id, b, w)
      BY <2>2, WalkFits
    <2>4. Keeps(id, b, w.posts, r)
      BY <2>1, <2>3, TakenKept
    <2> QED BY <2>4 DEF Keeps, r, w
  <1> QED BY <1>1, <1>2

\* The events of the commands, and which of them revoke.
LEMMA AirPosts ==
    ASSUME NEW b, NEW cmd \in DOMAIN aerial_events(b)
    PROVE  LET p == aerial_events(b)[cmd] IN
           \/ cmd \notin {"Disarm", "Failsafe", "Recover"} /\ p \in Seq(Meek("drone"))
           \/ cmd = "Disarm" /\ p = <<"Disarm">>
           \/ cmd = "Failsafe" /\ p = <<"TriggerFailsafe">>
           \/ cmd = "Recover" /\ p = <<"Recover">> /\ Admits(b, "Recover")
           \/ cmd = "Recover" /\ p = <<"Disarm", "Recover">> /\ ~Admits(b, "Recover")
  <1> DEFINE M == Meek("drone")
             arm == <<"Arm">>
             enable == <<"EnableActuators">>
             enter == <<"HeartbeatFresh", "EnterOffboard">>
             climb == <<"Takeoff">>
             aloft == <<"ReachedAltitude">>
             land == <<"Land">>
             down == <<"Touchdown">>
             none == <<>>
             disarm == <<"Disarm">>
             trip == <<"TriggerFailsafe">>
             recover == IF Admits(b, "Recover") THEN <<"Recover">> ELSE <<"Disarm", "Recover">>
  <1>1. aerial_events(b) =
          [Arm |-> arm, Disarm |-> disarm, EnableActuators |-> enable, Offboard |-> enter,
           Takeoff |-> climb, Airborne |-> aloft, Land |-> land, Touchdown |-> down,
           Failsafe |-> trip, SetCharge |-> none, Velocity |-> mission, Drive |-> mission,
           Thrust |-> mission, Position |-> mission, Hold |-> mission, Recover |-> recover]
    BY DEF aerial_events
  <1>2. /\ arm \in Seq(M) /\ enable \in Seq(M) /\ climb \in Seq(M) /\ aloft \in Seq(M)
        /\ land \in Seq(M) /\ down \in Seq(M) /\ none \in Seq(M) /\ enter \in Seq(M)
        /\ mission \in Seq(M)
    <2>1. /\ "Arm" \in M /\ "EnableActuators" \in M /\ "Takeoff" \in M
          /\ "ReachedAltitude" \in M /\ "Land" \in M /\ "Touchdown" \in M
      BY MeekAre
    <2>2. enter \in Seq(M) /\ mission \in Seq(M)
      BY MeekChains
    <2> HIDE DEF M, enter
    <2> QED BY <2>1, <2>2
  <1> HIDE DEF M, arm, enable, enter, climb, aloft, land, down, none, disarm, trip, recover
  <1>3. \/ cmd \notin {"Disarm", "Failsafe", "Recover"} /\ aerial_events(b)[cmd] \in Seq(M)
        \/ cmd = "Disarm" /\ aerial_events(b)[cmd] = disarm
        \/ cmd = "Failsafe" /\ aerial_events(b)[cmd] = trip
        \/ cmd = "Recover" /\ aerial_events(b)[cmd] = recover
    BY <1>1, <1>2
  <1> QED BY <1>3 DEF M, disarm, trip, recover

LEMMA LandPosts ==
    ASSUME NEW cmd \in DOMAIN ground_events
    PROVE  LET p == ground_events[cmd] IN
           \/ p = <<>> /\ cmd \notin {"Failsafe", "Estop", "Halt", "Park"}
           \/ \E e \in Land!GroundEvent :
                /\ p = <<e>>
                /\ e = "EStop" => cmd \in {"Failsafe", "Estop"}
                /\ e = "Halt" => cmd \in {"Halt", "Park"}
  <1> DEFINE stop == <<"EStop">>
             release == <<"Release">>
             halt == <<"Halt">>
             clear == <<"ClearEstop">>
             none == <<>>
             drive == <<"DriveCommand">>
  <1>1. ground_events =
          [Failsafe |-> stop, Estop |-> stop, Release |-> release, Halt |-> halt,
           Park |-> halt, Clear |-> clear, SetCharge |-> none, Velocity |-> drive,
           Drive |-> drive, Thrust |-> drive, Hold |-> drive]
    BY DEF ground_events
  <1> HIDE DEF stop, release, halt, clear, none, drive
  <1>2. \/ cmd \in {"Failsafe", "Estop"} /\ ground_events[cmd] = stop
        \/ cmd \in {"Halt", "Park"} /\ ground_events[cmd] = halt
        \/ ground_events[cmd] \in {release, clear, drive}
        \/ cmd = "SetCharge" /\ ground_events[cmd] = none
    BY <1>1
  <1> QED BY <1>2 DEF stop, release, halt, clear, none, drive, Land!GroundEvent

LEMMA SeaPosts ==
    ASSUME NEW cmd \in DOMAIN marine_events
    PROVE  LET p == marine_events[cmd] IN
           \/ p = <<>> /\ cmd \notin {"Failsafe", "Dock"}
           \/ \E e \in Sea!MarineEvent :
                /\ p = <<e>>
                /\ e = "Failsafe" => cmd = "Failsafe"
                /\ e = "Dock" => cmd = "Dock"
  <1> DEFINE trip == <<"Failsafe">>
             undock == <<"Undock">>
             dock == <<"Dock">>
             station == <<"Station">>
             resume == <<"Resume">>
             recover == <<"Recover">>
             none == <<>>
             thrust == <<"ThrustCommand">>
  <1>1. marine_events =
          [Failsafe |-> trip, Undock |-> undock, Dock |-> dock, Station |-> station,
           Resume |-> resume, Recover |-> recover, SetCharge |-> none, Velocity |-> thrust,
           Drive |-> thrust, Thrust |-> thrust, Hold |-> thrust]
    BY DEF marine_events
  <1> HIDE DEF trip, undock, dock, station, resume, recover, none, thrust
  <1>2. \/ cmd = "Failsafe" /\ marine_events[cmd] = trip
        \/ cmd = "Dock" /\ marine_events[cmd] = dock
        \/ marine_events[cmd] \in {undock, station, resume, recover, thrust}
        \/ cmd = "SetCharge" /\ marine_events[cmd] = none
    BY <1>1
  <1> QED BY <1>2 DEF trip, undock, dock, station, resume, recover, none, thrust, Sea!MarineEvent

\* The walk of a command that revokes binds every body that is up.
LEMMA OneBinds ==
    ASSUME NEW b, NEW w, Kind(b) \in w.from
    PROVE  Binding(b, <<w>>) # {}
  <1> DEFINE ws == <<w>>
  <1>1. 1 \in DOMAIN ws /\ ws[1] = w
    OBVIOUS
  <1> HIDE DEF ws
  <1>2. 1 \in Binding(b, ws)
    BY <1>1 DEF Binding
  <1> QED BY <1>2 DEF ws

LEMMA AirBinds ==
    ASSUME NEW b, b.id = "drone", Up(b)
    PROVE  Binding(b, walks(b, "Disarm")) # {} /\ Binding(b, walks(b, "Failsafe")) # {}
  <1>1. Kind(b) \in attach_disarm.from /\ Kind(b) \in attach_failsafe.from
    BY Domains DEF Up, UpKinds, attach_disarm, attach_failsafe, Walk
  <1>2. walks(b, "Disarm") = <<attach_disarm>> /\ walks(b, "Failsafe") = <<attach_failsafe>>
    <2>1. walks(b, "Disarm") = IF "Disarm" \in DOMAIN aerial_walks(b)
                                 THEN aerial_walks(b)["Disarm"] ELSE <<>>
      BY Domains DEF walks
    <2>2. walks(b, "Failsafe") = IF "Failsafe" \in DOMAIN aerial_walks(b)
                                   THEN aerial_walks(b)["Failsafe"] ELSE <<>>
      BY Domains DEF walks
    <2>3. /\ "Disarm" \in DOMAIN aerial_walks(b) /\ "Failsafe" \in DOMAIN aerial_walks(b)
          /\ aerial_walks(b)["Disarm"] = <<attach_disarm>>
          /\ aerial_walks(b)["Failsafe"] = <<attach_failsafe>>
      BY DEF aerial_walks
    <2> QED BY <2>1, <2>2, <2>3
  <1> QED BY <1>1, <1>2, OneBinds

LEMMA LandBinds ==
    ASSUME NEW b, b.id = "rover", Up(b)
    PROVE  /\ Binding(b, walks(b, "Estop")) # {} /\ Binding(b, walks(b, "Failsafe")) # {}
           /\ Kind(b) = "Moving" => /\ Binding(b, walks(b, "Halt")) # {}
                                    /\ Binding(b, walks(b, "Park")) # {}
  <1>1. Kind(b) \in attach_estop.from /\ (Kind(b) = "Moving" => Kind(b) \in attach_park.from)
    BY Domains DEF Up, UpKinds, attach_estop, attach_park, Walk
  <1>2. /\ walks(b, "Estop") = <<attach_estop>> /\ walks(b, "Failsafe") = <<attach_estop>>
        /\ walks(b, "Halt") = <<attach_park>> /\ walks(b, "Park") = <<attach_park>>
    <2>1. \A cmd : walks(b, cmd) = IF cmd \in DOMAIN ground_walks THEN ground_walks[cmd] ELSE <<>>
      BY Domains DEF walks
    <2>2. /\ {"Estop", "Failsafe", "Halt", "Park"} \subseteq DOMAIN ground_walks
          /\ ground_walks["Estop"] = <<attach_estop>> /\ ground_walks["Failsafe"] = <<attach_estop>>
          /\ ground_walks["Halt"] = <<attach_park>> /\ ground_walks["Park"] = <<attach_park>>
      BY DEF ground_walks
    <2> QED BY <2>1, <2>2
  <1> QED BY <1>1, <1>2, OneBinds

LEMMA SeaBinds ==
    ASSUME NEW b, b.id \in {"skiff", "surveyor"}, Up(b)
    PROVE  Binding(b, walks(b, "Dock")) # {} /\ Binding(b, walks(b, "Failsafe")) # {}
  <1>1. Kind(b) \in attach_dock.from /\ Kind(b) \in attach_marine_failsafe.from
    BY Domains DEF Up, UpKinds, attach_dock, attach_marine_failsafe, Walk
  <1>2. walks(b, "Dock") = <<attach_dock>> /\ walks(b, "Failsafe") = <<attach_marine_failsafe>>
    <2>1. \A cmd : walks(b, cmd) = IF cmd \in DOMAIN marine_walks THEN marine_walks[cmd] ELSE <<>>
      BY Domains DEF walks
    <2>2. /\ {"Dock", "Failsafe"} \subseteq DOMAIN marine_walks
          /\ marine_walks["Dock"] = <<attach_dock>>
          /\ marine_walks["Failsafe"] = <<attach_marine_failsafe>>
      BY DEF marine_walks
    <2> QED BY <2>1, <2>2
  <1> QED BY <1>1, <1>2, OneBinds

\* A vehicle that is up is disarmed by a recover, and the recover is refused.
LEMMA RecoverUp ==
    ASSUME NEW b \in Known("drone"), Up(b)
    PROVE  ~Admits(b, "Recover") /\ Posted(b, <<"Disarm", "Recover">>).error # "none"
  <1>0. "drone" \in Id /\ b.id = "drone"
    BY Domains, KnownIs
  <1>1. b.safety \in Piloted /\ ~b.safety.failsafe /\ b.safety.phase \in UpPhases
    BY <1>0, KnownIs, UpIs
  <1>2. Air!LegalIn("Recover") = {"Recovery"}
    BY DEF Air!LegalIn
  <1>3. ~Admits(b, "Recover")
    BY <1>0, <1>1, <1>2, Domains DEF Admits, Air!Admits, UpPhases
  <1> DEFINE p == Posted(b, <<"Disarm", "Recover">>)
             q == Post(b, "Disarm")
  <1>4. p = Given(Given(Fresh(b), "Disarm"), "Recover")
    BY PostedTwo
  <1>5. CASE Admits(b, "Disarm")
    <2>1. "Disarm" \in Told("drone")
      BY MeekAre
    <2>2. q \in Known("drone") /\ q.safety = After(b, "Disarm")
      BY <1>0, <1>5, <2>1, KnownPost
    <2>3. q.id = "drone" /\ q.safety = Air!After(b.safety, "Disarm")
      BY <1>0, <2>2, KnownIs, Domains DEF After
    <2>4. q.safety.phase = "Ready"
      <3>1. Air!After(b.safety, "Disarm") = Air!Grounded(b.safety, "Ready")
        BY <1>1 DEF Air!After
      <3>2. Air!Grounded(b.safety, "Ready").phase = "Ready"
        BY ZenonT(60), <1>1 DEF Air!Grounded, Piloted, Air!SafetyState
      <3> QED BY <2>3, <3>1, <3>2
    <2>5. ~Admits(q, "Recover")
      <3> HIDE DEF q
      <3> QED BY <1>2, <2>3, <2>4, Domains DEF Admits, Air!Admits
    <2>6. Given(Fresh(b), "Disarm") = Fresh(q)
      BY <1>5, GivenTaken
    <2> HIDE DEF q
    <2>7. p = [Fresh(q) EXCEPT !.error = "Rejected"]
      <3>1. Fresh(q).error = "none" /\ Fresh(q).body = q
        BY DEF Fresh
      <3> QED BY <1>4, <2>5, <2>6, <3>1, GivenRejected
    <2> HIDE DEF p
    <2>8. p.error = "Rejected"
      BY <2>7 DEF Fresh
    <2> QED BY <1>3, <2>8 DEF p
  <1>6. CASE ~Admits(b, "Disarm")
    <2>1. Given(Fresh(b), "Disarm") = [Fresh(b) EXCEPT !.error = "Rejected"]
      <3>1. Fresh(b).error = "none" /\ Fresh(b).body = b
        BY DEF Fresh
      <3> QED BY <1>6, <3>1, GivenRejected
    <2> DEFINE r == [Fresh(b) EXCEPT !.error = "Rejected"]
    <2>2. r.error = "Rejected"
      BY DEF Fresh
    <2> HIDE DEF r
    <2>3. Given(r, "Recover") = r
      BY <2>2, GivenRefused
    <2>4. p = r
      BY <1>4, <2>1, <2>3 DEF r
    <2> HIDE DEF p
    <2>5. p.error # "none"
      BY <2>2, <2>4
    <2> QED BY <1>3, <2>5 DEF p
  <1> QED BY <1>5, <1>6

\* The events of a command are the events of a walk's sort; a recover is not, for
\* a vehicle that is up.
LEMMA CommandFits ==
    ASSUME NEW id \in Id, NEW b \in Known(id), NEW cmd \in DOMAIN events(b)
    PROVE  \/ Fitting(id, b, events(b)[cmd])
           \/ id = "drone" /\ Up(b) /\ cmd = "Recover" /\ events(b)[cmd] = <<"Disarm", "Recover">>
  <1>0. b.id = id /\ <<>> \in Seq(Meek(id))
    BY KnownIs
  <1>1. CASE id = "drone"
    <2>1. events(b) = aerial_events(b)
      BY <1>0, <1>1, Domains DEF events
    <2> DEFINE p == aerial_events(b)[cmd]
    <2>2. \/ p \in Seq(Meek("drone"))
          \/ p = <<"Disarm">> \/ p = <<"TriggerFailsafe">> \/ p = <<"Recover">>
          \/ cmd = "Recover" /\ p = <<"Disarm", "Recover">>
      BY <2>1, AirPosts
    <2> HIDE DEF p
    <2>3. "Recover" \in Told("drone")
      BY MeekAre
    <2>4. \/ Fitting("drone", b, p)
          \/ Up(b) /\ cmd = "Recover" /\ p = <<"Disarm", "Recover">>
      BY <2>2, <2>3, MeekAre DEF Fitting
    <2> QED BY <1>1, <2>1, <2>4 DEF p
  <1>2. CASE id = "rover"
    <2>1. events(b) = ground_events
      BY <1>0, <1>2, Domains DEF events
    <2> DEFINE p == ground_events[cmd]
    <2>2. p = <<>> \/ \E e \in Told("rover") : p = <<e>>
      BY <2>1, LandPosts, MeekAre
    <2> HIDE DEF p
    <2>3. Fitting(id, b, p)
      BY <1>0, <1>2, <2>2 DEF Fitting
    <2> QED BY <2>1, <2>3 DEF p
  <1>3. CASE id \in {"skiff", "surveyor"}
    <2>1. events(b) = marine_events
      BY <1>0, <1>3, Domains DEF events
    <2> DEFINE p == marine_events[cmd]
    <2>2. p = <<>> \/ \E e \in Told(id) : p = <<e>>
      BY <1>3, <2>1, SeaPosts, MeekAre
    <2> HIDE DEF p
    <2>3. Fitting(id, b, p)
      BY <1>0, <2>2 DEF Fitting
    <2> QED BY <2>1, <2>3 DEF p
  <1> QED BY <1>1, <1>2, <1>3, Domains

\* What a command that is posted leaves: a vehicle that takes a setpoint is up.
Missions == {"Velocity", "Drive", "Thrust", "Position", "Hold"}

LEMMA CommandedKept ==
    ASSUME NEW id \in Id, NEW b \in Known(id), NEW cmd,
           id = "drone" /\ cmd \in Missions => Up(b)
    PROVE  Commanded(b, cmd) \in Known(id) /\ (Up(Commanded(b, cmd)) <=> Up(b))
  <1>1. /\ Commanded(b, cmd) \in {b, [b EXCEPT !.command = "velocity"],
                                  [b EXCEPT !.command = "hold"]}
        /\ cmd \notin Missions => Commanded(b, cmd) = b
    BY DEF Commanded, Missions
  <1>2. "hold" \in Setpoint /\ "velocity" \in Setpoint
    BY DEF Setpoint
  <1> QED BY <1>1, <1>2, Recommanded

\* A setpoint that is taken is taken by a vehicle that is up.
LEMMA MissionPosts ==
    ASSUME NEW b \in Known("drone"), NEW cmd \in Missions
    PROVE  events(b)[cmd] = mission
  <1>1. events(b) = aerial_events(b)
    BY KnownIs, Domains DEF events
  <1>2. \A c \in Missions : aerial_events(b)[c] = mission
    <2> DEFINE recover == IF Admits(b, "Recover") THEN <<"Recover">> ELSE <<"Disarm", "Recover">>
    <2>1. aerial_events(b) =
          [Arm |-> <<"Arm">>, Disarm |-> <<"Disarm">>, EnableActuators |-> <<"EnableActuators">>,
           Offboard |-> <<"HeartbeatFresh", "EnterOffboard">>, Takeoff |-> <<"Takeoff">>,
           Airborne |-> <<"ReachedAltitude">>, Land |-> <<"Land">>, Touchdown |-> <<"Touchdown">>,
           Failsafe |-> <<"TriggerFailsafe">>, SetCharge |-> <<>>,
           Velocity |-> mission, Drive |-> mission, Thrust |-> mission, Position |-> mission,
           Hold |-> mission, Recover |-> recover]
      BY DEF aerial_events
    <2> HIDE DEF recover
    <2> QED BY <2>1 DEF Missions
  <1> QED BY <1>1, <1>2

LEMMA MissionUp ==
    ASSUME NEW b \in Known("drone"), Posted(b, mission).error = "none"
    PROVE  Up(Posted(b, mission).body)
  <1> DEFINE p == Posted(b, mission)
             q == Given(Fresh(b), "HeartbeatFresh")
             m == "MissionCommand"
  <1>0. "drone" \in Id /\ b.id = "drone"
    BY Domains, KnownIs
  <1>1. p = Given(q, m)
    BY PostedTwo DEF mission
  <1>2. q \in [body : Known("drone"), error : {"none", "Rejected"}]
    <2>1. <<"HeartbeatFresh">> \in Seq(Told("drone"))
      <3> DEFINE T == Told("drone")
      <3>1. "HeartbeatFresh" \in T
        BY MeekAre
      <3> HIDE DEF T
      <3>2. <<"HeartbeatFresh">> \in Seq(T)
        BY <3>1
      <3> QED BY <3>2 DEF T
    <2>2. Posted(b, <<"HeartbeatFresh">>) \in [body : Known("drone"), error : {"none", "Rejected"}]
      BY <1>0, <2>1, KnownPosted
    <2>3. Posted(b, <<"HeartbeatFresh">>) = q
      BY PostedOne
    <2> HIDE DEF q
    <2> QED BY <2>2, <2>3
  <1>3. p.error = "none"
    OBVIOUS
  <1> DEFINE x == q.body
  <1> HIDE DEF p, q
  <1>4. q = Fresh(x) /\ x \in Known("drone")
    <2>1. q.error # "none" => p = q
      BY <1>1, GivenRefused
    <2> QED BY <1>2, <1>3, <2>1 DEF Fresh
  <1> HIDE DEF x
  <1>5. Admits(x, m)
    <2>1. ~Admits(x, m) => p = [Fresh(x) EXCEPT !.error = "Rejected"]
      <3>1. Fresh(x).error = "none" /\ Fresh(x).body = x
        BY DEF Fresh
      <3> QED BY <1>1, <1>4, <3>1, GivenRejected
    <2>2. [Fresh(x) EXCEPT !.error = "Rejected"].error = "Rejected"
      BY DEF Fresh
    <2> QED BY <1>3, <2>1, <2>2
  <1>6. p = Fresh(Post(x, m))
    BY <1>1, <1>4, <1>5, GivenTaken
  <1>7. x.id = "drone" /\ x.safety \in Piloted /\ Air!Admits(x.safety, m)
    BY <1>0, <1>4, <1>5, KnownIs, Domains DEF Admits
  <1>8. ~x.safety.failsafe /\ x.safety.phase \in UpPhases
    BY <1>7 DEF Air!Admits, Air!Latched, Air!NeedsArmed, Piloted, Air!InFlight, UpPhases,
                Air!CheckInvariants
  <1>9. Up(x)
    BY <1>0, <1>4, <1>8, UpIs
  <1>10. Up(Post(x, m))
    <2>1. m \in Told("drone") /\ ~event_revokes("drone", m)
      BY MeekAre DEF Meek
    <2> QED BY <1>0, <1>4, <1>5, <1>9, <2>1, UpStays
  <1> DEFINE y == Post(x, m)
  <1> HIDE DEF y
  <1>11. p.body = y
    BY <1>6 DEF Fresh, y
  <1> QED BY <1>10, <1>11 DEF p, y

LEMMA JsonKept ==
    ASSUME NEW id \in Id, NEW b \in Known(id), NEW cmd
    PROVE  LET r == apply_action(b, cmd)
               told == cmd \notin ENV /\ r.error = "none" /\ revokes(id, events(b)[cmd]) IN
           r.body \in Known(id) /\ (Up(b) => Up(r.body) \/ told)
  <1> DEFINE r == apply_action(b, cmd)
             told == cmd \notin ENV /\ r.error = "none" /\ revokes(id, events(b)[cmd])
             x == r.body
  <1>1. CASE cmd \in ENV \/ cmd \notin DOMAIN events(b)
    <2>1. r = [body |-> b, error |-> "none"] \/ r = [body |-> b, error |-> "WrongDomain"]
      BY <1>1 DEF apply_action
    <2> HIDE DEF r, told
    <2>2. x = b
      BY <2>1
    <2> HIDE DEF x
    <2> QED BY <2>2 DEF x, r, told
  <1>2. CASE cmd \notin ENV /\ cmd \in DOMAIN events(b)
    <2> DEFINE posts == events(b)[cmd]
               p == Posted(b, posts)
               y == p.body
               c == Commanded(y, cmd)
    <2>1. r = IF p.error = "none" THEN [p EXCEPT !.body = c]
              ELSE IF cmd = "Recover" THEN [p EXCEPT !.body = b] ELSE p
      BY <1>2 DEF apply_action
    <2>2. CASE Fitting(id, b, posts)
      <3>1. Keeps(id, b, posts, p) /\ p = [body |-> p.body, error |-> p.error]
        BY <2>2, FittingKept
      <3>2. y \in Known(id)
        BY <3>1 DEF Keeps
      <3>3. ASSUME p.error = "none" PROVE c \in Known(id) /\ (Up(c) <=> Up(y))
        <4>1. id = "drone" /\ cmd \in Missions => Up(y)
          <5>1. SUFFICES ASSUME id = "drone", cmd \in Missions PROVE Up(y)
            OBVIOUS
          <5>2. posts = mission
            BY <1>2, <5>1, MissionPosts
          <5>3. b \in Known("drone") /\ p = Posted(b, mission)
            BY <5>1, <5>2
          <5> HIDE DEF p, posts, r, told
          <5>4. Posted(b, mission).error = "none"
            BY <3>3, <5>3
          <5>5. Up(Posted(b, mission).body)
            BY <5>3, <5>4, MissionUp
          <5> QED BY <5>3, <5>5
        <4> HIDE DEF p, y, posts, r, told
        <4>2. Commanded(y, cmd) \in Known(id) /\ (Up(Commanded(y, cmd)) <=> Up(y))
          BY <3>2, <4>1, CommandedKept
        <4> QED BY <4>2
      <3> HIDE DEF r, p, c, posts
      <3>4. CASE p.error = "none"
        <4>1. x = c /\ r.error = "none"
          BY <2>1, <3>1, <3>4
        <4>2. Up(b) => Up(y) \/ revokes(id, posts)
          BY <3>1 DEF Keeps
        <4>3. x \in Known(id) /\ (Up(x) <=> Up(y))
          <5> HIDE DEF y, x, told
          <5> QED BY <3>3, <3>4, <4>1
        <4>4. told <=> revokes(id, posts)
          BY <1>2, <4>1 DEF posts
        <4> HIDE DEF x, y, told
        <4>5. Up(b) => Up(x) \/ told
          BY <4>2, <4>3, <4>4
        <4> QED BY <4>3, <4>5 DEF x, told, r
      <3>5. CASE p.error # "none"
        <4>1. x \in {b, y}
          BY <2>1, <3>1, <3>5
        <4>2. Up(b) => Up(y)
          BY <3>1, <3>5 DEF Keeps
        <4>3. x \in Known(id) /\ (Up(b) => Up(x))
          <5> HIDE DEF x, y
          <5> QED BY <3>2, <4>1, <4>2
        <4> HIDE DEF x, told
        <4> QED BY <4>3 DEF x, told, r
      <3> QED BY <3>4, <3>5
    <2>3. CASE id = "drone" /\ Up(b) /\ cmd = "Recover" /\ posts = <<"Disarm", "Recover">>
      <3>1. p.error # "none"
        BY <2>3, RecoverUp
      <3>2. r = [p EXCEPT !.body = b]
        BY <2>1, <2>3, <3>1
      <3>3. "Disarm" \in Told(id) /\ "Recover" \in Told(id)
        BY <2>3, MeekAre
      <3>4. posts \in Seq(Told(id))
        <4> DEFINE T == Told(id)
        <4> HIDE DEF T
        <4>1. <<"Disarm", "Recover">> \in Seq(T)
          BY <3>3 DEF T
        <4> QED BY <2>3, <4>1 DEF T
      <3>5. p = [body |-> p.body, error |-> p.error]
        BY <3>4, KnownPosted
      <3> HIDE DEF p, r, told
      <3>6. x = b
        BY <3>2, <3>5
      <3> HIDE DEF x
      <3> QED BY <3>6 DEF x, told, r
    <2> QED BY <1>2, <2>2, <2>3, CommandFits
  <1> QED BY <1>1, <1>2

LEMMA JsonRevokes ==
    ASSUME NEW id \in Id, NEW b \in Known(id), Up(b), NEW cmd, cmd \notin ENV,
           Binding(b, walks(b, cmd)) = {}, apply_action(b, cmd).error = "none"
    PROVE  ~revokes(id, events(b)[cmd])
  <1>0. b.id = id
    BY KnownIs
  <1> DEFINE posts == events(b)[cmd]
             p == Posted(b, posts)
             r == apply_action(b, cmd)
  <1>1. cmd \in DOMAIN events(b)
    BY DEF apply_action
  <1>2. r = IF p.error = "none" THEN [p EXCEPT !.body = Commanded(p.body, cmd)]
            ELSE IF cmd = "Recover" THEN [p EXCEPT !.body = b] ELSE p
    BY <1>1 DEF apply_action
  <1>3. p.error = "none"
    <2>1. CASE Fitting(id, b, posts)
      <3>1. p = [body |-> p.body, error |-> p.error]
        BY <2>1, FittingKept
      <3>2. r.error = "none"
        OBVIOUS
      <3> HIDE DEF r, p
      <3> QED BY <1>2, <3>1, <3>2
    <2>2. CASE id = "drone" /\ cmd = "Recover" /\ posts = <<"Disarm", "Recover">>
      <3>1. "Disarm" \in Told(id) /\ "Recover" \in Told(id)
        BY <2>2, MeekAre
      <3>2. posts \in Seq(Told(id))
        <4> DEFINE T == Told(id)
        <4> HIDE DEF T
        <4>1. <<"Disarm", "Recover">> \in Seq(T)
          BY <3>1 DEF T
        <4> QED BY <2>2, <4>1 DEF T
      <3>3. p = [body |-> p.body, error |-> p.error]
        BY <3>2, KnownPosted
      <3>4. r.error = "none"
        OBVIOUS
      <3> HIDE DEF r, p
      <3> QED BY <1>2, <3>3, <3>4
    <2> QED BY <1>1, <2>1, <2>2, CommandFits
  <1>4. CASE id = "drone"
    <2>1. events(b) = aerial_events(b)
      BY <1>0, <1>4, Domains DEF events
    <2>2. cmd \notin {"Disarm", "Failsafe"}
      BY <1>0, <1>4, AirBinds
    <2>3. ~(cmd = "Recover")
      <3>1. SUFFICES ASSUME cmd = "Recover" PROVE FALSE
        OBVIOUS
      <3>2. ~Admits(b, "Recover") /\ Posted(b, <<"Disarm", "Recover">>).error # "none"
        BY <1>4, RecoverUp
      <3>3. posts = <<"Disarm", "Recover">>
        BY <1>1, <2>1, <3>1, <3>2, AirPosts
      <3> QED BY <1>3, <3>2, <3>3
    <2>4. posts \in Seq(Meek("drone"))
      BY <1>1, <2>1, <2>2, <2>3, AirPosts
    <2> HIDE DEF posts
    <2> QED BY <1>4, <2>4 DEF Meek, revokes, posts
  <1>5. CASE id = "rover"
    <2>1. events(b) = ground_events
      BY <1>0, <1>5, Domains DEF events
    <2>2. /\ cmd \notin {"Estop", "Failsafe"}
          /\ Kind(b) = "Moving" => cmd \notin {"Halt", "Park"}
      BY <1>0, <1>5, LandBinds
    <2>3. \/ posts = <<>>
          \/ \E e \in Land!GroundEvent :
               posts = <<e>> /\ e # "EStop" /\ (e = "Halt" => cmd \in {"Halt", "Park"})
      BY <1>1, <2>1, <2>2, LandPosts
    <2>4. ASSUME posts = <<"Halt">>, cmd \in {"Halt", "Park"} PROVE FALSE
      <3>1. p = Given(Fresh(b), "Halt")
        BY <2>4, PostedOne
      <3>2. Admits(b, "Halt")
        <4>1. Fresh(b).error = "none" /\ Fresh(b).body = b
          BY DEF Fresh
        <4>2. ~Admits(b, "Halt") =>
                Given(Fresh(b), "Halt") = [Fresh(b) EXCEPT !.error = "Rejected"]
          BY <4>1, GivenRejected
        <4>3. ~Admits(b, "Halt") => Given(Fresh(b), "Halt").error = "Rejected"
          BY <4>2 DEF Fresh
        <4> HIDE DEF p
        <4> QED BY <1>3, <3>1, <4>3 DEF p
      <3>3. b.safety.phase = "Moving" /\ b.safety \in Land!GroundState
        <4>1. Land!Admits(b.safety, "Halt") /\ b.safety \in Land!GroundState
          BY <1>0, <1>5, <3>2, KnownIs, Domains DEF Admits
        <4> QED BY <4>1 DEF Land!Admits
      <3>4. Kind(b) = "Moving"
        BY <1>0, <1>5, <3>3, Domains DEF Kind, Land!ground_kind, Land!GroundState,
           Land!ground_invariants
      <3> QED BY <2>2, <2>4, <3>4
    <2>5. posts = <<>> \/ \E e : posts = <<e>> /\ e \notin {"EStop", "Halt"}
      BY <2>3, <2>4
    <2>6. \A e : event_revokes(id, e) => e \in {"EStop", "Halt"}
      BY <1>5, Domains DEF event_revokes, Land!ground_event_revokes_authority
    <2> HIDE DEF posts
    <2> QED BY <2>5, <2>6 DEF revokes, posts
  <1>6. CASE id \in {"skiff", "surveyor"}
    <2>1. events(b) = marine_events
      BY <1>0, <1>6, Domains DEF events
    <2>2. cmd \notin {"Dock", "Failsafe"}
      BY <1>0, <1>6, SeaBinds
    <2>3. posts = <<>> \/ \E e : posts = <<e>> /\ e \notin {"Failsafe", "Dock"}
      BY <1>1, <2>1, <2>2, SeaPosts
    <2>4. \A e : event_revokes(id, e) => e \in {"Failsafe", "Dock"}
      BY <1>6, Domains DEF event_revokes, Sea!marine_event_revokes_authority
    <2> HIDE DEF posts
    <2> QED BY <2>3, <2>4 DEF revokes, posts
  <1> QED BY <1>4, <1>5, <1>6, Domains

-----------------------------------------------------------------------------
(* The bodies and the permits of a lab, through every step.                *)

\* What a lab's bodies can be, and whose permit is current.
Permits_ == {"none", "current", "stale", "act"}
LabKnown ==
    /\ Present \subseteq Id
    /\ body = [id \in Present |-> body[id]] /\ leftover = [id \in Present |-> leftover[id]]
    /\ \A id \in Present : body[id] \in Known(id) /\ leftover[id] \in Permits_
    /\ \A id \in Present : leftover[id] = "current" => Up(body[id])

\* The moves of a step: at most one body moves, save that a step of the lab and a
\* fresh lab set them all.
Posts(id, cmd, api) ==
    LET r == apply_action(body[id], cmd) IN
    /\ body' = [body EXCEPT ![id] = r.body]
    /\ leftover' = IF r.error = "none"
                   THEN Kept(leftover, id, IF cmd \in ENV THEN <<>> ELSE events(body[id])[cmd], api)
                   ELSE leftover
    /\ api \in {"act", "attach"}
    /\ api = "attach" => Binding(body[id], walks(body[id], cmd)) = {}
Walks(id, ws) ==
    LET r == try_attach(body[id], ws) IN
    /\ body' = [body EXCEPT ![id] = r.body]
    /\ leftover' = IF r.error = "none" THEN Bumped(leftover, id, Bound(body[id], ws).posts)
                                       ELSE leftover
    /\ id \in Present /\ body[id].id = id => ws \in Seq(LabWalks(body[id]))

LEMMA JsonMoves ==
    ASSUME NEW id, NEW cmd, NEW api \in {"act", "attach"}, json(id, cmd, api),
           api = "attach" => Binding(body[id], walks(body[id], cmd)) = {}
    PROVE  Posts(id, cmd, api)
  BY DEF json, Posts

LEMMA WalkMoves ==
    ASSUME NEW id, NEW ws, NEW log, walk(id, ws, log),
           id \in Present /\ body[id].id = id => ws \in Seq(LabWalks(body[id]))
    PROVE  Walks(id, ws)
  BY DEF walk, Walks

LEMMA ApplyMoves ==
    ASSUME apply, Present \subseteq Id
    PROVE  \/ \E id, cmd, api : Posts(id, cmd, api)
           \/ \E id, ws : Walks(id, ws)
  <1> DEFINE id == pending.id
             cmd == pending.cmd
             ws == walks(body[id], cmd)
  <1>1. CASE pending.api = "act"
    <2>1. json(id, cmd, "act")
      BY <1>1 DEF apply
    <2> HIDE DEF id, cmd, ws
    <2>2. Posts(id, cmd, "act")
      BY <2>1, JsonMoves
    <2> QED BY <2>2
  <1>2. CASE pending.api # "act" /\ Binding(body[id], ws) = {}
    <2>1. json(id, cmd, "attach")
      BY <1>2 DEF apply
    <2>2. Binding(body[id], walks(body[id], cmd)) = {}
      BY <1>2
    <2> HIDE DEF id, cmd, ws
    <2>3. Posts(id, cmd, "attach")
      BY <2>1, <2>2, JsonMoves
    <2> QED BY <2>3
  <1>3. CASE pending.api # "act" /\ Binding(body[id], ws) # {}
    <2>1. walk(id, ws, logs(body[id], cmd))
      BY <1>3 DEF apply
    <2>2. ASSUME id \in Present, body[id].id = id PROVE ws \in Seq(LabWalks(body[id]))
      BY <2>2, WaysOf
    <2> HIDE DEF id, cmd, ws
    <2>3. Walks(id, ws)
      BY <2>1, <2>2, WalkMoves
    <2> QED BY <2>3
  <1> QED BY <1>1, <1>2, <1>3

LEMMA OthersMove ==
    ASSUME others, Present \subseteq Id
    PROVE  \/ \E id, ws : Walks(id, ws)
           \/ \E e : inject(e)
  <1>1. CASE \E e \in Revokes : inject(e)
    BY <1>1
  <1>2. ASSUME NEW id \in Present, NEW cmd, elsewhere(id, cmd)
        PROVE  \E i, ws : Walks(i, ws)
    <2> DEFINE ws == walks(body[id], cmd)
    <2>1. body[id].id = id => ws \in Seq(LabWalks(body[id]))
      BY WaysOf
    <2>2. LET r == try_attach(body[id], ws) IN
          /\ body' = [body EXCEPT ![id] = r.body]
          /\ leftover' = IF r.error = "none" THEN Bumped(leftover, id, Bound(body[id], ws).posts)
                                             ELSE leftover
      BY <1>2 DEF elsewhere
    <2> HIDE DEF ws
    <2>3. Walks(id, ws)
      BY <2>1, <2>2 DEF Walks
    <2> QED BY <2>3
  <1> QED BY <1>1, <1>2 DEF others

LEMMA GateStays ==
    ASSUME NEW api, NEW id, NEW cmd, gate(api, id, cmd)
    PROVE  UNCHANGED <<body, leftover>>
  BY DEF gate

LEMMA AskedStays ==
    ASSUME asked
    PROVE  UNCHANGED <<body, leftover>>
  <1>1. ASSUME NEW api, NEW id, NEW cmd, begin(api, id, cmd) PROVE UNCHANGED <<body, leftover>>
    BY <1>1, GateStays DEF begin
  <1>2. ASSUME NEW req, preview(req) PROVE UNCHANGED <<body, leftover>>
    BY <1>2 DEF preview
  <1> QED BY <1>1, <1>2 DEF asked

OpenedAfresh ==
    /\ body' = [id \in Present |-> Spawned(id)]
    /\ leftover' = [id \in Present |-> "none"]

LEMMA ResearchMoves ==
    ASSUME research, Present \subseteq Id
    PROVE  \/ UNCHANGED <<body, leftover>>
           \/ \E id, ws : Walks(id, ws)
           \/ step \/ OpenedAfresh
  <1>1. CASE observe \/ decide \/ return \/ probe_failsafe_hold \/ abuse \/ broken
    BY <1>1 DEF observe, decide, return, probe_failsafe_hold, abuse, broken
  <1>2. CASE give
    <2>1. \E api, id, cmd : gate(api, id, cmd)
      BY <1>2 DEF give, begin
    <2> QED BY <2>1, GateStays
  <1>3. CASE call
    <2> DEFINE c == Head(loop.calls)
               ws == agent_walks(body[c.id], c.cmd)
    <2>1. walk(c.id, ws, note(body[c.id], c.cmd))
      BY <1>3 DEF call
    <2>2. ASSUME c.id \in Present, body[c.id].id = c.id PROVE ws \in Seq(LabWalks(body[c.id]))
      BY <2>2, CallsOf
    <2> HIDE DEF c, ws
    <2>3. Walks(c.id, ws)
      BY <2>1, <2>2, WalkMoves
    <2> QED BY <2>3
  <1>4. CASE research_step
    BY <1>4 DEF research_step
  <1>5. CASE run_chain \/ chain_write \/ chain_read
    BY <1>5 DEF run_chain, chain_write, chain_read, preview
  <1>6. CASE chain_step
    BY <1>6 DEF chain_step
  <1>7. CASE mhs_open
    BY <1>7 DEF mhs_open, OpenedAfresh
  <1> QED BY <1>1, <1>2, <1>3, <1>4, <1>5, <1>6, <1>7 DEF research, mhs_tool

LEMMA NextMoves ==
    ASSUME [ResearchNext]_rvars, Present \subseteq Id
    PROVE  \/ UNCHANGED <<body, leftover>>
           \/ \E id, cmd, api : Posts(id, cmd, api)
           \/ \E id, ws : Walks(id, ws)
           \/ \E e : inject(e)
           \/ \E id \in Present : bind(id)
           \/ step \/ OpenedAfresh
  <1>1. CASE applied
    <2>1. CASE write
      BY <2>1, GateStays DEF write
    <2>2. CASE apply
      BY <2>2, ApplyMoves
    <2> QED BY <1>1, <2>1, <2>2 DEF applied, called
  <1>2. CASE disturb
    BY <1>2, OthersMove DEF disturb
  <1>3. CASE stopped \/ UNCHANGED rvars
    BY <1>3 DEF stopped, rvars, vars
  <1>4. CASE bare
    BY <1>4, AskedStays DEF bare
  <1>5. CASE research
    BY <1>5, ResearchMoves
  <1> QED BY <1>1, <1>2, <1>3, <1>4, <1>5 DEF ResearchNext

\* One body moves.
LEMMA OneMoves ==
    ASSUME LabKnown, NEW id, NEW v, NEW l,
           body' = [body EXCEPT ![id] = v], leftover' = [leftover EXCEPT ![id] = l],
           id \in Present => v \in Known(id) /\ l \in Permits_ /\ (l = "current" => Up(v))
    PROVE  LabKnown'
  <1>1. /\ Present \subseteq Id
        /\ body = [i \in Present |-> body[i]] /\ leftover = [i \in Present |-> leftover[i]]
        /\ \A i \in Present : body[i] \in Known(i) /\ leftover[i] \in Permits_
        /\ \A i \in Present : leftover[i] = "current" => Up(body[i])
    BY DEF LabKnown
  <1>2. /\ body' = [i \in Present |-> IF i = id THEN v ELSE body[i]]
        /\ leftover' = [i \in Present |-> IF i = id THEN l ELSE leftover[i]]
    BY <1>1
  <1> DEFINE P == Present
  <1>3. Present' = P
    BY <1>2 DEF Present
  <1> HIDE DEF P
  <1>4. /\ body' = [i \in P |-> body'[i]] /\ leftover' = [i \in P |-> leftover'[i]]
        /\ \A i \in P : body'[i] \in Known(i) /\ leftover'[i] \in Permits_
        /\ \A i \in P : leftover'[i] = "current" => Up(body'[i])
    <2>1. /\ body' = [i \in P |-> IF i = id THEN v ELSE body[i]]
          /\ leftover' = [i \in P |-> IF i = id THEN l ELSE leftover[i]]
      BY <1>2 DEF P
    <2>2. \A i \in P : /\ body'[i] = IF i = id THEN v ELSE body[i]
                       /\ leftover'[i] = IF i = id THEN l ELSE leftover[i]
      BY <2>1
    <2>3. body' = [i \in P |-> body'[i]] /\ leftover' = [i \in P |-> leftover'[i]]
      BY <2>1
    <2>4. /\ id \in P => v \in Known(id) /\ l \in Permits_ /\ (l = "current" => Up(v))
          /\ \A i \in P : /\ body[i] \in Known(i) /\ leftover[i] \in Permits_
                          /\ leftover[i] = "current" => Up(body[i])
      BY <1>1 DEF P
    <2>5. ASSUME NEW i \in P
          PROVE  /\ body'[i] \in Known(i) /\ leftover'[i] \in Permits_
                 /\ leftover'[i] = "current" => Up(body'[i])
      <3>1. CASE i = id
        BY <2>2, <2>4, <3>1
      <3>2. CASE i # id
        <4>1. body'[i] = body[i] /\ leftover'[i] = leftover[i]
          BY <2>2, <3>2
        <4> QED BY <2>4, <4>1
      <3> QED BY <3>1, <3>2
    <2> QED BY <2>3, <2>5
  <1> QED BY <1>1, <1>3, <1>4 DEF LabKnown, P

LEMMA PostsKept ==
    ASSUME LabKnown, NEW id, NEW cmd, NEW api, Posts(id, cmd, api)
    PROVE  LabKnown'
  <1> DEFINE b == body[id]
             r == apply_action(b, cmd)
             v == r.body
             posts == IF cmd \in ENV THEN <<>> ELSE events(b)[cmd]
             k == IF revokes(id, posts) /\ leftover[id] = "current" THEN api ELSE leftover[id]
             l == IF r.error = "none" THEN k ELSE leftover[id]
  <1>1. /\ body' = [body EXCEPT ![id] = v]
        /\ leftover' = IF r.error = "none" THEN Kept(leftover, id, posts, api) ELSE leftover
        /\ api \in {"act", "attach"}
        /\ api = "attach" => Binding(b, walks(b, cmd)) = {}
    BY DEF Posts
  <1>2. leftover = [i \in Present |-> leftover[i]]
    BY DEF LabKnown
  <1>3. leftover' = [leftover EXCEPT ![id] = l]
    <2>1. Kept(leftover, id, posts, api) = [leftover EXCEPT ![id] = k]
      BY DEF Kept
    <2>2. [leftover EXCEPT ![id] = leftover[id]] = leftover
      BY <1>2
    <2> HIDE DEF r, k, posts
    <2> QED BY <1>1, <2>1, <2>2
  <1>4. ASSUME id \in Present PROVE v \in Known(id) /\ l \in Permits_ /\ (l = "current" => Up(v))
    <2>1. id \in Id /\ b \in Known(id) /\ leftover[id] \in Permits_
          /\ (leftover[id] = "current" => Up(b))
      BY <1>4 DEF LabKnown
    <2> DEFINE told == cmd \notin ENV /\ r.error = "none" /\ revokes(id, events(b)[cmd])
    <2> HIDE DEF b
    <2>2. v \in Known(id) /\ (Up(b) => Up(v) \/ told)
      BY <2>1, JsonKept
    <2>3. ASSUME Up(b), cmd \notin ENV, Binding(b, walks(b, cmd)) = {}, r.error = "none"
          PROVE  ~revokes(id, events(b)[cmd])
      BY <2>1, <2>3, JsonRevokes
    <2>4. told => revokes(id, posts)
      OBVIOUS
    <2>5. revokes(id, posts) => cmd \notin ENV /\ posts = events(b)[cmd]
      BY DEF revokes
    <2>6. CASE r.error = "none" /\ revokes(id, posts) /\ leftover[id] = "current"
      <3>1. api = "act"
        BY <1>1, <2>1, <2>3, <2>5, <2>6
      <3>2. l = "act"
        BY <2>6, <3>1
      <3> HIDE DEF l, v
      <3> QED BY <2>2, <3>2 DEF Permits_
    <2>7. CASE ~(r.error = "none" /\ revokes(id, posts) /\ leftover[id] = "current")
      <3>1. l = leftover[id]
        BY <2>7
      <3>2. leftover[id] = "current" => ~told
        BY <2>4, <2>7
      <3> HIDE DEF l, v, told
      <3> QED BY <2>1, <2>2, <3>1, <3>2
    <2> QED BY <2>6, <2>7
  <1> HIDE DEF v, l
  <1> QED BY <1>1, <1>3, <1>4, OneMoves

LEMMA WalksKept ==
    ASSUME LabKnown, NEW id, NEW ws, Walks(id, ws)
    PROVE  LabKnown'
  <1> DEFINE b == body[id]
             r == try_attach(b, ws)
             v == r.body
             posts == Bound(b, ws).posts
             k == IF revokes(id, posts) /\ leftover[id] # "none" THEN "stale" ELSE leftover[id]
             l == IF r.error = "none" THEN k ELSE leftover[id]
  <1>1. /\ body' = [body EXCEPT ![id] = v]
        /\ leftover' = IF r.error = "none" THEN Bumped(leftover, id, posts) ELSE leftover
        /\ id \in Present /\ b.id = id => ws \in Seq(LabWalks(b))
    BY DEF Walks
  <1>2. leftover = [i \in Present |-> leftover[i]]
    BY DEF LabKnown
  <1>3. leftover' = [leftover EXCEPT ![id] = l]
    <2>1. Bumped(leftover, id, posts) = [leftover EXCEPT ![id] = k]
      BY DEF Bumped
    <2>2. [leftover EXCEPT ![id] = leftover[id]] = leftover
      BY <1>2
    <2> HIDE DEF r, k, posts
    <2> QED BY <1>1, <2>1, <2>2
  <1>4. ASSUME id \in Present PROVE v \in Known(id) /\ l \in Permits_ /\ (l = "current" => Up(v))
    <2>1. id \in Id /\ b \in Known(id) /\ leftover[id] \in Permits_
          /\ (leftover[id] = "current" => Up(b))
      BY <1>4 DEF LabKnown
    <2> HIDE DEF b
    <2>2. ws \in Seq(LabWalks(b))
      BY <1>1, <1>4, <2>1, KnownIs
    <2>3. v \in Known(id) /\ (Up(b) => Up(v) \/ (r.error = "none" /\ revokes(id, posts)))
      BY <2>1, <2>2, CallKept
    <2>4. CASE r.error = "none" /\ revokes(id, posts) /\ leftover[id] # "none"
      <3>1. l = "stale"
        BY <2>4
      <3> HIDE DEF l, v
      <3> QED BY <2>3, <3>1 DEF Permits_
    <2>5. CASE ~(r.error = "none" /\ revokes(id, posts) /\ leftover[id] # "none")
      <3>1. l = leftover[id]
        BY <2>5
      <3>2. l = "current" => ~(r.error = "none" /\ revokes(id, posts))
        BY <2>5, <3>1
      <3> HIDE DEF l, v, r, posts
      <3> QED BY <2>1, <2>3, <3>1, <3>2
    <2> QED BY <2>4, <2>5
  <1> HIDE DEF v, l
  <1> QED BY <1>1, <1>3, <1>4, OneMoves

LEMMA InjectKept ==
    ASSUME LabKnown, NEW e, inject(e)
    PROVE  LabKnown'
  <1> DEFINE id == "drone"
             b == body[id]
             r == inject_revoke(b, e)
             v == r.body
             k == IF revokes(id, <<e>>) /\ leftover[id] # "none" THEN "stale" ELSE leftover[id]
             l == IF r.error = "none" THEN k ELSE leftover[id]
  <1>1. /\ id \in Present /\ body' = [body EXCEPT ![id] = v]
        /\ leftover' = IF r.error = "none" THEN Bumped(leftover, id, <<e>>) ELSE leftover
    BY DEF inject
  <1>2. leftover = [i \in Present |-> leftover[i]]
    BY DEF LabKnown
  <1>3. leftover' = [leftover EXCEPT ![id] = l]
    <2>1. Bumped(leftover, id, <<e>>) = [leftover EXCEPT ![id] = k]
      BY DEF Bumped
    <2>2. [leftover EXCEPT ![id] = leftover[id]] = leftover
      BY <1>2
    <2> HIDE DEF r, k
    <2> QED BY <1>1, <2>1, <2>2
  <1>4. id \in Id /\ b \in Known(id) /\ leftover[id] \in Permits_
        /\ (leftover[id] = "current" => Up(b))
    BY <1>1 DEF LabKnown
  <1>5. v \in Known(id) /\ l \in Permits_ /\ (l = "current" => Up(v))
    <2> HIDE DEF b
    <2>1. CASE Air!event_revokes_authority(e)
      <3>0. e \in Told("drone")
        BY <2>1, Domains DEF Told, Air!event_revokes_authority
      <3>1. e \in Told(id) /\ revokes(id, <<e>>)
        <4>1. event_revokes("drone", e)
          BY <2>1, Domains DEF event_revokes
        <4>2. 1 \in DOMAIN <<e>> /\ <<e>>[1] = e
          OBVIOUS
        <4> QED BY <3>0, <4>1, <4>2 DEF revokes
      <3>2. r = Posted(b, <<e>>)
        BY <2>1 DEF inject_revoke
      <3>3. Fitting(id, b, <<e>>)
        BY <3>1 DEF Fitting
      <3>4. Keeps(id, b, <<e>>, r)
        BY <1>4, <3>2, <3>3, FittingKept
      <3>5. v \in Known(id) /\ (Up(b) => Up(v) \/ r.error = "none")
        BY <3>4 DEF Keeps
      <3>6. CASE r.error = "none" /\ leftover[id] # "none"
        <4>1. l = "stale"
          BY <3>1, <3>6
        <4> HIDE DEF l, v
        <4> QED BY <3>5, <4>1 DEF Permits_
      <3>7. CASE ~(r.error = "none" /\ leftover[id] # "none")
        <4>1. l = leftover[id]
          BY <3>7
        <4>2. l = "current" => r.error # "none"
          BY <3>7, <4>1
        <4> HIDE DEF l, v, r
        <4> QED BY <1>4, <3>5, <4>1, <4>2
      <3> QED BY <3>6, <3>7
    <2>2. CASE ~Air!event_revokes_authority(e)
      <3>1. r = [body |-> b, error |-> "Rejected"]
        BY <2>2 DEF inject_revoke
      <3> HIDE DEF r
      <3>2. v = b /\ l = leftover[id]
        BY <3>1
      <3> HIDE DEF v, l
      <3> QED BY <1>4, <3>2
    <2> QED BY <2>1, <2>2
  <1> HIDE DEF v, l
  <1> QED BY <1>1, <1>3, <1>5, OneMoves

LEMMA BindKept ==
    ASSUME LabKnown, NEW id \in Present, bind(id)
    PROVE  LabKnown'
  <1> DEFINE b == body[id]
  <1>1. id \in Id /\ b \in Known(id) /\ grants(b) /\ b.id = id
    BY KnownIs DEF LabKnown, bind
  <1>2. body' = [body EXCEPT ![id] = b] /\ leftover' = [leftover EXCEPT ![id] = "current"]
    <2>1. body = [i \in Present |-> body[i]] /\ body' = body
      BY DEF LabKnown, bind
    <2> QED BY <2>1 DEF bind
  <1>3. Up(b)
    <2> HIDE DEF b
    <2>1. CASE id = "drone"
      BY <1>1, <2>1, Domains DEF grants, Up, UpKinds, Air!grants_actuation, CanTripFailsafe,
         OffboardControl
    <2>2. CASE id = "rover"
      BY <1>1, <2>2, Domains DEF grants, Up, UpKinds, Land!grants_actuation
    <2>3. CASE id \in {"skiff", "surveyor"}
      BY <1>1, <2>3, Domains DEF grants, Up, UpKinds, Sea!grants_actuation
    <2> QED BY <1>1, <2>1, <2>2, <2>3, Domains
  <1>4. "current" \in Permits_
    BY DEF Permits_
  <1> HIDE DEF b
  <1> QED BY <1>1, <1>2, <1>3, <1>4, OneMoves

LEMMA SteppedIs ==
    ASSUME NEW id \in Id, NEW b \in Known(id), NEW cut
    PROVE  Stepped(b, cut) \in Known(id) /\ (Up(Stepped(b, cut)) <=> Up(b))
  <1>1. Stepped(b, cut) = b \/ Stepped(b, cut) = [b EXCEPT !.command = "none"]
    BY DEF Stepped
  <1>2. "none" \in Setpoint
    BY DEF Setpoint
  <1> QED BY <1>1, <1>2, Recommanded

LEMMA StepKept ==
    ASSUME LabKnown, step
    PROVE  LabKnown'
  <1> DEFINE P == Present
  <1>1. PICK cut \in SUBSET (Cuttable \cap Present) :
          body' = [id \in P |-> Stepped(body[id], id \in cut)]
    BY DEF step
  <1>2. leftover' = leftover
    BY DEF step
  <1>3. Present' = P
    BY <1>1 DEF Present
  <1>4. /\ P \subseteq Id /\ leftover = [i \in P |-> leftover[i]]
        /\ \A i \in P : body[i] \in Known(i) /\ leftover[i] \in Permits_
        /\ \A i \in P : leftover[i] = "current" => Up(body[i])
    BY DEF LabKnown
  <1> HIDE DEF P
  <1>5. body' = [i \in P |-> body'[i]]
    BY <1>1
  <1>6. ASSUME NEW i \in P
        PROVE  /\ body'[i] \in Known(i) /\ leftover'[i] \in Permits_
               /\ leftover'[i] = "current" => Up(body'[i])
    <2> DEFINE b == body[i]
               c == i \in cut
    <2>1. body'[i] = Stepped(b, c)
      BY <1>1
    <2>2. i \in Id /\ b \in Known(i)
      BY <1>4
    <2> HIDE DEF b, c
    <2>3. Stepped(b, c) \in Known(i) /\ (Up(Stepped(b, c)) <=> Up(b))
      BY <2>2, SteppedIs
    <2> QED BY <1>2, <1>4, <2>1, <2>3 DEF b
  <1> QED BY <1>2, <1>3, <1>4, <1>5, <1>6 DEF LabKnown

LEMMA SpawnedKnown ==
    ASSUME NEW id \in Id
    PROVE  Spawned(id) \in Known(id)
  <1>1. "none" \in Setpoint
    BY DEF Setpoint
  <1>2. CASE id = "drone"
    <2>1. Ready \in Piloted
      BY DEF Ready, Air!Disconnected, Piloted, Air!SafetyState, Air!Phase, Air!CheckInvariants,
             Air!InFlight
    <2>2. Spawned(id) = [id |-> id, command |-> "none", safety |-> Ready]
      BY <1>2, Domains DEF Spawned
    <2>3. Known(id) = {b \in [id : {id}, command : Setpoint, safety : Piloted] :
                          b.safety.failsafe => b.command = "none"}
      BY <1>2, Domains DEF Known
    <2> QED BY <1>1, <2>1, <2>2, <2>3
  <1>3. CASE id = "rover"
    <2>1. Land!parked \in Land!GroundState
      BY DEF Land!parked, Land!GroundState, Land!GroundPhase, Land!ground_invariants
    <2>2. Spawned(id) = [id |-> id, command |-> "none", safety |-> Land!parked]
      BY <1>3, Domains DEF Spawned
    <2>3. [id : {id}, command : Setpoint, safety : Land!GroundState] \subseteq Known(id)
      BY <1>3, Domains DEF Known
    <2> QED BY <1>1, <2>1, <2>2, <2>3
  <1>4. CASE id \in {"skiff", "surveyor"}
    <2>1. Sea!docked \in Sea!MarineState
      BY DEF Sea!docked, Sea!MarineState, Sea!MarinePhase, Sea!marine_invariants
    <2>2. Spawned(id) = [id |-> id, command |-> "none", safety |-> Sea!docked]
      BY <1>4, Domains DEF Spawned
    <2>3. [id : {id}, command : Setpoint, safety : Sea!MarineState] \subseteq Known(id)
      BY <1>4, Domains DEF Known
    <2> QED BY <1>1, <2>1, <2>2, <2>3
  <1> QED BY <1>2, <1>3, <1>4, Domains

LEMMA SpawnKept ==
    ASSUME NEW P, P \subseteq Id, body' = [id \in P |-> Spawned(id)],
           leftover' = [id \in P |-> "none"]
    PROVE  LabKnown'
  <1>1. Present' = P
    BY DEF Present
  <1>2. ASSUME NEW i \in P
        PROVE  /\ body'[i] \in Known(i) /\ leftover'[i] \in Permits_
               /\ leftover'[i] = "current" => Up(body'[i])
    <2>1. body'[i] = Spawned(i) /\ leftover'[i] = "none" /\ i \in Id
      OBVIOUS
    <2> QED BY <2>1, SpawnedKnown DEF Permits_
  <1>3. body' = [i \in P |-> body'[i]] /\ leftover' = [i \in P |-> leftover'[i]]
    OBVIOUS
  <1> QED BY <1>1, <1>2, <1>3 DEF LabKnown

LEMMA LabStarts ==
    ASSUME Init, ScenesAssumption
    PROVE  LabKnown
  <1>1. PICK P \in Scenes : /\ body = [id \in P |-> Spawned(id)]
                            /\ leftover = [id \in P |-> "none"]
    BY DEF Init
  <1>2. P \subseteq Id /\ Present = P
    BY <1>1 DEF ScenesAssumption, Present
  <1>3. ASSUME NEW i \in P
        PROVE  /\ body[i] \in Known(i) /\ leftover[i] \in Permits_
               /\ leftover[i] = "current" => Up(body[i])
    <2>1. body[i] = Spawned(i) /\ leftover[i] = "none" /\ i \in Id
      BY <1>1, <1>2
    <2> QED BY <2>1, SpawnedKnown DEF Permits_
  <1>4. body = [i \in P |-> body[i]] /\ leftover = [i \in P |-> leftover[i]]
    BY <1>1
  <1> QED BY <1>2, <1>3, <1>4 DEF LabKnown

LEMMA LabKept ==
    ASSUME LabKnown, [ResearchNext]_rvars
    PROVE  LabKnown'
  <1>1. Present \subseteq Id
    BY DEF LabKnown
  <1>2. CASE UNCHANGED <<body, leftover>>
    BY <1>2 DEF LabKnown, Present
  <1>3. CASE OpenedAfresh
    <2> DEFINE P == Present
    <2>1. /\ P \subseteq Id /\ body' = [id \in P |-> Spawned(id)]
          /\ leftover' = [id \in P |-> "none"]
      BY <1>1, <1>3 DEF OpenedAfresh
    <2> HIDE DEF P
    <2> QED BY <2>1, SpawnKept
  <1> QED BY <1>1, <1>2, <1>3, NextMoves, PostsKept, WalksKept, InjectKept, BindKept, StepKept

\* A lab's bodies stay in states their kernels can be in, and a permit is current
\* only for a body that is up: armed or on its way, released, under way.
THEOREM LabInvariant == ResearchSpec => []LabKnown
  <1>1. ResearchInit => LabKnown
    BY LabStarts, ScenesAssumption DEF ResearchInit
  <1>2. LabKnown /\ [ResearchNext]_rvars => LabKnown'
    BY LabKept
  <1> QED BY <1>1, <1>2, PTL DEF ResearchSpec

\* A call through attach that ends the permits of a body in the kernel ends them in
\* the session: its walk binds whatever body a permit is current for, and only
\* what no walk binds is posted (lab.rs act_through_attach).
THEOREM LabRevokes == ResearchSpec => []AttachRevokes
  <1>1. LabKnown => AttachRevokes
    BY DEF LabKnown, Permits_, AttachRevokes
  <1> QED BY <1>1, LabInvariant, PTL

-----------------------------------------------------------------------------
(* A call that is refused.                                                 *)

Alike(x, b) == Unfresh(x) = Unfresh(b)

LEMMA UnfreshIs ==
    ASSUME NEW s, NEW c, NEW x, x = [id |-> "drone", safety |-> s, command |-> c]
    PROVE  Unfresh(x) = [id |-> "drone", command |-> c,
                         safety |-> [s EXCEPT !.offboard_heartbeat_fresh = FALSE]]
  <1> DEFINE n == [s EXCEPT !.offboard_heartbeat_fresh = FALSE]
  <1>1. x.id = "drone" /\ x.safety = s /\ x.command = c
    OBVIOUS
  <1>2. Unfresh(x) = [x EXCEPT !.safety = n]
    <2>1. Unfresh(x) = [x EXCEPT !.safety.offboard_heartbeat_fresh = FALSE]
      BY <1>1, Domains DEF Unfresh
    <2> QED BY <1>1, <2>1
  <1> HIDE DEF n
  <1>3. [x EXCEPT !.safety = n] = [id |-> "drone", command |-> c, safety |-> n]
    OBVIOUS
  <1> QED BY <1>2, <1>3 DEF n

\* The heartbeat that is freshened, and nothing else of the body.
LEMMA Freshened ==
    ASSUME NEW b \in Known("drone")
    PROVE  LET x == Post(b, "HeartbeatFresh") IN
           /\ Admits(b, "HeartbeatFresh") /\ x \in Known("drone") /\ Alike(x, b)
           /\ x.safety = [b.safety EXCEPT !.offboard_heartbeat_fresh = TRUE]
  <1> DEFINE x == Post(b, "HeartbeatFresh")
  <1>0. "drone" \in Id /\ "HeartbeatFresh" \in Told("drone")
    BY Domains, MeekAre
  <1>1. /\ b.id = "drone" /\ b.safety \in Piloted
        /\ b = [id |-> "drone", safety |-> b.safety, command |-> b.command]
        /\ b.safety.failsafe => b.command = "none"
    BY <1>0, KnownIs
  <1>2. Admits(b, "HeartbeatFresh")
    BY <1>1, Domains DEF Admits, Air!Admits, Air!Latched, Air!LegalIn, Air!NeedsSensors,
       Air!NeedsArmed, Piloted, Air!SafetyState
  <1>3. /\ x \in Known("drone") /\ x.safety = After(b, "HeartbeatFresh") /\ x.id = "drone"
        /\ x.command = IF Cuts(b, "HeartbeatFresh") THEN "none" ELSE b.command
    BY <1>0, <1>2, KnownPost
  <1>4. After(b, "HeartbeatFresh") = [b.safety EXCEPT !.offboard_heartbeat_fresh = TRUE]
    BY <1>1, Domains DEF After, Air!After
  <1>5. x.command = b.command
    <2>1. [b.safety EXCEPT !.offboard_heartbeat_fresh = TRUE].failsafe = b.safety.failsafe
      BY <1>1 DEF Piloted, Air!SafetyState
    <2>2. Cuts(b, "HeartbeatFresh") => b.safety.failsafe
      BY <1>1, <1>4, <2>1, Domains DEF Cuts
    <2> HIDE DEF x
    <2> QED BY <1>1, <1>3, <2>2
  <1>6. x = [id |-> "drone", safety |-> x.safety, command |-> x.command]
    BY <1>0, <1>3, KnownIs
  <1> HIDE DEF x
  <1>7. Alike(x, b)
    <2> DEFINE xs == [x.safety EXCEPT !.offboard_heartbeat_fresh = FALSE]
               bs == [b.safety EXCEPT !.offboard_heartbeat_fresh = FALSE]
    <2>1. xs = bs
      BY <1>1, <1>3, <1>4 DEF Piloted, Air!SafetyState
    <2>2. /\ Unfresh(x) = [id |-> "drone", command |-> x.command, safety |-> xs]
          /\ Unfresh(b) = [id |-> "drone", command |-> b.command, safety |-> bs]
      BY <1>1, <1>6, UnfreshIs
    <2> HIDE DEF xs, bs
    <2> QED BY <1>5, <2>1, <2>2 DEF Alike
  <1> QED BY <1>2, <1>3, <1>4, <1>7 DEF x

\* Events of which at most the last can be refused, once a heartbeat has come.
Tidy(id, posts) ==
    \/ posts = <<>>
    \/ \E e \in Told(id) : posts = <<e>>
    \/ id = "drone" /\ \E e : posts = <<"HeartbeatFresh", e>>

Bounces(b, posts) ==
    LET r == Posted(b, posts) IN r.error # "none" => Alike(r.body, b)

LEMMA OneBounces ==
    ASSUME NEW b, NEW e, Given(Fresh(b), e).error # "none"
    PROVE  Given(Fresh(b), e).body = b
  <1>1. ~Admits(b, e)
    <2>1. Admits(b, e) => Given(Fresh(b), e) = Fresh(Post(b, e))
      BY GivenTaken
    <2> QED BY <2>1 DEF Fresh
  <1>2. Fresh(b).error = "none" /\ Fresh(b).body = b
    BY DEF Fresh
  <1>3. Given(Fresh(b), e) = [Fresh(b) EXCEPT !.error = "Rejected"]
    BY <1>1, <1>2, GivenRejected
  <1> QED BY <1>3 DEF Fresh

LEMMA TidyBounces ==
    ASSUME NEW id \in Id, NEW b \in Known(id), NEW posts, Tidy(id, posts)
    PROVE  Bounces(b, posts)
  <1> DEFINE r == Posted(b, posts)
  <1> SUFFICES ASSUME r.error # "none" PROVE Alike(r.body, b)
    BY DEF Bounces
  <1>1. CASE posts = <<>>
    <2>1. <<>> \in Seq({}) /\ r = Posted(b, <<>>)
      BY <1>1
    <2>2. Posted(b, <<>>) = Fresh(b)
      <3> HIDE DEF r
      <3>1. PICK g : PostTrace(g, b, <<>>) /\ g[Len(<<>>)] = Posted(b, <<>>)
        BY <2>1, PostedRuns
      <3>2. Len(<<>>) = 0
        OBVIOUS
      <3> QED BY <3>1, <3>2 DEF PostTrace, Fresh
    <2>3. r.error = "none"
      BY <2>1, <2>2 DEF Fresh
    <2> QED BY <2>3
  <1>2. ASSUME NEW e, posts = <<e>> PROVE Alike(r.body, b)
    <2>1. r = Given(Fresh(b), e)
      BY <1>2, PostedOne
    <2>2. r.body = b
      BY <2>1, OneBounces
    <2> HIDE DEF r
    <2> QED BY <2>2 DEF Alike
  <1>3. ASSUME id = "drone", NEW e, posts = <<"HeartbeatFresh", e>> PROVE Alike(r.body, b)
    <2> DEFINE x == Post(b, "HeartbeatFresh")
    <2>0. b \in Known("drone")
      BY <1>3
    <2>1. Admits(b, "HeartbeatFresh") /\ Alike(x, b)
      BY <2>0, Freshened
    <2>2. r = Given(Given(Fresh(b), "HeartbeatFresh"), e)
      BY <1>3, PostedTwo
    <2>3. Given(Fresh(b), "HeartbeatFresh") = Fresh(x)
      BY <2>1, GivenTaken
    <2>4. r.body = x
      <3> HIDE DEF x
      <3>1. r = Given(Fresh(x), e)
        BY <2>2, <2>3
      <3> QED BY <3>1, OneBounces
    <2> HIDE DEF r, x
    <2> QED BY <2>1, <2>4
  <1> QED BY <1>1, <1>2, <1>3 DEF Tidy

\* An armed vehicle takes the events of a takeoff in their order.
Warm(b, phase) == b \in Known("drone") /\ b.safety.phase = phase

LEMMA WarmTakes ==
    ASSUME NEW phase \in {"Armed", "Takeoff"}, NEW b, Warm(b, phase),
           NEW e \in {"HeartbeatFresh", "EnterOffboard", "EnableActuators", "Takeoff"},
           e = "EnterOffboard" => b.safety.offboard_heartbeat_fresh,
           e = "Takeoff" => phase = "Armed"
    PROVE  LET x == Post(b, e) IN
           /\ Given(Fresh(b), e) = Fresh(x)
           /\ Warm(x, IF e = "Takeoff" THEN "Takeoff" ELSE phase)
           /\ b.safety.offboard_heartbeat_fresh \/ e = "HeartbeatFresh" =>
                x.safety.offboard_heartbeat_fresh
  <1> DEFINE x == Post(b, e)
             s == b.safety
             n == Air!After(s, e)
  <1>0. "drone" \in Id /\ b \in Known("drone") /\ e \in Told("drone")
    BY Domains, MeekAre DEF Warm
  <1>1. b.id = "drone" /\ s \in Piloted /\ s.phase = phase
    BY <1>0, KnownIs DEF Warm
  <1>2. /\ s \in Air!SafetyState /\ s.armed /\ ~s.failsafe
    BY <1>1 DEF Piloted, Air!CheckInvariants, Air!InFlight
  <1>3. Air!Admits(s, e)
    BY <1>1, <1>2 DEF Air!Admits, Air!LegalIn, Air!Latched, Air!NeedsSensors, Air!NeedsArmed,
       Air!InFlight, Air!SafetyState
  <1>4. /\ n.phase = IF e = "Takeoff" THEN "Takeoff" ELSE phase
        /\ s.offboard_heartbeat_fresh \/ e = "HeartbeatFresh" => n.offboard_heartbeat_fresh
    <2>1. e = "HeartbeatFresh" => n = [s EXCEPT !.offboard_heartbeat_fresh = TRUE]
      BY DEF Air!After
    <2>2. e = "EnterOffboard" => n = [s EXCEPT !.offboard = TRUE]
      BY DEF Air!After
    <2>3. e = "EnableActuators" => n = [s EXCEPT !.actuators_enabled = TRUE]
      BY DEF Air!After
    <2>4. e = "Takeoff" => n = [s EXCEPT !.actuators_enabled = TRUE, !.phase = "Takeoff"]
      BY DEF Air!After
    <2> HIDE DEF n
    <2> QED BY <1>1, <1>2, <2>1, <2>2, <2>3, <2>4 DEF Air!SafetyState
  <1>5. Admits(b, e) /\ After(b, e) = n
    BY <1>1, <1>3, Domains DEF Admits, After
  <1>6. x \in Known("drone") /\ x.safety = n
    BY <1>0, <1>5, KnownPost
  <1>7. Given(Fresh(b), e) = Fresh(x)
    BY <1>5, GivenTaken
  <1> HIDE DEF x, n
  <1> QED BY <1>4, <1>6, <1>7 DEF Warm, x

\* A vehicle that is armed enters offboard, and one that is in offboard takes off.
LEMMA WarmEnters ==
    ASSUME NEW b, Warm(b, "Armed")
    PROVE  \E x : /\ Warm(x, "Armed")
                  /\ Given(Given(Given(Fresh(b), "HeartbeatFresh"), "EnterOffboard"),
                           "EnableActuators") = Fresh(x)
  <1> DEFINE x1 == Post(b, "HeartbeatFresh")
             x2 == Post(x1, "EnterOffboard")
             x3 == Post(x2, "EnableActuators")
  <1>1. /\ Given(Fresh(b), "HeartbeatFresh") = Fresh(x1) /\ Warm(x1, "Armed")
        /\ x1.safety.offboard_heartbeat_fresh
    BY WarmTakes
  <1> HIDE DEF x1
  <1>2. Given(Fresh(x1), "EnterOffboard") = Fresh(x2) /\ Warm(x2, "Armed")
    BY <1>1, WarmTakes
  <1> HIDE DEF x2
  <1>3. Given(Fresh(x2), "EnableActuators") = Fresh(x3) /\ Warm(x3, "Armed")
    BY <1>2, WarmTakes
  <1> HIDE DEF x3
  <1> QED BY <1>1, <1>2, <1>3

LEMMA WarmClimbs ==
    ASSUME NEW b, Warm(b, "Armed")
    PROVE  \E x : Climbed(Fresh(b)) = Fresh(x)
  <1> DEFINE x1 == Post(b, "Takeoff")
             x2 == Post(x1, "EnableActuators")
  <1>1. Given(Fresh(b), "Takeoff") = Fresh(x1) /\ Warm(x1, "Takeoff")
    BY WarmTakes
  <1> HIDE DEF x1
  <1>2. Given(Fresh(x1), "EnableActuators") = Fresh(x2)
    BY <1>1, WarmTakes
  <1> HIDE DEF x2
  <1> QED BY <1>1, <1>2 DEF Climbed

LEMMA PostedThree ==
    ASSUME NEW b, NEW e, NEW f, NEW g
    PROVE  Posted(b, <<e, f, g>>) = Given(Given(Given(Fresh(b), e), f), g)
  <1> DEFINE posts == <<e, f, g>>
  <1>1. /\ posts \in Seq({e, f, g}) /\ Len(posts) = 3
        /\ posts[1] = e /\ posts[2] = f /\ posts[3] = g
    OBVIOUS
  <1> HIDE DEF posts
  <1>2. PICK t : PostTrace(t, b, posts) /\ t[3] = Posted(b, posts)
    BY <1>1, PostedRuns
  <1>3. /\ t[0] = Fresh(b) /\ t[1] = Given(t[0], e)
        /\ t[2] = Given(t[1], f) /\ t[3] = Given(t[2], g)
    BY <1>1, <1>2 DEF PostTrace, Fresh
  <1> QED BY <1>2, <1>3 DEF posts

LEMMA PostedFive ==
    ASSUME NEW b, NEW e, NEW f, NEW g, NEW h, NEW i
    PROVE  Posted(b, <<e, f, g, h, i>>) =
             Given(Given(Given(Given(Given(Fresh(b), e), f), g), h), i)
  <1> DEFINE posts == <<e, f, g, h, i>>
  <1>1. /\ posts \in Seq({e, f, g, h, i}) /\ Len(posts) = 5
        /\ posts[1] = e /\ posts[2] = f /\ posts[3] = g /\ posts[4] = h /\ posts[5] = i
    OBVIOUS
  <1> HIDE DEF posts
  <1>2. PICK t : PostTrace(t, b, posts) /\ t[5] = Posted(b, posts)
    BY <1>1, PostedRuns
  <1>3. /\ t[0] = Fresh(b) /\ t[1] = Given(t[0], e) /\ t[2] = Given(t[1], f)
        /\ t[3] = Given(t[2], g) /\ t[4] = Given(t[3], h) /\ t[5] = Given(t[4], i)
    BY <1>1, <1>2 DEF PostTrace, Fresh
  <1> QED BY <1>2, <1>3 DEF posts

\* A takeoff is refused at its first event, or not at all.
LEMMA TakeoffBounces ==
    ASSUME NEW b \in Known("drone"), Kind(b) = "PreflightReady"
    PROVE  Bounces(b, attach_takeoff.posts)
  <1>0. "drone" \in Id /\ b.id = "drone" /\ b.safety \in Piloted /\ "Arm" \in Told("drone")
    BY Domains, MeekAre, KnownIs
  <1> DEFINE r == Posted(b, attach_takeoff.posts)
  <1>1. r = Climbed(Armed4(Fresh(b)))
    BY TakeoffRuns
  <1> HIDE DEF r
  <1>2. CASE Admits(b, "Arm")
    <2> DEFINE x == Post(b, "Arm")
    <2>1. Given(Fresh(b), "Arm") = Fresh(x)
      BY <1>2, GivenTaken
    <2>2. x \in Known("drone") /\ x.safety = Air!After(b.safety, "Arm")
      <3>1. x \in Known("drone") /\ x.safety = After(b, "Arm")
        BY <1>0, <1>2, KnownPost
      <3> HIDE DEF x
      <3> QED BY <1>0, <3>1, Domains DEF After
    <2>3. Air!After(b.safety, "Arm") = [b.safety EXCEPT !.armed = TRUE, !.phase = "Armed"]
      BY DEF Air!After
    <2> HIDE DEF x
    <2>4. Warm(x, "Armed")
      <3>1. [b.safety EXCEPT !.armed = TRUE, !.phase = "Armed"].phase = "Armed"
        BY <1>0 DEF Piloted, Air!SafetyState
      <3> QED BY <2>2, <2>3, <3>1 DEF Warm
    <2>5. PICK y : Warm(y, "Armed") /\ Armed4(Fresh(b)) = Fresh(y)
      BY <2>1, <2>4, WarmEnters DEF Armed4
    <2>6. PICK z : Climbed(Fresh(y)) = Fresh(z)
      BY <2>5, WarmClimbs
    <2>7. r.error = "none"
      BY <1>1, <2>5, <2>6 DEF Fresh
    <2> QED BY <2>7 DEF Bounces, r
  <1>3. CASE ~Admits(b, "Arm")
    <2> DEFINE q == [body |-> b, error |-> "Rejected"]
    <2>1. Given(Fresh(b), "Arm") = q
      <3>1. Fresh(b).error = "none" /\ Fresh(b).body = b
        BY DEF Fresh
      <3>2. Given(Fresh(b), "Arm") = [Fresh(b) EXCEPT !.error = "Rejected"]
        BY <1>3, <3>1, GivenRejected
      <3> QED BY <3>2 DEF Fresh
    <2>2. \A e : Given(q, e) = q
      BY GivenRefused
    <2>3. q.body = b
      OBVIOUS
    <2> HIDE DEF q
    <2>4. /\ Given(q, "HeartbeatFresh") = q /\ Given(q, "EnterOffboard") = q
          /\ Given(q, "EnableActuators") = q /\ Given(q, "Takeoff") = q
      BY <2>2
    <2>5. r = q
      BY <1>1, <2>1, <2>4 DEF Armed4, Climbed
    <2> QED BY <2>3, <2>5 DEF Bounces, Alike, r
  <1> QED BY <1>2, <1>3

\* What is armed enters offboard or takes off; what is in offboard takes off.
LEMMA ArmedBounces ==
    ASSUME NEW b \in Known("drone"), Kind(b) \in {"Armed", "Offboard"}
    PROVE  /\ Bounces(b, enter_offboard_now.posts) /\ Bounces(b, start_now.posts)
           /\ Bounces(b, attach_start_takeoff.posts)
  <1>0. "drone" \in Id /\ b.id = "drone" /\ b.safety \in Piloted
    BY Domains, KnownIs
  <1>1. Warm(b, "Armed")
    <2>1. Kind(b) = Air!aerial_kind(b.safety)
      BY <1>0, Domains DEF Kind
    <2> QED BY <1>0, <2>1 DEF Warm, Air!aerial_kind, Piloted, Air!SafetyState, Air!Phase
  <1>2. PICK x : /\ Warm(x, "Armed")
                 /\ Given(Given(Given(Fresh(b), "HeartbeatFresh"), "EnterOffboard"),
                          "EnableActuators") = Fresh(x)
    BY <1>1, WarmEnters
  <1>3. PICK y : Climbed(Fresh(x)) = Fresh(y)
    BY <1>2, WarmClimbs
  <1>4. PICK z : Climbed(Fresh(b)) = Fresh(z)
    BY <1>1, WarmClimbs
  <1>5. Posted(b, enter_offboard_now.posts) = Fresh(x)
    <2>1. enter_offboard_now.posts = <<"HeartbeatFresh", "EnterOffboard", "EnableActuators">>
      BY DEF enter_offboard_now, Walk
    <2> QED BY <1>2, <2>1, PostedThree
  <1>6. Posted(b, start_now.posts) = Fresh(y)
    <2>1. start_now.posts = <<"HeartbeatFresh", "EnterOffboard", "EnableActuators", "Takeoff",
                              "EnableActuators">>
      BY DEF start_now, Walk
    <2>2. Posted(b, start_now.posts) =
            Given(Given(Given(Given(Given(Fresh(b), "HeartbeatFresh"), "EnterOffboard"),
                              "EnableActuators"), "Takeoff"), "EnableActuators")
      BY <2>1, PostedFive
    <2> QED BY <1>2, <1>3, <2>2 DEF Climbed
  <1>7. Posted(b, attach_start_takeoff.posts) = Fresh(z)
    <2>1. attach_start_takeoff.posts = <<"Takeoff", "EnableActuators">>
      BY DEF attach_start_takeoff, Walk
    <2> QED BY <1>4, <2>1, PostedTwo DEF Climbed
  <1>8. \A v : Fresh(v).error = "none"
    BY DEF Fresh
  <1> QED BY <1>5, <1>6, <1>7, <1>8 DEF Bounces

\* A vehicle in failsafe is disarmed and recovered.
LEMMA RecoverBounces ==
    ASSUME NEW b \in Known("drone"), Kind(b) = "Failsafe"
    PROVE  Bounces(b, <<"Disarm", "Recover">>)
  <1>0. "drone" \in Id /\ b.id = "drone" /\ b.safety \in Piloted /\ "Disarm" \in Told("drone")
    BY Domains, MeekAre, KnownIs
  <1>1. b.safety.failsafe /\ b.safety.phase = "Failsafe"
    <2>1. Kind(b) = Air!aerial_kind(b.safety)
      BY <1>0, Domains DEF Kind
    <2> QED BY <1>0, <2>1 DEF Air!aerial_kind, Piloted, Air!SafetyState, Air!Phase,
               Air!CheckInvariants
  <1> DEFINE x == Post(b, "Disarm")
  <1>2. Admits(b, "Disarm")
    BY <1>0, <1>1, Domains DEF Admits, Air!Admits, Air!LegalIn, Air!Latched, Air!NeedsSensors,
       Air!NeedsArmed, Air!Phase
  <1>3. x \in Known("drone") /\ x.safety = Air!After(b.safety, "Disarm") /\ x.id = "drone"
    <2>1. x \in Known("drone") /\ x.safety = After(b, "Disarm") /\ x.id = "drone"
      BY <1>0, <1>2, KnownPost
    <2> HIDE DEF x
    <2> QED BY <1>0, <2>1, Domains DEF After
  <1>4. Given(Fresh(b), "Disarm") = Fresh(x)
    BY <1>2, GivenTaken
  <1> HIDE DEF x
  <1>5. x.safety.phase = "Recovery" /\ ~x.safety.armed
    <2>1. Air!After(b.safety, "Disarm") = Air!Grounded(b.safety, "Recovery")
      BY <1>1 DEF Air!After
    <2> QED BY ZenonT(60), <1>0, <1>3, <2>1 DEF Air!Grounded, Piloted, Air!SafetyState
  <1>6. Admits(x, "Recover")
    BY <1>3, <1>5, Domains DEF Admits, Air!Admits, Air!LegalIn, Air!Latched, Air!NeedsSensors,
       Air!NeedsArmed
  <1>7. Given(Fresh(x), "Recover") = Fresh(Post(x, "Recover"))
    BY <1>6, GivenTaken
  <1>8. Posted(b, <<"Disarm", "Recover">>) = Fresh(Post(x, "Recover"))
    BY <1>4, <1>7, PostedTwo
  <1> QED BY <1>8 DEF Bounces, Fresh

\* The events of every walk of the lab.
LEMMA WalkBounces ==
    ASSUME NEW id \in Id, NEW b \in Known(id), NEW w \in LabWalks(b), Kind(b) \in w.from
    PROVE  Bounces(b, w.posts)
  <1>0. b.id = id
    BY KnownIs
  <1>1. CASE id # "drone"
    <2>1. id \in {"rover", "skiff", "surveyor"}
      BY <1>1, Domains
    <2>2. /\ attach_takeoff.from = {"PreflightReady"} /\ attach_start_takeoff.from = {"Offboard"}
          /\ start_now.from = {"Armed"} /\ fly_now.from = {"Offboard", "Takeoff", "Airborne"}
          /\ thrust_now.from = {"Underway"} /\ thrust_now.posts = <<"ThrustCommand">>
      BY DEF attach_takeoff, attach_start_takeoff, start_now, fly_now, thrust_now, Walk
    <2>3. CASE id = "rover"
      <3>1. w \notin CallWalks
        BY <2>2, <2>3, KnownKinds DEF CallWalks
      <3>2. w \in RoverWalks
        BY <1>0, <2>3, <3>1, Domains DEF LabWalks
      <3>3. \E e \in Land!GroundEvent : w.posts = <<e>>
        BY <3>2 DEF RoverWalks, attach_estop, attach_drive, attach_park, attach_reset,
                    attach_ground_hold, Walk, Land!GroundEvent
      <3> QED BY <2>3, <3>3, MeekAre, TidyBounces DEF Tidy
    <2>4. CASE id \in {"skiff", "surveyor"}
      <3>1. w \in HullWays \cup {thrust_now}
        BY <1>0, <2>2, <2>4, KnownKinds, Domains DEF LabWalks, CallWalks
      <3>2. \E e \in Sea!MarineEvent : w.posts = <<e>>
        BY <3>1 DEF HullWays, thrust_now, attach_marine_failsafe, attach_undock, attach_dock,
                    attach_station, attach_resume, attach_recover, attach_marine_hold, Walk,
                    Sea!MarineEvent
      <3> QED BY <2>4, <3>2, MeekAre, TidyBounces DEF Tidy
    <2> QED BY <2>1, <2>3, <2>4
  <1>2. CASE id = "drone"
    <2>0. "drone" \in Id /\ w \in AirWalks(b) \cup CallWalks /\ b \in Known("drone")
      BY <1>0, <1>2, Domains DEF LabWalks
    <2>1. CASE w = attach_takeoff
      <3>1. attach_takeoff.from = {"PreflightReady"}
        BY DEF attach_takeoff, Walk
      <3> QED BY <2>0, <2>1, <3>1, TakeoffBounces
    <2>2. CASE w \in {enter_offboard_now, start_now, attach_start_takeoff}
      <3>1. /\ enter_offboard_now.from = {"Armed"} /\ start_now.from = {"Armed"}
            /\ attach_start_takeoff.from = {"Offboard"}
        BY DEF enter_offboard_now, start_now, attach_start_takeoff, Walk
      <3>2. Kind(b) \in {"Armed", "Offboard"}
        BY <2>2, <3>1
      <3> QED BY <2>0, <2>2, <3>2, ArmedBounces
    <2>3. CASE w \in {velocity_now, attach_hold, fly_now}
      <3>1. w.posts = <<"HeartbeatFresh", "MissionCommand">>
        BY <2>3 DEF velocity_now, attach_hold, fly_now, mission, Walk
      <3> QED BY <1>2, <3>1, TidyBounces DEF Tidy
    <2>4. CASE \/ w \in {attach_airborne, attach_land, attach_touchdown, attach_failsafe,
                         attach_disarm}
               \/ w \in {Walk({"PreflightReady"}, FALSE, <<"Arm">>, "none"),
                         Walk(OffboardControl \cup {"Armed"}, FALSE, <<"EnableActuators">>, "none")}
      <3>1. \E e \in {"Arm", "EnableActuators", "ReachedAltitude", "Land", "Touchdown",
                      "TriggerFailsafe", "Disarm"} : w.posts = <<e>>
        BY <2>4 DEF attach_airborne, attach_land, attach_touchdown, attach_failsafe, attach_disarm,
                    Walk
      <3>2. {"Arm", "EnableActuators", "ReachedAltitude", "Land", "Touchdown", "TriggerFailsafe",
             "Disarm"} \subseteq Told("drone")
        BY Domains DEF Told
      <3> QED BY <1>2, <3>1, <3>2, TidyBounces DEF Tidy
    <2>5. CASE w = attach_recover_ready(b)
      <3>1. w.posts = IF Kind(b) = "Failsafe" THEN <<"Disarm", "Recover">> ELSE <<"Recover">>
        BY <2>5 DEF attach_recover_ready, Walk
      <3>2. "Recover" \in Told("drone")
        BY MeekAre
      <3>3. CASE Kind(b) = "Failsafe"
        BY <2>0, <3>1, <3>3, RecoverBounces
      <3>4. CASE Kind(b) # "Failsafe"
        BY <1>2, <3>1, <3>2, <3>4, TidyBounces DEF Tidy
      <3> QED BY <3>3, <3>4
    <2>6. w # thrust_now
      <3>1. thrust_now.from = {"Underway"}
        BY DEF thrust_now, Walk
      <3> QED BY <1>2, <3>1, KnownKinds
    <2> QED BY <2>0, <2>1, <2>2, <2>3, <2>4, <2>5, <2>6 DEF AirWalks, CallWalks
  <1> QED BY <1>1, <1>2

\* A call of the walks of the lab that is refused.
LEMMA CallBounces ==
    ASSUME NEW id \in Id, NEW b \in Known(id), NEW ws \in Seq(LabWalks(b)),
           try_attach(b, ws).error # "none"
    PROVE  Alike(try_attach(b, ws).body, b)
  <1> DEFINE w == Bound(b, ws)
             a == Attach(b, w)
             p == Posted(b, w.posts)
             t == try_attach(b, ws)
  <1>1. CASE Binding(b, ws) = {}
    <2>1. t = [body |-> b, error |-> "Protocol"]
      BY <1>1 DEF try_attach
    <2> HIDE DEF t
    <2> QED BY <2>1 DEF Alike, t
  <1>2. CASE Binding(b, ws) # {}
    <2>1. w \in LabWalks(b) /\ Kind(b) \in w.from
      BY <1>2, BoundIs
    <2>2. t = Taken(b, w)
      BY <1>2 DEF try_attach
    <2>3. a.error = "none" => t.error = "none"
      <3> DEFINE s == Settled(p.body, w)
      <3>1. \/ a \in {[body |-> b, error |-> "Protocol"], [body |-> b, error |-> "Rejected"]}
            \/ a = p /\ p.error # "none"
            \/ a = [p EXCEPT !.body = s] /\ p.error = "none"
        BY DEF Attach
      <3>2. p = [body |-> p.body, error |-> p.error]
        <4> HIDE DEF w
        <4>1. Fitting(id, b, w.posts)
          BY <2>1, WalkFits
        <4> QED BY <4>1, FittingKept
      <3> HIDE DEF w, p, s, a, t
      <3>3. a = [body |-> a.body, error |-> a.error]
        BY <3>1, <3>2
      <3>4. t \in {a, [a EXCEPT !.body.command = "velocity"]}
        BY <2>2 DEF Taken, a
      <3> QED BY <3>3, <3>4
    <2>4. a.error # "none" => t = a
      <3> HIDE DEF w
      <3> QED BY <2>2 DEF Taken
    <2>5. a.error # "none" => a.body = b \/ (a = p /\ p.error # "none")
      <3> DEFINE s == Settled(p.body, w)
      <3>1. \/ a = [body |-> b, error |-> "Protocol"]
            \/ a = [body |-> b, error |-> "Rejected"]
            \/ a = p /\ p.error # "none"
            \/ a = [p EXCEPT !.body = s] /\ p.error = "none"
        BY DEF Attach
      <3>2. p = [body |-> p.body, error |-> p.error]
        <4> HIDE DEF w
        <4>1. Fitting(id, b, w.posts)
          BY <2>1, WalkFits
        <4> QED BY <4>1, FittingKept
      <3> HIDE DEF w, p, s, a
      <3> QED BY <3>1, <3>2
    <2>6. p.error # "none" => Alike(p.body, b)
      <3> HIDE DEF w
      <3>1. Bounces(b, w.posts)
        BY <2>1, WalkBounces
      <3> QED BY <3>1 DEF Bounces
    <2> HIDE DEF a, p, t
    <2>7. t = a /\ a.error # "none"
      BY <2>3, <2>4 DEF t
    <2>8. Alike(a.body, b)
      BY <2>5, <2>6, <2>7 DEF Alike
    <2> QED BY <2>7, <2>8 DEF t
  <1> QED BY <1>1, <1>2

\* The events of a command: a recover that cannot be finished posts none.
LEMMA EventsTidy ==
    ASSUME NEW id \in Id, NEW b \in Known(id), NEW cmd \in DOMAIN events(b)
    PROVE  \/ Tidy(id, events(b)[cmd])
           \/ cmd = "Recover"
  <1>0. b.id = id
    BY KnownIs
  <1>1. CASE id = "drone"
    <2> DEFINE arm == <<"Arm">>
               enable == <<"EnableActuators">>
               enter == <<"HeartbeatFresh", "EnterOffboard">>
               climb == <<"Takeoff">>
               aloft == <<"ReachedAltitude">>
               land == <<"Land">>
               down == <<"Touchdown">>
               none == <<>>
               disarm == <<"Disarm">>
               trip == <<"TriggerFailsafe">>
               recover == IF Admits(b, "Recover") THEN <<"Recover">> ELSE <<"Disarm", "Recover">>
    <2>1. events(b) = aerial_events(b)
      BY <1>0, <1>1, Domains DEF events
    <2>2. aerial_events(b) =
            [Arm |-> arm, Disarm |-> disarm, EnableActuators |-> enable, Offboard |-> enter,
             Takeoff |-> climb, Airborne |-> aloft, Land |-> land, Touchdown |-> down,
             Failsafe |-> trip, SetCharge |-> none, Velocity |-> mission, Drive |-> mission,
             Thrust |-> mission, Position |-> mission, Hold |-> mission, Recover |-> recover]
      BY DEF aerial_events
    <2>3. /\ Tidy("drone", arm) /\ Tidy("drone", enable) /\ Tidy("drone", climb)
          /\ Tidy("drone", aloft) /\ Tidy("drone", land) /\ Tidy("drone", down)
          /\ Tidy("drone", disarm) /\ Tidy("drone", trip)
      BY MeekAre DEF Tidy
    <2>4. Tidy("drone", none) /\ Tidy("drone", enter) /\ Tidy("drone", mission)
      BY DEF Tidy, mission
    <2> HIDE DEF arm, enable, enter, climb, aloft, land, down, none, disarm, trip, recover
    <2>5. cmd # "Recover" =>
            aerial_events(b)[cmd] \in {arm, disarm, enable, enter, climb, aloft, land, down,
                                       trip, none, mission}
      BY <2>1, <2>2
    <2> QED BY <1>1, <2>1, <2>3, <2>4, <2>5
  <1>2. CASE id = "rover"
    <2>1. events(b) = ground_events
      BY <1>0, <1>2, Domains DEF events
    <2> DEFINE p == ground_events[cmd]
    <2>2. p = <<>> \/ \E e \in Told("rover") : p = <<e>>
      BY <2>1, LandPosts, MeekAre
    <2> HIDE DEF p
    <2>3. Tidy(id, p)
      BY <1>2, <2>2 DEF Tidy
    <2> QED BY <2>1, <2>3 DEF p
  <1>3. CASE id \in {"skiff", "surveyor"}
    <2>1. events(b) = marine_events
      BY <1>0, <1>3, Domains DEF events
    <2> DEFINE p == marine_events[cmd]
    <2>2. p = <<>> \/ \E e \in Told(id) : p = <<e>>
      BY <1>3, <2>1, SeaPosts, MeekAre
    <2> HIDE DEF p
    <2>3. Tidy(id, p)
      BY <2>2 DEF Tidy
    <2> QED BY <2>1, <2>3 DEF p
  <1> QED BY <1>1, <1>2, <1>3, Domains

LEMMA JsonBounces ==
    ASSUME NEW id \in Id, NEW b \in Known(id), NEW cmd, apply_action(b, cmd).error # "none"
    PROVE  Alike(apply_action(b, cmd).body, b)
  <1> DEFINE r == apply_action(b, cmd)
             posts == events(b)[cmd]
             p == Posted(b, posts)
             c == Commanded(p.body, cmd)
  <1>1. CASE cmd \in ENV \/ cmd \notin DOMAIN events(b)
    <2>1. r = [body |-> b, error |-> "none"] \/ r = [body |-> b, error |-> "WrongDomain"]
      BY <1>1 DEF apply_action
    <2> HIDE DEF r
    <2> QED BY <2>1 DEF Alike, r
  <1>2. CASE cmd \notin ENV /\ cmd \in DOMAIN events(b)
    <2>1. r = IF p.error = "none" THEN [p EXCEPT !.body = c]
              ELSE IF cmd = "Recover" THEN [p EXCEPT !.body = b] ELSE p
      BY <1>2 DEF apply_action
    <2>2. p = [body |-> p.body, error |-> p.error]
      <3>1. CASE Fitting(id, b, posts)
        <4> HIDE DEF posts
        <4> QED BY <3>1, FittingKept
      <3>2. CASE id = "drone" /\ posts = <<"Disarm", "Recover">>
        <4>1. posts \in Seq(Told(id))
          <5> DEFINE T == Told(id)
          <5>1. "Disarm" \in T /\ "Recover" \in T
            BY <3>2, MeekAre
          <5> HIDE DEF T
          <5>2. <<"Disarm", "Recover">> \in Seq(T)
            BY <5>1
          <5> QED BY <3>2, <5>2 DEF T
        <4> HIDE DEF posts
        <4> QED BY <4>1, KnownPosted
      <3> QED BY <1>2, <3>1, <3>2, CommandFits
    <2>3. p.error # "none" /\ cmd # "Recover" => Alike(p.body, b)
      <3>1. cmd # "Recover" => Tidy(id, posts)
        BY <1>2, EventsTidy
      <3> HIDE DEF posts
      <3>2. cmd # "Recover" => Bounces(b, posts)
        BY <3>1, TidyBounces
      <3> QED BY <3>2 DEF Bounces
    <2> HIDE DEF r, p, c, posts
    <2>4. r.error = p.error
      BY <2>1, <2>2
    <2>5. p.error # "none"
      BY <2>4 DEF r
    <2>6. CASE cmd = "Recover"
      <3>1. r.body = b
        BY <2>1, <2>2, <2>5, <2>6
      <3> QED BY <3>1 DEF Alike, r
    <2>7. CASE cmd # "Recover"
      <3>1. r = p
        BY <2>1, <2>5, <2>7
      <3> QED BY <2>3, <2>5, <2>7, <3>1 DEF r
    <2> QED BY <2>6, <2>7
  <1> QED BY <1>1, <1>2

\* The body of a refused call is as it was, and so are the others.
LEMMA OneAlike ==
    ASSUME LabKnown, NEW id, NEW v, body' = [body EXCEPT ![id] = v],
           id \in Present => Alike(v, body[id])
    PROVE  \A i \in Present : Alike(body'[i], body[i])
  <1>1. body = [i \in Present |-> body[i]]
    BY DEF LabKnown
  <1>2. \A i \in Present : body'[i] = IF i = id THEN v ELSE body[i]
    BY <1>1
  <1> QED BY <1>2 DEF Alike

LEMMA ApplyBounces ==
    ASSUME LabKnown, apply, report' = "refused"
    PROVE  \A i \in Present : Alike(body'[i], body[i])
  <1> DEFINE id == pending.id
             cmd == pending.cmd
             b == body[id]
             ws == walks(b, cmd)
  <1>1. ASSUME NEW api, json(id, cmd, api)
        PROVE  \A i \in Present : Alike(body'[i], body[i])
    <2> DEFINE r == apply_action(b, cmd)
               v == r.body
    <2>1. body' = [body EXCEPT ![id] = v] /\ (r.error = "none" => report' = "ok")
      BY <1>1 DEF json, Returned
    <2>2. ASSUME id \in Present PROVE Alike(v, b)
      <3>1. id \in Id /\ b \in Known(id)
        BY <2>2 DEF LabKnown
      <3>2. r.error # "none"
        BY <2>1
      <3> HIDE DEF id, b, cmd
      <3> QED BY <3>1, <3>2, JsonBounces
    <2> HIDE DEF v, id
    <2> QED BY <2>1, <2>2, OneAlike
  <1>2. ASSUME walk(id, ws, logs(b, cmd)),
               report' = IF try_attach(b, ws).error = "none" THEN "ok" ELSE "refused"
        PROVE  \A i \in Present : Alike(body'[i], body[i])
    <2> DEFINE r == try_attach(b, ws)
               v == r.body
    <2>1. body' = [body EXCEPT ![id] = v]
      BY <1>2 DEF walk
    <2>2. ASSUME id \in Present PROVE Alike(v, b)
      <3>1. id \in Id /\ b \in Known(id)
        BY <2>2 DEF LabKnown
      <3>2. r.error # "none"
        BY <1>2
      <3>3. ws \in Seq(LabWalks(b))
        <4>1. b.id = id
          <5> HIDE DEF b, id
          <5> QED BY <3>1, KnownIs
        <4> HIDE DEF b, id, cmd
        <4> QED BY <3>1, <4>1, WaysOf
      <3> HIDE DEF id, b, ws
      <3> QED BY <3>1, <3>2, <3>3, CallBounces
    <2> HIDE DEF v, id
    <2> QED BY <2>1, <2>2, OneAlike
  <1>3. \/ \E api : json(id, cmd, api)
        \/ /\ walk(id, ws, logs(b, cmd))
           /\ report' = IF try_attach(b, ws).error = "none" THEN "ok" ELSE "refused"
    BY DEF apply, Returned
  <1> HIDE DEF id, cmd, b, ws
  <1> QED BY <1>1, <1>2, <1>3

LEMMA NextBounces ==
    ASSUME LabKnown, [ResearchNext]_rvars, Refuses
    PROVE  \A i \in Present : Alike(body'[i], body[i])
  <1>0. report' = "refused" /\ report' # report
    BY DEF Refuses
  <1>1. CASE UNCHANGED body
    BY <1>1 DEF Alike
  <1>2. CASE applied
    <2>1. CASE write
      <3>1. UNCHANGED body
        BY <2>1, GateStays DEF write
      <3> QED BY <1>1, <3>1
    <2>2. CASE apply
      BY <1>0, <2>2, ApplyBounces
    <2> QED BY <1>2, <2>1, <2>2 DEF applied, called
  <1>3. CASE disturb
    <2>1. report' = "none"
      BY <1>3 DEF disturb, others, inject, elsewhere, Others
    <2> QED BY <1>0, <2>1
  <1>4. CASE stopped \/ UNCHANGED rvars
    BY <1>0, <1>4 DEF stopped, rvars, vars
  <1>5. CASE bare
    <2>1. CASE asked
      BY <1>1, <2>1, AskedStays
    <2>2. CASE step \/ \E id \in Present : bind(id)
      <3>1. report' = "none"
        BY <2>2 DEF step, bind
      <3> QED BY <1>0, <3>1
    <2> QED BY <1>5, <2>1, <2>2 DEF bare
  <1>6. CASE research
    <2>1. CASE give
      <3>1. \E api, id, cmd : gate(api, id, cmd)
        BY <2>1 DEF give, begin
      <3> QED BY <1>1, <3>1, GateStays
    <2>2. CASE chain_write
      BY <1>1, <2>2 DEF chain_write, preview
    <2>3. CASE observe \/ decide \/ return \/ abuse \/ broken \/ run_chain \/ chain_read \/ mhs_open
      <3>1. report' = "none"
        BY <2>3 DEF observe, decide, return, abuse, broken, run_chain, chain_read, mhs_open
      <3> QED BY <1>0, <3>1
    <2>4. CASE call
      <3>1. report' = "none"
        BY <2>4 DEF call
      <3> QED BY <1>0, <3>1
    <2>5. CASE research_step \/ chain_step
      <3>1. report' = "none"
        BY <2>5 DEF research_step, chain_step, step
      <3> QED BY <1>0, <3>1
    <2>6. CASE probe_failsafe_hold
      <3>1. UNCHANGED <<body, leftover>>
        BY <2>6 DEF probe_failsafe_hold
      <3> QED BY <1>1, <3>1
    <2> QED BY <1>6, <2>1, <2>2, <2>3, <2>4, <2>5, <2>6 DEF research, mhs_tool
  <1> QED BY <1>2, <1>3, <1>4, <1>5, <1>6 DEF ResearchNext

\* A call that is refused leaves the bodies as they were, save for a heartbeat that
\* it freshened: of the events of a command or a walk only the first is refused, or
\* the one after a heartbeat; a recovery that its command cannot finish is undone
\* (lab.rs act, act_through_attach; apply.rs apply_action_world).
THEOREM LabBounces == ResearchSpec => RefusedLeavesBody
  <1>1. LabKnown /\ [ResearchNext]_rvars =>
          [Refuses => \A id \in Present : Unfresh(body'[id]) = Unfresh(body[id])]_vars
    BY NextBounces DEF Alike
  <1> QED BY <1>1, LabInvariant, PTL DEF ResearchSpec, RefusedLeavesBody

-----------------------------------------------------------------------------
(* The machine-hardware surface of the lab.                                *)

\* A device is never mistaken for a body.
LEMMA DevicesAre ==
    ASSUME LabKnown, NEW device \in Devices(body)
    PROVE  \/ device \in {"env", "lab"} /\ device \notin Id
           \/ device \in Id /\ device \in Present /\ body[device].id = device
  <1>1. "env" \notin Id /\ "lab" \notin Id
    BY Domains
  <1>2. CASE device \in Present
    <2>1. device \in Id /\ body[device] \in Known(device)
      BY <1>2 DEF LabKnown
    <2> QED BY <1>2, <2>1, KnownIs
  <1> QED BY <1>1, <1>2 DEF Devices, Present

LEMMA PreviewIs ==
    ASSUME LabKnown, NEW device \in Present, NEW cmd \in LabCmds \ ENV
    PROVE  preview_write(body, Request(device, cmd, "within")) = "ok"
             <=> ensure_tool_or_attach_grant(body[device], cmd)
  <1> DEFINE req == Request(device, cmd, "within")
             b == body[device]
  <1>1. device \in Id /\ b.id = device /\ device \notin {"env", "lab"}
    <2>1. device \in Id /\ body[device] \in Known(device)
      BY DEF LabKnown
    <2> QED BY <2>1, KnownIs, Domains
  <1>2. req.device = device /\ req.channel = cmd /\ req.numbers = "within"
    BY DEF Request
  <1>3. numeric_limit(cmd, "within") = "none"
    BY DEF numeric_limit
  <1>4. device \in Devices(body)
    BY DEF Devices, Present
  <1> HIDE DEF req, b
  <1>5. preview_write(body, req) = "ok"
          <=> allows(body, device, cmd) \/ takeoff_grant(body, device, cmd)
    BY <1>1, <1>2, <1>3, <1>4 DEF preview_write
  <1>6. /\ allows(body, device, cmd) <=> on_legal_list(b, cmd)
        /\ takeoff_grant(body, device, cmd) <=> attach_takeoff_grant(b, cmd)
    BY <1>1 DEF allows, takeoff_grant, attach_takeoff_grant, b
  <1>7. ensure_tool_or_attach_grant(b, cmd)
          <=> on_legal_list(b, cmd) \/ attach_takeoff_grant(b, cmd)
    BY DEF ensure_tool_or_attach_grant, ensure_tool
  <1> QED BY <1>5, <1>6, <1>7 DEF req, b

\* A write in good order gets through the preview exactly when the gate of the lab
\* would let its command through, whatever the bodies have come to.
THEOREM SurfaceAgrees == ResearchSpec => []PreviewAgrees
  <1>1. LabKnown => PreviewAgrees
    BY PreviewIs DEF PreviewAgrees, PreviewAgreesOf, Present
  <1> QED BY <1>1, LabInvariant, PTL

LEMMA LegalListed ==
    ASSUME NEW id \in Id, NEW b, b.id = id, NEW cmd, on_legal_list(b, cmd)
    PROVE  cmd \in domain_writes(Domain(id))
  <1>1. cmd \in DOMAIN events(b) /\ ~alias(b, cmd)
    BY DEF on_legal_list, accepted_by
  <1>2. CASE id = "drone"
    <2>1. events(b) = aerial_events(b) /\ Domain(b.id) = "aerial" /\ Domain(id) = "aerial"
      BY <1>2, Domains DEF events
    <2>2. DOMAIN aerial_events(b) =
            {"Arm", "Disarm", "EnableActuators", "Offboard", "Takeoff", "Airborne", "Land",
             "Touchdown", "Failsafe", "SetCharge", "Velocity", "Drive", "Thrust", "Position",
             "Hold", "Recover"}
      <3> DEFINE recover == IF Admits(b, "Recover") THEN <<"Recover">> ELSE <<"Disarm", "Recover">>
                 one == <<"HeartbeatFresh", "EnterOffboard">>
      <3>1. aerial_events(b) =
              [Arm |-> <<"Arm">>, Disarm |-> <<"Disarm">>, EnableActuators |-> <<"EnableActuators">>,
               Offboard |-> one, Takeoff |-> <<"Takeoff">>, Airborne |-> <<"ReachedAltitude">>,
               Land |-> <<"Land">>, Touchdown |-> <<"Touchdown">>,
               Failsafe |-> <<"TriggerFailsafe">>, SetCharge |-> <<>>, Velocity |-> mission,
               Drive |-> mission, Thrust |-> mission, Position |-> mission, Hold |-> mission,
               Recover |-> recover]
        BY DEF aerial_events
      <3> HIDE DEF recover, one
      <3> QED BY <3>1
    <2>3. cmd \notin {"Drive", "Thrust"}
      BY <1>1, <2>1 DEF alias
    <2> QED BY <1>1, <2>1, <2>2, <2>3 DEF domain_writes
  <1>3. CASE id = "rover"
    <2>1. events(b) = ground_events /\ Domain(b.id) = "ground" /\ Domain(id) = "ground"
      BY <1>3, Domains DEF events
    <2>2. cmd \notin {"Park", "Failsafe", "Velocity", "Position", "Thrust"}
      BY <1>1, <2>1 DEF alias
    <2>3. cmd \in {"Release", "Halt", "Clear", "SetCharge", "Drive", "Hold", "Estop"}
      BY <1>1, <2>1, <2>2 DEF ground_events
    <2> QED BY <2>1, <2>3 DEF domain_writes
  <1>4. CASE id \in {"skiff", "surveyor"}
    <2>1. events(b) = marine_events /\ Domain(b.id) = "marine" /\ Domain(id) = "marine"
      BY <1>4, Domains DEF events
    <2>2. cmd \notin {"Park", "Velocity", "Position", "Drive"}
      BY <1>1, <2>1 DEF alias
    <2>3. cmd \in {"Undock", "Dock", "Station", "Resume", "Recover", "SetCharge", "Thrust",
                   "Hold", "Failsafe"}
      BY <1>1, <2>1, <2>2 DEF marine_events
    <2> QED BY <2>1, <2>3 DEF domain_writes
  <1> QED BY <1>2, <1>3, <1>4, Domains

Domains_ == {"aerial", "ground", "marine", "environment", "lab"}

\* Every limit the numbers of a listed write can meet is listed.
LEMMA LimitsListed ==
    ASSUME NEW domain \in Domains_, NEW cmd \in domain_writes(domain)
    PROVE  /\ \A numbers \in {"fast_turn", "large"} :
                numeric_limit(cmd, numbers) \in safety_limits(domain) \cup {"none"}
           /\ needs_values(cmd) <=> numeric_limit(cmd, "large") # "none"
  <1>1. numeric_limit(cmd, "large") = size_limit(cmd)
    BY DEF numeric_limit
  <1>2. numeric_limit(cmd, "fast_turn") = IF cmd \in Turning THEN "yaw_rate" ELSE "none"
    BY DEF numeric_limit
  <1>3. needs_values(cmd) <=> size_limit(cmd) # "none"
    BY DEF needs_values, size_limit, ENV
  <1>4. size_limit(cmd) \in safety_limits(domain) \cup {"none"}
    <2>1. CASE domain = "aerial"
      BY <2>1 DEF domain_writes, size_limit, safety_limits, robot_safety
    <2>2. CASE domain \in {"ground", "marine"}
      BY <2>2 DEF domain_writes, size_limit, safety_limits, robot_safety
    <2>3. CASE domain \in {"environment", "lab"}
      BY <2>3 DEF domain_writes, size_limit, safety_limits, ENV
    <2> QED BY <2>1, <2>2, <2>3 DEF Domains_
  <1>5. cmd \in Turning => "yaw_rate" \in safety_limits(domain)
    BY DEF domain_writes, Turning, safety_limits, robot_safety, ENV, Domains_
  <1> QED BY <1>1, <1>2, <1>3, <1>4, <1>5

LEMMA MeasuresRead ==
    ASSUME LabKnown, NEW device \in Devices(body)
    PROVE  measures(Domain_of(device)) = {c \in Channels : read_channel(body, device, c) = "ok"}
  <1> DEFINE A == answers(body, device)
             M == measures(Domain_of(device))
  <1>1. A = M /\ Domain_of(device) \in Domains_
    <2>1. CASE device = "env"
      BY <2>1 DEF answers, measures, Domain_of, Domains_
    <2>2. CASE device = "lab"
      BY <2>2 DEF answers, measures, Domain_of, Domains_
    <2>3. CASE device \in Id
      <3>1. device \notin {"env", "lab"} /\ Domain(device) \in {"aerial", "ground", "marine"}
        BY <2>3, Domains
      <3>2. Domain_of(device) = Domain(device)
        BY <3>1 DEF Domain_of
      <3> QED BY <3>1, <3>2 DEF answers, measures, robot_measures, Domains_
    <2> QED BY <2>1, <2>2, <2>3, DevicesAre
  <1>2. M \subseteq Channels
    <2>1. \A d \in Domains_ : measures(d) \subseteq Channels
      BY DEF Channels, Domains_
    <2> QED BY <1>1, <2>1
  <1>3. \A c : read_channel(body, device, c) = "ok" <=> c \in A
    BY DEF read_channel
  <1> HIDE DEF A, M
  <1> QED BY <1>1, <1>2, <1>3 DEF M

\* The reference of every device tells the truth about the driver: by hand twice,
\* the tables agree whatever the bodies have come to (surface.rs, driver.rs).
THEOREM SurfaceTells == ResearchSpec => []ReferenceTrue
  <1>1. ASSUME LabKnown, NEW device \in Devices(body)
        PROVE  LET domain == Domain_of(device) IN
               /\ legal_now(body, device) \subseteq domain_writes(domain)
               /\ measures(domain) = {c \in Channels : read_channel(body, device, c) = "ok"}
               /\ \A cmd \in domain_writes(domain) :
                    /\ \A numbers \in {"fast_turn", "large"} :
                         numeric_limit(cmd, numbers) \in safety_limits(domain) \cup {"none"}
                    /\ needs_values(cmd) <=> numeric_limit(cmd, "large") # "none"
    <2> DEFINE domain == Domain_of(device)
    <2>1. domain \in Domains_ /\ legal_now(body, device) \subseteq domain_writes(domain)
      <3>1. CASE device \in {"env", "lab"}
        BY <3>1 DEF Domain_of, Domains_, legal_now, domain_writes
      <3>2. CASE device \in Id
        <4>1. device \notin {"env", "lab"} /\ Domain(device) \in {"aerial", "ground", "marine"}
          BY <3>2, Domains
        <4>2. domain = Domain(device) /\ body[device].id = device
          BY <1>1, <3>2, <4>1, DevicesAre DEF Domain_of
        <4>3. legal_now(body, device) = {cmd \in LabCmds : on_legal_list(body[device], cmd)}
          BY <4>1 DEF legal_now
        <4> HIDE DEF domain
        <4> QED BY <3>2, <4>1, <4>2, <4>3, LegalListed DEF Domains_
      <3> QED BY <1>1, <3>1, <3>2, DevicesAre
    <2>2. measures(domain) = {c \in Channels : read_channel(body, device, c) = "ok"}
      BY <1>1, MeasuresRead
    <2> HIDE DEF domain
    <2>3. ASSUME NEW cmd \in domain_writes(domain)
          PROVE  /\ \A numbers \in {"fast_turn", "large"} :
                      numeric_limit(cmd, numbers) \in safety_limits(domain) \cup {"none"}
                 /\ needs_values(cmd) <=> numeric_limit(cmd, "large") # "none"
      BY <2>1, LimitsListed
    <2> QED BY <2>1, <2>2, <2>3 DEF domain
  <1>2. LabKnown => ReferenceTrue
    BY <1>1 DEF ReferenceTrue, ReferenceTrueOf
  <1> QED BY <1>2, LabInvariant, PTL
-----------------------------------------------------------------------------
(* What a log that is replayed leaves.                                     *)

\* g holds what a fresh body is after each command of a log.
ReplayTrace(g, b, log) ==
    /\ g[0] = [body |-> b, error |-> "none"]
    /\ \A i \in 1..Len(log) : g[i] = Again(g[i - 1], log[i])

\* The body a replay leaves; one that is refused leaves the body of before.
Settles(b, r) == IF r.error = "none" THEN r.body ELSE b

LEMMA ReplayRuns ==
    ASSUME NEW T, NEW b, NEW log \in Seq(T)
    PROVE  \E g : ReplayTrace(g, b, log) /\ Replayed(b, log) = Settles(b, g[Len(log)])
  <1> DEFINE N == Len(log)
             first == [body |-> b, error |-> "none"]
             Then(x, i) == Again(x, log[i])
             Out(R, i) == {Again(r, log[i]) : r \in R}
             Fix(s) == s = [i \in 0..N |-> IF i = 0 THEN {first} ELSE Out(s[i - 1], i)]
             Upto(n, g) == g[0] = first /\ \A i \in 1..n : g[i] = Then(g[i - 1], i)
  <1>0. N \in Nat
    OBVIOUS
  <1>a. \A x, i : Out({x}, i) = {Then(x, i)}
    OBVIOUS
  <1>b. \A g : Upto(N, g) => ReplayTrace(g, b, log)
    BY DEF ReplayTrace, Then, N, first
  <1> HIDE DEF first, N, Then, Out
  <1>1. \E g : Upto(N, g)
    <2> DEFINE U == {n \in Nat : \E g : Upto(n, g)}
    <2>1. 0 \in U
      <3>1. Upto(0, [i \in {0} |-> first])
        OBVIOUS
      <3> QED BY <3>1
    <2>2. ASSUME NEW n \in Nat, n \in U PROVE n + 1 \in U
      <3>1. PICK g : Upto(n, g)
        BY <2>2
      <3> DEFINE f == [i \in 0..(n + 1) |-> IF i <= n THEN g[i] ELSE Then(g[n], n + 1)]
      <3>2. f[0] = first
        BY <3>1
      <3>3. ASSUME NEW i \in 1..(n + 1) PROVE f[i] = Then(f[i - 1], i)
        <4>1. CASE i <= n
          <5>1. f[i] = g[i] /\ f[i - 1] = g[i - 1] /\ i \in 1..n
            BY <4>1
          <5> QED BY <3>1, <5>1
        <4>2. CASE i = n + 1
          <5>1. f[i] = Then(g[n], n + 1) /\ f[i - 1] = g[n] /\ i - 1 = n
            BY <4>2
          <5> QED BY <4>2, <5>1
        <4> QED BY <4>1, <4>2
      <3>4. Upto(n + 1, f)
        BY <3>2, <3>3
      <3> HIDE DEF f, Upto
      <3> QED BY <3>4
    <2>3. Nat \subseteq U
      <3> HIDE DEF U
      <3> QED BY <2>1, <2>2, SetInduction
    <2> QED BY <1>0, <2>3
  <1>2. PICK g : Upto(N, g)
    BY <1>1
  <1>3. \E s : Fix(s)
    <2> DEFINE s == [i \in 0..N |-> {g[i]}]
               F == [i \in 0..N |-> IF i = 0 THEN {first} ELSE Out(s[i - 1], i)]
    <2>1. ASSUME NEW i \in 0..N PROVE s[i] = F[i]
      <3>1. CASE i = 0
        BY <1>0, <1>2, <3>1
      <3>2. CASE i # 0
        <4>1. i \in 1..N /\ i - 1 \in 0..N
          BY <1>0, <3>2
        <4>2. s[i] = {g[i]} /\ s[i - 1] = {g[i - 1]} /\ g[i] = Then(g[i - 1], i)
          BY <1>2, <4>1
        <4>3. F[i] = Out(s[i - 1], i)
          BY <3>2
        <4>4. Out({g[i - 1]}, i) = {Then(g[i - 1], i)}
          BY <1>a
        <4> HIDE DEF s, F
        <4> QED BY <4>2, <4>3, <4>4
      <3> QED BY <3>1, <3>2
    <2>2. s = F
      BY <2>1
    <2> QED BY <2>2
  <1>4. ASSUME NEW s, Fix(s) PROVE (CHOOSE v \in {Settles(b, r) : r \in s[N]} : TRUE) = Settles(b, g[N])
    <2> DEFINE U == {n \in Nat : n <= N => s[n] = {g[n]}}
    <2> DEFINE F == [i \in 0..N |-> IF i = 0 THEN {first} ELSE Out(s[i - 1], i)]
    <2>a. s = F
      BY <1>4
    <2>b. F[0] = {first} /\ \A i \in 1..N : F[i] = Out(s[i - 1], i)
      BY <1>0
    <2> HIDE DEF Fix, F
    <2>1. s[0] = {first} /\ \A i \in 1..N : s[i] = Out(s[i - 1], i)
      BY <2>a, <2>b
    <2>2. 0 \in U
      BY <1>2, <2>1
    <2>3. ASSUME NEW n \in Nat, n \in U PROVE n + 1 \in U
      <3>1. SUFFICES ASSUME n + 1 <= N PROVE s[n + 1] = {g[n + 1]}
        OBVIOUS
      <3>2. s[n] = {g[n]} /\ n + 1 \in 1..N /\ (n + 1) - 1 = n
        BY <1>0, <2>3, <3>1
      <3>3. s[n + 1] = Out({g[n]}, n + 1) /\ g[n + 1] = Then(g[n], n + 1)
        BY <1>2, <2>1, <3>2
      <3> QED BY <1>a, <3>3
    <2>4. Nat \subseteq U
      <3> HIDE DEF U
      <3> QED BY <2>2, <2>3, SetInduction
    <2>5. s[N] = {g[N]}
      BY <1>0, <2>4
    <2> QED BY <2>5
  <1> HIDE DEF Fix
  <1>5. Fix(CHOOSE s : Fix(s))
    BY <1>3
  <1>6. (CHOOSE v \in {Settles(b, r) : r \in (CHOOSE s : Fix(s))[N]} : TRUE) = Settles(b, g[N])
    BY <1>4, <1>5
  <1>7. Replayed(b, log) = Settles(b, g[N])
    BY <1>6 DEF Replayed, Settles, Fix, Out, first, N, Then
  <1> QED BY <1>2, <1>7, <1>b DEF N

LEMMA ReplayedOne ==
    ASSUME NEW b, NEW c
    PROVE  Replayed(b, <<c>>) = Settles(b, Again(Fresh(b), c))
  <1> DEFINE log == <<c>>
  <1>1. log \in Seq({c}) /\ Len(log) = 1 /\ log[1] = c
    OBVIOUS
  <1> HIDE DEF log
  <1>2. PICK g : ReplayTrace(g, b, log) /\ Replayed(b, log) = Settles(b, g[1])
    BY <1>1, ReplayRuns
  <1>3. g[0] = Fresh(b) /\ g[1] = Again(g[0], c)
    BY <1>1, <1>2 DEF ReplayTrace, Fresh
  <1> QED BY <1>2, <1>3 DEF log

LEMMA ReplayedTwo ==
    ASSUME NEW b, NEW c, NEW d, NEW x, NEW y,
           Again(Fresh(b), c) = Fresh(x), Again(Fresh(x), d) = Fresh(y)
    PROVE  Replayed(b, <<c, d>>) = y
  <1> DEFINE log == <<c, d>>
  <1>1. log \in Seq({c, d}) /\ Len(log) = 2 /\ log[1] = c /\ log[2] = d
    OBVIOUS
  <1> HIDE DEF log
  <1>2. PICK g : ReplayTrace(g, b, log) /\ Replayed(b, log) = Settles(b, g[2])
    BY <1>1, ReplayRuns
  <1>3. g[0] = Fresh(b) /\ g[1] = Again(g[0], c) /\ g[2] = Again(g[1], d)
    BY <1>1, <1>2 DEF ReplayTrace, Fresh
  <1>4. g[2] = Fresh(y)
    BY <1>3
  <1> QED BY <1>2, <1>4 DEF log, Settles, Fresh

LEMMA ReplayedThree ==
    ASSUME NEW b, NEW c, NEW d, NEW e, NEW x, NEW y, NEW z,
           Again(Fresh(b), c) = Fresh(x), Again(Fresh(x), d) = Fresh(y),
           Again(Fresh(y), e) = Fresh(z)
    PROVE  Replayed(b, <<c, d, e>>) = z
  <1> DEFINE log == <<c, d, e>>
  <1>1. log \in Seq({c, d, e}) /\ Len(log) = 3 /\ log[1] = c /\ log[2] = d /\ log[3] = e
    OBVIOUS
  <1> HIDE DEF log
  <1>2. PICK g : ReplayTrace(g, b, log) /\ Replayed(b, log) = Settles(b, g[3])
    BY <1>1, ReplayRuns
  <1>3. /\ g[0] = Fresh(b) /\ g[1] = Again(g[0], c)
        /\ g[2] = Again(g[1], d) /\ g[3] = Again(g[2], e)
    BY <1>1, <1>2 DEF ReplayTrace, Fresh
  <1>4. g[3] = Fresh(z)
    BY <1>3
  <1> QED BY <1>2, <1>4 DEF log, Settles, Fresh

LEMMA ReplayedFour ==
    ASSUME NEW b, NEW c, NEW d, NEW e, NEW f, NEW w, NEW x, NEW y, NEW z,
           Again(Fresh(b), c) = Fresh(w), Again(Fresh(w), d) = Fresh(x),
           Again(Fresh(x), e) = Fresh(y), Again(Fresh(y), f) = Fresh(z)
    PROVE  Replayed(b, <<c, d, e, f>>) = z
  <1> DEFINE log == <<c, d, e, f>>
  <1>1. /\ log \in Seq({c, d, e, f}) /\ Len(log) = 4
        /\ log[1] = c /\ log[2] = d /\ log[3] = e /\ log[4] = f
    OBVIOUS
  <1> HIDE DEF log
  <1>2. PICK g : ReplayTrace(g, b, log) /\ Replayed(b, log) = Settles(b, g[4])
    BY <1>1, ReplayRuns
  <1>3. /\ g[0] = Fresh(b) /\ g[1] = Again(g[0], c) /\ g[2] = Again(g[1], d)
        /\ g[3] = Again(g[2], e) /\ g[4] = Again(g[3], f)
    BY <1>1, <1>2 DEF ReplayTrace, Fresh
  <1>4. g[4] = Fresh(z)
    BY <1>3
  <1> QED BY <1>2, <1>4 DEF log, Settles, Fresh

\* A logged command that is on the list again does what act_through_attach does.
LEMMA AgainIs ==
    ASSUME NEW b, NEW cmd, ensure_tool_or_attach_grant(b, cmd)
    PROVE  Again(Fresh(b), cmd) = Through(b, cmd)
  BY DEF Again, Fresh

\* The outcome of a call is a body and an error.
LEMMA TriedIs ==
    ASSUME NEW id \in Id, NEW b \in Known(id), NEW ws \in Seq(LabWalks(b))
    PROVE  LET r == try_attach(b, ws) IN
           /\ r = [body |-> r.body, error |-> r.error]
           /\ r.error = "none" =>
                /\ Binding(b, ws) # {}
                /\ Posted(b, Bound(b, ws).posts).error = "none"
                /\ Bound(b, ws) \in LabWalks(b) /\ Kind(b) \in Bound(b, ws).from
           /\ Binding(b, ws) # {} => r = Taken(b, Bound(b, ws))
  <1> DEFINE w == Bound(b, ws)
             a == Attach(b, w)
             p == Posted(b, w.posts)
             t == try_attach(b, ws)
  <1>1. CASE Binding(b, ws) = {}
    <2>1. t = [body |-> b, error |-> "Protocol"]
      BY <1>1 DEF try_attach
    <2> HIDE DEF t
    <2>2. t = [body |-> t.body, error |-> t.error] /\ t.error # "none"
      BY <2>1
    <2> QED BY <1>1, <2>2 DEF t
  <1>2. CASE Binding(b, ws) # {}
    <2>1. w \in LabWalks(b) /\ Kind(b) \in w.from
      BY <1>2, BoundIs
    <2>2. t = Taken(b, w)
      BY <1>2 DEF try_attach
    <2>3. p = [body |-> p.body, error |-> p.error]
      <3> HIDE DEF w
      <3>1. Fitting(id, b, w.posts)
        BY <2>1, WalkFits
      <3> QED BY <3>1, FittingKept
    <2> DEFINE s == Settled(p.body, w)
    <2>4. \/ a = [body |-> b, error |-> "Rejected"]
          \/ a = p /\ p.error # "none"
          \/ a = [p EXCEPT !.body = s] /\ p.error = "none"
      BY <2>1 DEF Attach
    <2>5. t \in {a, [a EXCEPT !.body.command = "velocity"]}
      BY <2>2 DEF Taken
    <2> HIDE DEF w, p, s, a, t
    <2>6. a = [body |-> a.body, error |-> a.error] /\ (a.error = "none" => p.error = "none")
      BY <2>3, <2>4
    <2>7. t = [body |-> t.body, error |-> t.error] /\ t.error = a.error
      BY <2>5, <2>6
    <2> QED BY <1>2, <2>1, <2>2, <2>6, <2>7 DEF t, w, p
  <1> QED BY <1>1, <1>2

\* A command that is on the list and is walked, or is posted for want of a walk,
\* is reproduced by its own name.
LEMMA WalkAgain ==
    ASSUME NEW id \in Id, NEW b \in Known(id), NEW cmd, ensure_tool_or_attach_grant(b, cmd),
           try_attach(b, walks(b, cmd)).error = "none"
    PROVE  Again(Fresh(b), cmd) = try_attach(b, walks(b, cmd))
  BY AgainIs DEF Through

LEMMA WalkReplayed ==
    ASSUME NEW id \in Id, NEW b \in Known(id), NEW cmd, ensure_tool_or_attach_grant(b, cmd),
           try_attach(b, walks(b, cmd)).error = "none"
    PROVE  Replayed(b, <<cmd>>) = try_attach(b, walks(b, cmd)).body
  BY WalkAgain, ReplayedOne DEF Settles

LEMMA PostReplayed ==
    ASSUME NEW b, NEW cmd, ensure_tool_or_attach_grant(b, cmd),
           Binding(b, walks(b, cmd)) = {}, apply_action(b, cmd).error = "none"
    PROVE  Replayed(b, <<cmd>>) = apply_action(b, cmd).body
  <1>1. try_attach(b, walks(b, cmd)) = [body |-> b, error |-> "Protocol"]
    BY DEF try_attach
  <1>2. Again(Fresh(b), cmd) = apply_action(b, cmd)
    BY <1>1, AgainIs DEF Through
  <1> QED BY <1>2, ReplayedOne DEF Settles


\* The walks of a drone's commands.
arm_now == Walk({"PreflightReady"}, FALSE, <<"Arm">>, "none")
enable_now == Walk(OffboardControl \cup {"Armed"}, FALSE, <<"EnableActuators">>, "none")
LEMMA AirWalksAre ==
    ASSUME NEW b, b.id = "drone"
    PROVE  /\ walks(b, "Arm") = <<arm_now>>
           /\ walks(b, "Offboard") = <<enter_offboard_now>>
           /\ walks(b, "EnableActuators") = <<enable_now>>
           /\ walks(b, "Takeoff") = <<attach_takeoff, attach_start_takeoff>>
           /\ walks(b, "Airborne") = <<attach_airborne>> /\ walks(b, "Land") = <<attach_land>>
           /\ walks(b, "Touchdown") = <<attach_touchdown>>
           /\ walks(b, "Failsafe") = <<attach_failsafe>>
           /\ walks(b, "Disarm") = <<attach_disarm>>
           /\ walks(b, "Recover") = <<attach_recover_ready(b)>>
           /\ walks(b, "Hold") = <<attach_hold>> /\ walks(b, "Position") = <<attach_hold>>
           /\ walks(b, "Velocity") = <<velocity_now>>
           /\ \A cmd : cmd \notin {"Arm", "Offboard", "EnableActuators", "Takeoff", "Airborne",
                                   "Land", "Touchdown", "Failsafe", "Disarm", "Recover", "Hold",
                                   "Position", "Velocity"} => walks(b, cmd) = <<>>
  <1> DEFINE recover == attach_recover_ready(b)
             by == aerial_walks(b)
  <1>1. \A cmd : walks(b, cmd) = IF cmd \in DOMAIN by THEN by[cmd] ELSE <<>>
    BY Domains DEF walks
  <1>2. by = [Arm |-> <<arm_now>>, Offboard |-> <<enter_offboard_now>>,
              EnableActuators |-> <<enable_now>>,
              Takeoff |-> <<attach_takeoff, attach_start_takeoff>>,
              Airborne |-> <<attach_airborne>>, Land |-> <<attach_land>>,
              Touchdown |-> <<attach_touchdown>>, Failsafe |-> <<attach_failsafe>>,
              Disarm |-> <<attach_disarm>>, Recover |-> <<recover>>,
              Hold |-> <<attach_hold>>, Position |-> <<attach_hold>>, Velocity |-> <<velocity_now>>]
    BY DEF aerial_walks, arm_now, enable_now
  <1> HIDE DEF by, recover
  <1> QED BY <1>1, <1>2 DEF recover

\* The first walk that binds, of one or two.
LEMMA OneTaken ==
    ASSUME NEW b, NEW w
    PROVE  /\ Kind(b) \in w.from => Binding(b, <<w>>) # {} /\ Bound(b, <<w>>) = w
                                    /\ try_attach(b, <<w>>) = Taken(b, w)
           /\ Kind(b) \notin w.from => Binding(b, <<w>>) = {}
  <1> DEFINE ws == <<w>>
  <1>1. DOMAIN ws = {1} /\ ws[1] = w
    OBVIOUS
  <1> HIDE DEF ws
  <1>2. Kind(b) \in w.from => Binding(b, ws) = {1}
    BY <1>1 DEF Binding
  <1>3. Kind(b) \notin w.from => Binding(b, ws) = {}
    BY <1>1 DEF Binding
  <1>4. Binding(b, ws) = {1} => Bound(b, ws) = w
    BY <1>1 DEF Bound
  <1>5. Binding(b, ws) # {} => try_attach(b, ws) = Taken(b, Bound(b, ws))
    BY DEF try_attach
  <1>6. {1} # {}
    OBVIOUS
  <1> QED BY <1>2, <1>3, <1>4, <1>5, <1>6 DEF ws

LEMMA FirstOf ==
    ASSUME NEW b, NEW v, NEW w, v.from \cap w.from = {}
    PROVE  LET ws == <<v, w>> IN
           /\ Kind(b) \in v.from => Binding(b, ws) = {1}
           /\ Kind(b) \in w.from => Binding(b, ws) = {2}
           /\ Kind(b) \notin v.from \cup w.from => Binding(b, ws) = {}
           /\ Binding(b, ws) = {1} => Bound(b, ws) = v /\ try_attach(b, ws) = Taken(b, v)
           /\ Binding(b, ws) = {2} => Bound(b, ws) = w /\ try_attach(b, ws) = Taken(b, w)
  <1> DEFINE ws == <<v, w>>
  <1>1. DOMAIN ws = {1, 2} /\ ws[1] = v /\ ws[2] = w
    OBVIOUS
  <1> HIDE DEF ws
  <1>2. /\ Kind(b) \in v.from => Binding(b, ws) = {1}
        /\ Kind(b) \in w.from => Binding(b, ws) = {2}
        /\ Kind(b) \notin v.from \cup w.from => Binding(b, ws) = {}
    BY <1>1 DEF Binding
  <1>3. /\ Binding(b, ws) = {1} => Bound(b, ws) = v
        /\ Binding(b, ws) = {2} => Bound(b, ws) = w
    BY <1>1 DEF Bound
  <1>4. Binding(b, ws) # {} => try_attach(b, ws) = Taken(b, Bound(b, ws))
    BY DEF try_attach
  <1> QED BY <1>2, <1>3, <1>4 DEF ws

\* A walk whose events are taken and which stages nothing that is flushed.
LEMMA PlainlyTaken ==
    ASSUME NEW b, NEW w, NEW x, Kind(b) \in w.from,
           w.live => b.safety.offboard_heartbeat_fresh, Posted(b, w.posts) = Fresh(x),
           w.stages \in {"none", "zero"}, w.posts # <<"Disarm">>
    PROVE  Taken(b, w) = Fresh(x)
  <1> DEFINE p == Posted(b, w.posts)
  <1>1. Attach(b, w) = IF p.error = "none" THEN [p EXCEPT !.body = Settled(@, w)] ELSE p
    BY DEF Attach
  <1>2. Settled(x, w) = x
    BY DEF Settled
  <1>3. p = [body |-> x, error |-> "none"]
    BY DEF Fresh
  <1> HIDE DEF p
  <1>4. Attach(b, w) = [body |-> x, error |-> "none"]
    BY <1>1, <1>2, <1>3
  <1>5. w.stages # "velocity"
    OBVIOUS
  <1> QED BY <1>4, <1>5 DEF Taken, Fresh

\* A command that is walked so is replayed so.
LEMMA AgainWalked ==
    ASSUME NEW b, NEW cmd, NEW x, ensure_tool_or_attach_grant(b, cmd),
           try_attach(b, walks(b, cmd)) = Fresh(x)
    PROVE  Again(Fresh(b), cmd) = Fresh(x)
  <1>1. Fresh(x).error # "Protocol"
    BY DEF Fresh
  <1>2. Through(b, cmd) = Fresh(x)
    BY <1>1 DEF Through
  <1> QED BY <1>2, AgainIs

\* A command of the list: its events are taken, and it is no alias.
LEMMA AirListed ==
    ASSUME NEW b, b.id = "drone", NEW cmd \in DOMAIN aerial_events(b), NEW x,
           Posted(b, aerial_events(b)[cmd]) = Fresh(x),
           cmd \notin {"Park", "Drive", "Thrust"}
    PROVE  ensure_tool_or_attach_grant(b, cmd)
  <1>1. events(b) = aerial_events(b)
    BY Domains DEF events
  <1>2. ~alias(b, cmd)
    BY Domains DEF alias
  <1>3. Fresh(x).error = "none"
    BY DEF Fresh
  <1>4. accepted_by(b, cmd)
    BY <1>1, <1>3 DEF accepted_by
  <1> QED BY <1>2, <1>4 DEF ensure_tool_or_attach_grant, ensure_tool, on_legal_list

LEMMA AirEventsAre ==
    ASSUME NEW b
    PROVE  LET ev == aerial_events(b) IN
           /\ DOMAIN ev = {"Arm", "Disarm", "Offboard", "EnableActuators", "Takeoff", "Airborne",
                           "Land", "Touchdown", "Failsafe", "SetCharge", "Velocity", "Drive",
                           "Thrust", "Position", "Hold", "Recover"}
           /\ ev["Arm"] = <<"Arm">> /\ ev["Disarm"] = <<"Disarm">>
           /\ ev["EnableActuators"] = <<"EnableActuators">>
           /\ ev["Offboard"] = <<"HeartbeatFresh", "EnterOffboard">>
           /\ ev["Airborne"] = <<"ReachedAltitude">> /\ ev["Land"] = <<"Land">>
           /\ ev["Touchdown"] = <<"Touchdown">> /\ ev["Failsafe"] = <<"TriggerFailsafe">>
           /\ ev["Velocity"] = mission /\ ev["Position"] = mission /\ ev["Hold"] = mission
           /\ ev["Recover"] =
                IF Admits(b, "Recover") THEN <<"Recover">> ELSE <<"Disarm", "Recover">>
  <1> DEFINE recover == IF Admits(b, "Recover") THEN <<"Recover">> ELSE <<"Disarm", "Recover">>
             ev == aerial_events(b)
  <1>1. ev = [Arm |-> <<"Arm">>, Disarm |-> <<"Disarm">>, EnableActuators |-> <<"EnableActuators">>,
              Offboard |-> <<"HeartbeatFresh", "EnterOffboard">>, Takeoff |-> <<"Takeoff">>,
              Airborne |-> <<"ReachedAltitude">>, Land |-> <<"Land">>,
              Touchdown |-> <<"Touchdown">>, Failsafe |-> <<"TriggerFailsafe">>,
              SetCharge |-> <<>>, Velocity |-> mission, Drive |-> mission, Thrust |-> mission,
              Position |-> mission, Hold |-> mission, Recover |-> recover]
    BY DEF aerial_events
  <1> HIDE DEF ev, recover
  <1> QED BY <1>1 DEF ev, recover

-----------------------------------------------------------------------------
(* What a takeoff and a recovery are logged as.                            *)

\* An armed vehicle in offboard, with its motors on and a fresh heartbeat.
Launched(x) ==
    /\ Warm(x, "Armed") /\ x.safety.offboard /\ x.safety.actuators_enabled
    /\ x.safety.offboard_heartbeat_fresh

\* What EnterOffboard and EnableActuators leave besides the phase.
LEMMA WarmSets ==
    ASSUME NEW b, Warm(b, "Armed"), NEW e \in {"HeartbeatFresh", "EnterOffboard", "EnableActuators"},
           e = "EnterOffboard" => b.safety.offboard_heartbeat_fresh
    PROVE  LET x == Post(b, e) IN
           /\ Given(Fresh(b), e) = Fresh(x) /\ Warm(x, "Armed")
           /\ b.safety.offboard_heartbeat_fresh \/ e = "HeartbeatFresh" =>
                x.safety.offboard_heartbeat_fresh
           /\ b.safety.offboard \/ e = "EnterOffboard" => x.safety.offboard
           /\ e = "EnableActuators" =>
                x.safety.actuators_enabled /\ (b.safety.actuators_enabled => x = b)
  <1> DEFINE x == Post(b, e)
             s == b.safety
             n == Air!After(s, e)
  <1>0. "drone" \in Id /\ b \in Known("drone") /\ e \in Told("drone")
    BY Domains, MeekAre DEF Warm
  <1>1. /\ Given(Fresh(b), e) = Fresh(x) /\ Warm(x, "Armed")
        /\ s.offboard_heartbeat_fresh \/ e = "HeartbeatFresh" => x.safety.offboard_heartbeat_fresh
    BY WarmTakes
  <1>2. /\ b.id = "drone" /\ s \in Air!SafetyState /\ ~s.failsafe
        /\ b = [id |-> "drone", safety |-> s, command |-> b.command]
    <2>1. /\ b.id = "drone" /\ s \in Piloted /\ s.phase = "Armed"
          /\ b = [id |-> "drone", safety |-> s, command |-> b.command]
      BY <1>0, KnownIs DEF Warm
    <2> QED BY <2>1 DEF Piloted, Air!CheckInvariants, Air!InFlight
  <1>3. Admits(b, e)
    <2>1. ~Admits(b, e) => Given(Fresh(b), e).error # "none"
      <3>1. Fresh(b).error = "none" /\ Fresh(b).body = b
        BY DEF Fresh
      <3>2. ~Admits(b, e) => Given(Fresh(b), e) = [Fresh(b) EXCEPT !.error = "Rejected"]
        BY <3>1, GivenRejected
      <3> QED BY <3>2 DEF Fresh
    <2>2. Fresh(x).error = "none"
      BY DEF Fresh
    <2> HIDE DEF x
    <2> QED BY <1>1, <2>1, <2>2
  <1>4. /\ x \in Known("drone") /\ x.safety = n
        /\ x.command = IF Cuts(b, e) THEN "none" ELSE b.command
        /\ x = [id |-> "drone", safety |-> x.safety, command |-> x.command]
    <2>1. After(b, e) = n
      BY <1>2, Domains DEF After
    <2>2. /\ x \in Known("drone") /\ x.safety = After(b, e)
          /\ x.command = IF Cuts(b, e) THEN "none" ELSE b.command
      BY <1>0, <1>3, KnownPost
    <2> HIDE DEF x
    <2> QED BY <1>0, <2>1, <2>2, KnownIs
  <1>5. /\ e = "HeartbeatFresh" => n = [s EXCEPT !.offboard_heartbeat_fresh = TRUE]
        /\ e = "EnterOffboard" => n = [s EXCEPT !.offboard = TRUE]
        /\ e = "EnableActuators" => n = [s EXCEPT !.actuators_enabled = TRUE]
    BY DEF Air!After
  <1>6. ~n.failsafe
    <2> HIDE DEF n, x
    <2> QED BY <1>2, <1>5 DEF Air!SafetyState
  <1>7. ~Cuts(b, e)
    <2>1. After(b, e) = n
      BY <1>2, Domains DEF After
    <2> HIDE DEF n
    <2> QED BY <1>2, <1>6, <2>1, Domains DEF Cuts
  <1>8. s.offboard \/ e = "EnterOffboard" => n.offboard
    <2> HIDE DEF n, x
    <2> QED BY <1>2, <1>5 DEF Air!SafetyState
  <1>9. e = "EnableActuators" => n.actuators_enabled /\ (s.actuators_enabled => n = s)
    <2>1. s \in Air!SafetyState
      BY <1>2
    <2> HIDE DEF n, x, s
    <2>2. /\ [s EXCEPT !.actuators_enabled = TRUE].actuators_enabled
          /\ s.actuators_enabled => [s EXCEPT !.actuators_enabled = TRUE] = s
      BY <2>1 DEF Air!SafetyState
    <2> QED BY <1>5, <2>2
  <1> HIDE DEF x, n, s
  <1>10. x.command = b.command
    BY <1>4, <1>7
  <1>11. n = s => x = b
    BY <1>2, <1>4, <1>10
  <1> QED BY <1>1, <1>4, <1>8, <1>9, <1>11 DEF s, x

LEMMA WarmLaunches ==
    ASSUME NEW b, Warm(b, "Armed")
    PROVE  \E x : /\ Launched(x)
                  /\ Given(Given(Fresh(b), "HeartbeatFresh"), "EnterOffboard").error = "none"
                  /\ Given(Given(Given(Fresh(b), "HeartbeatFresh"), "EnterOffboard"),
                           "EnableActuators") = Fresh(x)
  <1> DEFINE x1 == Post(b, "HeartbeatFresh")
             x2 == Post(x1, "EnterOffboard")
             x3 == Post(x2, "EnableActuators")
  <1>1. /\ Given(Fresh(b), "HeartbeatFresh") = Fresh(x1) /\ Warm(x1, "Armed")
        /\ x1.safety.offboard_heartbeat_fresh
    BY WarmSets
  <1> HIDE DEF x1
  <1>2. /\ Given(Fresh(x1), "EnterOffboard") = Fresh(x2) /\ Warm(x2, "Armed")
        /\ x2.safety.offboard_heartbeat_fresh /\ x2.safety.offboard
    BY <1>1, WarmSets
  <1> HIDE DEF x2
  <1>3. /\ Given(Fresh(x2), "EnableActuators") = Fresh(x3) /\ Warm(x3, "Armed")
        /\ x3.safety.offboard_heartbeat_fresh /\ x3.safety.offboard /\ x3.safety.actuators_enabled
    BY <1>2, WarmSets
  <1> HIDE DEF x3
  <1>4. Fresh(x2).error = "none"
    BY DEF Fresh
  <1> QED BY <1>1, <1>2, <1>3, <1>4 DEF Launched

LEMMA LaunchedIs ==
    ASSUME NEW x, Launched(x)
    PROVE  /\ x \in Known("drone") /\ x.id = "drone" /\ Kind(x) = "Offboard"
           /\ Given(Fresh(x), "EnableActuators") = Fresh(x)
  <1>1. "drone" \in Id /\ x \in Known("drone") /\ x.safety.phase = "Armed"
    BY Domains DEF Launched, Warm
  <1>2. x.id = "drone" /\ x.safety \in Piloted
    BY <1>1, KnownIs
  <1>3. ~x.safety.failsafe
    BY <1>1, <1>2 DEF Piloted, Air!CheckInvariants, Air!SafetyState
  <1>4. Kind(x) = "Offboard"
    <2>1. Kind(x) = Air!aerial_kind(x.safety)
      BY <1>2, Domains DEF Kind
    <2> QED BY <1>1, <1>3, <2>1 DEF Air!aerial_kind, Launched
  <1>5. Given(Fresh(x), "EnableActuators") = Fresh(x)
    <2>1. Given(Fresh(x), "EnableActuators") = Fresh(Post(x, "EnableActuators"))
          /\ Post(x, "EnableActuators") = x
      BY WarmSets DEF Launched
    <2> QED BY <2>1
  <1> QED BY <1>1, <1>2, <1>4, <1>5

\* The commands of a takeoff, each replayed.
LEMMA AgainEnters ==
    ASSUME NEW b, Warm(b, "Armed"), Kind(b) = "Armed", NEW x,
           Given(Given(Fresh(b), "HeartbeatFresh"), "EnterOffboard").error = "none",
           Given(Given(Given(Fresh(b), "HeartbeatFresh"), "EnterOffboard"),
                 "EnableActuators") = Fresh(x)
    PROVE  Again(Fresh(b), "Offboard") = Fresh(x)
  <1>0. "drone" \in Id /\ b \in Known("drone") /\ b.id = "drone"
    BY Domains, KnownIs DEF Warm
  <1>1. ensure_tool_or_attach_grant(b, "Offboard")
    <2>1. /\ "Offboard" \in DOMAIN aerial_events(b)
          /\ aerial_events(b)["Offboard"] = <<"HeartbeatFresh", "EnterOffboard">>
      BY AirEventsAre
    <2>2. Posted(b, <<"HeartbeatFresh", "EnterOffboard">>).error = "none"
      BY PostedTwo
    <2>3. events(b) = aerial_events(b)
      BY <1>0, Domains DEF events
    <2>4. accepted_by(b, "Offboard")
      BY <2>1, <2>2, <2>3 DEF accepted_by
    <2>5. ~alias(b, "Offboard")
      BY DEF alias
    <2> QED BY <2>4, <2>5 DEF ensure_tool_or_attach_grant, ensure_tool, on_legal_list
  <1>2. Posted(b, enter_offboard_now.posts) = Fresh(x)
    <2>1. enter_offboard_now.posts = <<"HeartbeatFresh", "EnterOffboard", "EnableActuators">>
      BY DEF enter_offboard_now, Walk
    <2> QED BY <2>1, PostedThree
  <1>3. /\ enter_offboard_now.from = {"Armed"} /\ enter_offboard_now.live = FALSE
        /\ enter_offboard_now.stages = "zero" /\ enter_offboard_now.posts # <<"Disarm">>
    BY DEF enter_offboard_now, Walk
  <1>4. Taken(b, enter_offboard_now) = Fresh(x)
    BY <1>2, <1>3, PlainlyTaken
  <1>5. try_attach(b, walks(b, "Offboard")) = Fresh(x)
    BY <1>0, <1>3, <1>4, AirWalksAre, OneTaken
  <1> QED BY <1>1, <1>5, AgainWalked

LEMMA AgainEnables ==
    ASSUME NEW x, Launched(x)
    PROVE  Again(Fresh(x), "EnableActuators") = Fresh(x)
  <1>1. /\ x.id = "drone" /\ Kind(x) = "Offboard"
        /\ Given(Fresh(x), "EnableActuators") = Fresh(x)
    BY LaunchedIs
  <1>2. Posted(x, <<"EnableActuators">>) = Fresh(x)
    BY <1>1, PostedOne
  <1>3. ensure_tool_or_attach_grant(x, "EnableActuators")
    BY <1>1, <1>2, AirEventsAre, AirListed
  <1>4. /\ Kind(x) \in enable_now.from /\ enable_now.live = FALSE
        /\ enable_now.stages = "none" /\ enable_now.posts = <<"EnableActuators">>
        /\ <<"EnableActuators">> # <<"Disarm">>
    BY <1>1 DEF enable_now, Walk, OffboardControl
  <1>5. Taken(x, enable_now) = Fresh(x)
    BY <1>2, <1>4, PlainlyTaken
  <1>6. try_attach(x, walks(x, "EnableActuators")) = Fresh(x)
    BY <1>1, <1>4, <1>5, AirWalksAre, OneTaken
  <1> QED BY <1>3, <1>6, AgainWalked

LEMMA StartsTaken ==
    ASSUME NEW x, x.id = "drone", Kind(x) = "Offboard"
    PROVE  /\ attach_takeoff.from \cap attach_start_takeoff.from = {}
           /\ try_attach(x, walks(x, "Takeoff")) = Taken(x, attach_start_takeoff)
           /\ ensure_tool_or_attach_grant(x, "Takeoff")
  <1>1. attach_takeoff.from = {"PreflightReady"} /\ attach_start_takeoff.from = {"Offboard"}
    BY DEF attach_takeoff, attach_start_takeoff, Walk
  <1>2. walks(x, "Takeoff") = <<attach_takeoff, attach_start_takeoff>>
    BY AirWalksAre
  <1>3. try_attach(x, walks(x, "Takeoff")) = Taken(x, attach_start_takeoff)
    BY <1>1, <1>2, FirstOf
  <1>4. ensure_tool_or_attach_grant(x, "Takeoff")
    BY Domains DEF ensure_tool_or_attach_grant, attach_takeoff_grant
  <1> QED BY <1>1, <1>3, <1>4

LEMMA AgainClimbs ==
    ASSUME NEW x, Launched(x), NEW z, Climbed(Fresh(x)) = Fresh(z)
    PROVE  Again(Fresh(x), "Takeoff") = Fresh(z)
  <1>1. x.id = "drone" /\ Kind(x) = "Offboard" /\ x.safety.offboard_heartbeat_fresh
    BY LaunchedIs DEF Launched
  <1>2. /\ attach_start_takeoff.from = {"Offboard"} /\ attach_start_takeoff.stages = "none"
        /\ attach_start_takeoff.posts = <<"Takeoff", "EnableActuators">>
        /\ <<"Takeoff", "EnableActuators">> # <<"Disarm">>
    BY DEF attach_start_takeoff, Walk
  <1>3. Posted(x, attach_start_takeoff.posts) = Fresh(z)
    BY <1>2, PostedTwo DEF Climbed
  <1>4. Taken(x, attach_start_takeoff) = Fresh(z)
    BY <1>1, <1>2, <1>3, PlainlyTaken
  <1> QED BY <1>1, <1>4, StartsTaken, AgainWalked

\* A takeoff that may not arm posts nothing.
LEMMA TakeoffRefused ==
    ASSUME NEW b, ~Admits(b, "Arm"), b \in Known("drone")
    PROVE  Posted(b, attach_takeoff.posts) = [body |-> b, error |-> "Rejected"]
  <1> DEFINE q == [body |-> b, error |-> "Rejected"]
  <1>0. Posted(b, attach_takeoff.posts) = Climbed(Armed4(Fresh(b)))
    BY TakeoffRuns
  <1>1. Given(Fresh(b), "Arm") = q
    <2>1. Fresh(b).error = "none" /\ Fresh(b).body = b
      BY DEF Fresh
    <2>2. Given(Fresh(b), "Arm") = [Fresh(b) EXCEPT !.error = "Rejected"]
      BY <2>1, GivenRejected
    <2> QED BY <2>2 DEF Fresh
  <1>2. \A e : Given(q, e) = q
    BY GivenRefused
  <1> HIDE DEF q
  <1>3. /\ Given(q, "HeartbeatFresh") = q /\ Given(q, "EnterOffboard") = q
        /\ Given(q, "EnableActuators") = q /\ Given(q, "Takeoff") = q
    BY <1>2
  <1>4. Posted(b, attach_takeoff.posts) = q
    BY <1>0, <1>1, <1>3 DEF Armed4, Climbed
  <1> QED BY <1>4 DEF q

\* Steps of a takeoff from the ground, once arming is allowed.
TakenOff(b, w, x, z) ==
    /\ Given(Fresh(b), "Arm") = Fresh(w) /\ Warm(w, "Armed") /\ Kind(w) = "Armed"
    /\ Launched(x)
    /\ Given(Given(Fresh(w), "HeartbeatFresh"), "EnterOffboard").error = "none"
    /\ Given(Given(Given(Fresh(w), "HeartbeatFresh"), "EnterOffboard"),
             "EnableActuators") = Fresh(x)
    /\ Climbed(Fresh(x)) = Fresh(z)
    /\ Posted(b, attach_takeoff.posts) = Fresh(z)

LEMMA TakeoffTaken ==
    ASSUME NEW b \in Known("drone"), Kind(b) = "PreflightReady", Admits(b, "Arm")
    PROVE  \E w, x, z : TakenOff(b, w, x, z)
  <1> DEFINE p == Posted(b, attach_takeoff.posts)
             w == Post(b, "Arm")
  <1>0. /\ "drone" \in Id /\ b.id = "drone" /\ b.safety \in Piloted /\ "Arm" \in Told("drone")
        /\ p = Climbed(Armed4(Fresh(b)))
    BY Domains, MeekAre, KnownIs, TakeoffRuns
  <1>2. Given(Fresh(b), "Arm") = Fresh(w)
    BY GivenTaken
  <1>3. Warm(w, "Armed") /\ Kind(w) = "Armed"
    <2>1. w \in Known("drone") /\ w.safety = Air!After(b.safety, "Arm") /\ w.id = "drone"
      <3>1. w \in Known("drone") /\ w.safety = After(b, "Arm") /\ w.id = "drone"
        BY <1>0, KnownPost
      <3> HIDE DEF w
      <3> QED BY <1>0, <3>1, Domains DEF After
    <2>2. Air!After(b.safety, "Arm") = [b.safety EXCEPT !.armed = TRUE, !.phase = "Armed"]
      BY DEF Air!After
    <2>3. ~b.safety.failsafe /\ ~b.safety.offboard
      <3>1. Air!aerial_kind(b.safety) = "PreflightReady"
        BY <1>0, Domains DEF Kind
      <3> QED BY <1>0, <3>1, AirUp DEF Piloted, Air!CheckInvariants
    <2> HIDE DEF w
    <2>4. w.safety.phase = "Armed" /\ ~w.safety.offboard /\ ~w.safety.failsafe
      <3>1. LET n == [b.safety EXCEPT !.armed = TRUE, !.phase = "Armed"] IN
              n.phase = "Armed" /\ ~n.offboard /\ ~n.failsafe
        BY <1>0, <2>3 DEF Piloted, Air!SafetyState
      <3> QED BY <2>1, <2>2, <3>1
    <2>5. Kind(w) = Air!aerial_kind(w.safety)
      BY <2>1, Domains DEF Kind
    <2> QED BY <2>1, <2>4, <2>5 DEF Warm, Air!aerial_kind
  <1> HIDE DEF w
  <1>4. PICK x : /\ Launched(x)
                 /\ Given(Given(Fresh(w), "HeartbeatFresh"), "EnterOffboard").error = "none"
                 /\ Given(Given(Given(Fresh(w), "HeartbeatFresh"), "EnterOffboard"),
                          "EnableActuators") = Fresh(x)
    BY <1>3, WarmLaunches
  <1>5. PICK z : Climbed(Fresh(x)) = Fresh(z)
    BY <1>4, WarmClimbs DEF Launched
  <1>6. p = Fresh(z)
    BY <1>0, <1>2, <1>4, <1>5 DEF Armed4
  <1> QED BY <1>2, <1>3, <1>4, <1>5, <1>6 DEF TakenOff, p

\* A takeoff from the ground is replayed as the four commands that got it done.
LEMMA TakeoffReplays ==
    ASSUME NEW b \in Known("drone"), Kind(b) = "PreflightReady",
           Taken(b, attach_takeoff).error = "none"
    PROVE  Replayed(b, <<"Arm", "Offboard", "EnableActuators", "Takeoff">>)
             = Taken(b, attach_takeoff).body
  <1>0. b.id = "drone"
    BY Domains, KnownIs
  <1>a. /\ attach_takeoff.from = {"PreflightReady"} /\ attach_takeoff.live = FALSE
        /\ attach_takeoff.stages = "zero" /\ attach_takeoff.posts # <<"Disarm">>
    <2> DEFINE end == <<"Takeoff", "EnableActuators">>
    <2>1. attach_takeoff.posts = arm_and_enter \o end
      BY DEF attach_takeoff, Walk
    <2>2. Len(arm_and_enter \o end) = 6
      BY DEF arm_and_enter
    <2>3. Len(<<"Disarm">>) = 1
      OBVIOUS
    <2> QED BY <2>1, <2>2, <2>3 DEF attach_takeoff, Walk
  <1>1. Admits(b, "Arm")
    <2> SUFFICES ASSUME ~Admits(b, "Arm") PROVE FALSE
      OBVIOUS
    <2> DEFINE p == Posted(b, attach_takeoff.posts)
    <2>1. p = [body |-> b, error |-> "Rejected"]
      BY TakeoffRefused
    <2> HIDE DEF p
    <2>2. p.error # "none"
      BY <2>1
    <2>3. Attach(b, attach_takeoff) = p
      BY <1>a, <2>2 DEF Attach, p
    <2>4. Taken(b, attach_takeoff).error # "none"
      BY <2>2, <2>3 DEF Taken
    <2> QED BY <2>4
  <1>2. PICK w, x, z : TakenOff(b, w, x, z)
    BY <1>1, TakeoffTaken
  <1>7. Taken(b, attach_takeoff) = Fresh(z)
    BY <1>2, <1>a, PlainlyTaken DEF TakenOff
  <1>8. Again(Fresh(b), "Arm") = Fresh(w)
    <2>1. Posted(b, <<"Arm">>) = Fresh(w)
      BY <1>2, PostedOne DEF TakenOff
    <2>2. ensure_tool_or_attach_grant(b, "Arm")
      BY <1>0, <2>1, AirEventsAre, AirListed
    <2>3. /\ Kind(b) \in arm_now.from /\ arm_now.live = FALSE
          /\ arm_now.stages = "none" /\ arm_now.posts = <<"Arm">> /\ <<"Arm">> # <<"Disarm">>
      BY DEF arm_now, Walk
    <2>4. Taken(b, arm_now) = Fresh(w)
      BY <2>1, <2>3, PlainlyTaken
    <2>5. try_attach(b, walks(b, "Arm")) = Fresh(w)
      BY <1>0, <2>3, <2>4, AirWalksAre, OneTaken
    <2> QED BY <2>2, <2>5, AgainWalked
  <1>9. Again(Fresh(w), "Offboard") = Fresh(x)
    BY <1>2, AgainEnters DEF TakenOff
  <1>10. Again(Fresh(x), "EnableActuators") = Fresh(x)
    BY <1>2, AgainEnables DEF TakenOff
  <1>11. Again(Fresh(x), "Takeoff") = Fresh(z)
    BY <1>2, AgainClimbs DEF TakenOff
  <1>12. Replayed(b, <<"Arm", "Offboard", "EnableActuators", "Takeoff">>) = z
    BY <1>8, <1>9, <1>10, <1>11, ReplayedFour
  <1> QED BY <1>7, <1>12 DEF Fresh

\* A grant of an armed vehicle, as the three that are left of them.
LEMMA StartReplays ==
    ASSUME NEW b \in Known("drone"), Kind(b) = "Armed"
    PROVE  Replayed(b, <<"Offboard", "EnableActuators", "Takeoff">>) = Taken(b, start_now).body
  <1>0. "drone" \in Id /\ b.id = "drone" /\ b.safety \in Piloted
    BY Domains, KnownIs
  <1>1. Warm(b, "Armed")
    <2>1. Kind(b) = Air!aerial_kind(b.safety)
      BY <1>0, Domains DEF Kind
    <2> QED BY <1>0, <2>1, AirUp DEF Warm
  <1>2. PICK x : /\ Launched(x)
                 /\ Given(Given(Fresh(b), "HeartbeatFresh"), "EnterOffboard").error = "none"
                 /\ Given(Given(Given(Fresh(b), "HeartbeatFresh"), "EnterOffboard"),
                          "EnableActuators") = Fresh(x)
    BY <1>1, WarmLaunches
  <1>3. PICK z : Climbed(Fresh(x)) = Fresh(z)
    BY <1>2, WarmClimbs DEF Launched
  <1> DEFINE posts == <<"HeartbeatFresh", "EnterOffboard", "EnableActuators", "Takeoff",
                        "EnableActuators">>
  <1>4. /\ start_now.from = {"Armed"} /\ start_now.live = FALSE /\ start_now.stages = "zero"
        /\ start_now.posts = posts
    BY DEF start_now, Walk
  <1>5. posts # <<"Disarm">>
    <2>1. Len(posts) = 5 /\ Len(<<"Disarm">>) = 1
      OBVIOUS
    <2> QED BY <2>1
  <1>6. Posted(b, posts) = Fresh(z)
    <2>1. Posted(b, posts) =
            Given(Given(Given(Given(Given(Fresh(b), "HeartbeatFresh"), "EnterOffboard"),
                              "EnableActuators"), "Takeoff"), "EnableActuators")
      BY PostedFive
    <2> HIDE DEF posts
    <2> QED BY <1>2, <1>3, <2>1 DEF Climbed
  <1> HIDE DEF posts
  <1>7. Taken(b, start_now) = Fresh(z)
    BY <1>4, <1>5, <1>6, PlainlyTaken
  <1>8. /\ Again(Fresh(b), "Offboard") = Fresh(x)
        /\ Again(Fresh(x), "EnableActuators") = Fresh(x)
        /\ Again(Fresh(x), "Takeoff") = Fresh(z)
    BY <1>1, <1>2, <1>3, AgainEnters, AgainEnables, AgainClimbs
  <1>9. Replayed(b, <<"Offboard", "EnableActuators", "Takeoff">>) = z
    BY <1>8, ReplayedThree
  <1> QED BY <1>7, <1>9 DEF Fresh

\* Disarmed and recovered, a vehicle in failsafe passes through Recovery.
Recovered(b, x, y) ==
    /\ x \in Known("drone") /\ x.id = "drone" /\ Admits(x, "Recover") /\ Kind(x) = "Recovery"
    /\ Given(Fresh(b), "Disarm") = Fresh(x) /\ Given(Fresh(x), "Recover") = Fresh(y)
    /\ Posted(b, <<"Disarm", "Recover">>) = Fresh(y)

LEMMA RecoverSteps ==
    ASSUME NEW b \in Known("drone"), Kind(b) = "Failsafe"
    PROVE  \E x, y : Recovered(b, x, y)
  <1>0. "drone" \in Id /\ b.id = "drone" /\ b.safety \in Piloted /\ "Disarm" \in Told("drone")
    BY Domains, MeekAre, KnownIs
  <1>1. b.safety.failsafe /\ b.safety.phase = "Failsafe"
    <2>1. Kind(b) = Air!aerial_kind(b.safety)
      BY <1>0, Domains DEF Kind
    <2> QED BY <1>0, <2>1 DEF Air!aerial_kind, Piloted, Air!SafetyState, Air!Phase,
               Air!CheckInvariants
  <1> DEFINE x == Post(b, "Disarm")
             y == Post(x, "Recover")
  <1>2. Admits(b, "Disarm")
    BY <1>0, <1>1, Domains DEF Admits, Air!Admits, Air!LegalIn, Air!Latched, Air!NeedsSensors,
       Air!NeedsArmed, Air!Phase
  <1>3. x \in Known("drone") /\ x.safety = Air!After(b.safety, "Disarm") /\ x.id = "drone"
    <2>1. x \in Known("drone") /\ x.safety = After(b, "Disarm") /\ x.id = "drone"
      BY <1>0, <1>2, KnownPost
    <2> HIDE DEF x
    <2> QED BY <1>0, <2>1, Domains DEF After
  <1>4. Given(Fresh(b), "Disarm") = Fresh(x)
    BY <1>2, GivenTaken
  <1> HIDE DEF x
  <1>5. x.safety.phase = "Recovery" /\ ~x.safety.armed
    <2>1. Air!After(b.safety, "Disarm") = Air!Grounded(b.safety, "Recovery")
      BY <1>1 DEF Air!After
    <2> QED BY ZenonT(60), <1>0, <1>3, <2>1 DEF Air!Grounded, Piloted, Air!SafetyState
  <1>6. Admits(x, "Recover") /\ Kind(x) = "Recovery"
    <2>1. Kind(x) = Air!aerial_kind(x.safety)
      BY <1>3, Domains DEF Kind
    <2> QED BY <1>3, <1>5, <2>1, Domains DEF Admits, Air!Admits, Air!LegalIn, Air!Latched,
               Air!NeedsSensors, Air!NeedsArmed, Air!aerial_kind
  <1>7. Given(Fresh(x), "Recover") = Fresh(y)
    BY <1>6, GivenTaken
  <1> HIDE DEF y
  <1>8. Posted(b, <<"Disarm", "Recover">>) = Fresh(y)
    BY <1>4, <1>7, PostedTwo
  <1> QED BY <1>3, <1>4, <1>6, <1>7, <1>8 DEF Recovered

\* A recovery from failsafe is taken.
LEMMA RecoverTakes ==
    ASSUME NEW b \in Known("drone"), Kind(b) = "Failsafe"
    PROVE  Posted(b, <<"Disarm", "Recover">>).error = "none"
  <1>1. PICK x, y : Recovered(b, x, y)
    BY RecoverSteps
  <1>2. Posted(b, <<"Disarm", "Recover">>) = Fresh(y)
    BY <1>1 DEF Recovered
  <1> QED BY <1>2 DEF Fresh

\* A recovery from failsafe is replayed as a disarm, which is posted, and a recover.
LEMMA RecoverReplays ==
    ASSUME NEW b \in Known("drone"), Kind(b) = "Failsafe"
    PROVE  Replayed(b, <<"Disarm", "Recover">>) = Taken(b, attach_recover_ready(b)).body
  <1>0. b.id = "drone"
    BY Domains, KnownIs
  <1>1. PICK x, y : Recovered(b, x, y)
    BY RecoverSteps
  <1>2. /\ x \in Known("drone") /\ x.id = "drone" /\ Admits(x, "Recover") /\ Kind(x) = "Recovery"
        /\ Given(Fresh(b), "Disarm") = Fresh(x) /\ Given(Fresh(x), "Recover") = Fresh(y)
    BY <1>1 DEF Recovered
  <1> DEFINE both == <<"Disarm", "Recover">>
  <1>8. Posted(b, both) = Fresh(y)
    BY <1>1 DEF Recovered
  <1>9. Taken(b, attach_recover_ready(b)) = Fresh(y)
    <2> DEFINE w == attach_recover_ready(b)
    <2>1. w.from = {"Failsafe", "Recovery"} /\ w.live = FALSE /\ w.stages = "none" /\ w.posts = both
      BY DEF attach_recover_ready, Walk
    <2>2. both # <<"Disarm">>
      <3>1. Len(both) = 2 /\ Len(<<"Disarm">>) = 1
        OBVIOUS
      <3> QED BY <3>1
    <2> HIDE DEF w, both
    <2> QED BY <1>8, <2>1, <2>2, PlainlyTaken DEF w
  <1>10. Again(Fresh(b), "Disarm") = Fresh(x)
    <2>1. Posted(b, <<"Disarm">>) = Fresh(x)
      BY <1>2, PostedOne
    <2>2. ensure_tool_or_attach_grant(b, "Disarm")
      BY <1>0, <2>1, AirEventsAre, AirListed
    <2>3. Kind(b) \notin attach_disarm.from
      BY DEF attach_disarm, Walk, CanTripFailsafe, OffboardControl
    <2>4. Binding(b, walks(b, "Disarm")) = {}
      BY <1>0, <2>3, AirWalksAre, OneTaken
    <2>5. try_attach(b, walks(b, "Disarm")).error = "Protocol"
      BY <2>4 DEF try_attach
    <2>6. Through(b, "Disarm") = apply_action(b, "Disarm")
      BY <2>5 DEF Through
    <2>7. /\ "Disarm" \notin ENV /\ "Disarm" \in DOMAIN events(b)
          /\ events(b)["Disarm"] = <<"Disarm">>
      <3>1. events(b) = aerial_events(b)
        BY <1>0, Domains DEF events
      <3> QED BY <3>1, AirEventsAre DEF ENV
    <2>8. Commanded(x, "Disarm") = x
      BY DEF Commanded
    <2>9. apply_action(b, "Disarm") = Fresh(x)
      <3> DEFINE r == Posted(b, events(b)["Disarm"])
      <3>1. r = [body |-> x, error |-> "none"]
        BY <2>1, <2>7 DEF Fresh
      <3>2. r.error = "none" => apply_action(b, "Disarm") = [r EXCEPT !.body = Commanded(@, "Disarm")]
        BY <2>7 DEF apply_action
      <3> HIDE DEF r
      <3> QED BY <2>8, <3>1, <3>2 DEF Fresh
    <2> QED BY <2>2, <2>6, <2>9, AgainIs
  <1>11. Again(Fresh(x), "Recover") = Fresh(y)
    <2>1. Posted(x, <<"Recover">>) = Fresh(y)
      BY <1>2, PostedOne
    <2>2. ensure_tool_or_attach_grant(x, "Recover")
      BY <1>2, <2>1, AirEventsAre, AirListed
    <2> DEFINE w == attach_recover_ready(x)
    <2>3. /\ w.from = {"Failsafe", "Recovery"} /\ w.live = FALSE /\ w.stages = "none"
          /\ w.posts = <<"Recover">> /\ <<"Recover">> # <<"Disarm">>
      BY <1>2 DEF attach_recover_ready, Walk
    <2>4. walks(x, "Recover") = <<w>>
      BY <1>2, AirWalksAre
    <2> HIDE DEF w
    <2>5. Taken(x, w) = Fresh(y)
      BY <1>2, <2>1, <2>3, PlainlyTaken
    <2>6. try_attach(x, walks(x, "Recover")) = Fresh(y)
      BY <1>2, <2>3, <2>4, <2>5, OneTaken
    <2> QED BY <2>2, <2>6, AgainWalked
  <1> HIDE DEF both
  <1>12. Replayed(b, both) = y
    BY <1>10, <1>11, ReplayedTwo DEF both
  <1> QED BY <1>9, <1>12 DEF Fresh, both

-----------------------------------------------------------------------------
(* The calls an agent makes, and what it notes of them.                    *)

CallCmds ==
    {"Grant", "Fly", "Takeoff", "Airborne", "Land", "Touchdown", "Failsafe", "Disarm", "Recover",
     "Position", "Hold", "Velocity", "Estop", "Clear", "Halt", "Release", "Drive", "Station",
     "Dock", "Undock", "Resume", "Thrust"}

\* The commands whose walks post what the commands stand for.
AirPlain == {"Airborne", "Land", "Touchdown", "Failsafe", "Disarm", "Position", "Hold", "Velocity"}

LEMMA AirPlainIs ==
    ASSUME NEW b, b.id = "drone", NEW cmd \in AirPlain
    PROVE  \E w : walks(b, cmd) = <<w>> /\ w.posts = aerial_events(b)[cmd]
  <1>1. /\ attach_airborne.posts = <<"ReachedAltitude">> /\ attach_land.posts = <<"Land">>
        /\ attach_touchdown.posts = <<"Touchdown">> /\ attach_failsafe.posts = <<"TriggerFailsafe">>
        /\ attach_disarm.posts = <<"Disarm">> /\ attach_hold.posts = mission
        /\ velocity_now.posts = mission
    BY DEF attach_airborne, attach_land, attach_touchdown, attach_failsafe, attach_disarm,
           attach_hold, velocity_now, mission, Walk
  <1>2. /\ walks(b, "Airborne") = <<attach_airborne>> /\ walks(b, "Land") = <<attach_land>>
        /\ walks(b, "Touchdown") = <<attach_touchdown>>
        /\ walks(b, "Failsafe") = <<attach_failsafe>> /\ walks(b, "Disarm") = <<attach_disarm>>
        /\ walks(b, "Hold") = <<attach_hold>> /\ walks(b, "Position") = <<attach_hold>>
        /\ walks(b, "Velocity") = <<velocity_now>>
    BY AirWalksAre
  <1>3. LET ev == aerial_events(b) IN
        /\ ev["Airborne"] = <<"ReachedAltitude">> /\ ev["Land"] = <<"Land">>
        /\ ev["Touchdown"] = <<"Touchdown">> /\ ev["Failsafe"] = <<"TriggerFailsafe">>
        /\ ev["Disarm"] = <<"Disarm">>
        /\ ev["Velocity"] = mission /\ ev["Position"] = mission /\ ev["Hold"] = mission
    BY AirEventsAre
  <1>4. CASE cmd = "Airborne" BY <1>1, <1>2, <1>3, <1>4
  <1>5. CASE cmd = "Land" BY <1>1, <1>2, <1>3, <1>5
  <1>6. CASE cmd = "Touchdown" BY <1>1, <1>2, <1>3, <1>6
  <1>7. CASE cmd = "Failsafe" BY <1>1, <1>2, <1>3, <1>7
  <1>8. CASE cmd = "Disarm" BY <1>1, <1>2, <1>3, <1>8
  <1>9. CASE cmd = "Position" BY <1>1, <1>2, <1>3, <1>9
  <1>10. CASE cmd = "Hold" BY <1>1, <1>2, <1>3, <1>10
  <1>11. CASE cmd = "Velocity" BY <1>1, <1>2, <1>3, <1>11
  <1> QED BY <1>4, <1>5, <1>6, <1>7, <1>8, <1>9, <1>10, <1>11 DEF AirPlain

LandPlain == {"Estop", "Release", "Halt", "Clear", "Hold", "Drive"}
LEMMA LandPlainIs ==
    ASSUME NEW b, b.id = "rover", NEW cmd
    PROVE  /\ cmd \in LandPlain =>
                \E w : walks(b, cmd) = <<w>> /\ cmd \in DOMAIN ground_events
                       /\ w.posts = ground_events[cmd]
           /\ cmd \notin LandPlain \cup {"Failsafe", "Park"} => walks(b, cmd) = <<>>
  <1> DEFINE drive == Walk({"Moving"}, FALSE, <<"DriveCommand">>, "velocity")
  <1>1. /\ attach_estop.posts = <<"EStop">> /\ attach_drive.posts = <<"Release">>
        /\ attach_park.posts = <<"Halt">> /\ attach_reset.posts = <<"ClearEstop">>
        /\ attach_ground_hold.posts = <<"DriveCommand">> /\ drive.posts = <<"DriveCommand">>
    BY DEF attach_estop, attach_drive, attach_park, attach_reset, attach_ground_hold, Walk
  <1>2. walks(b, cmd) = IF cmd \in DOMAIN ground_walks THEN ground_walks[cmd] ELSE <<>>
    BY Domains DEF walks
  <1>3. ground_walks =
          [Failsafe |-> <<attach_estop>>, Estop |-> <<attach_estop>>, Release |-> <<attach_drive>>,
           Halt |-> <<attach_park>>, Park |-> <<attach_park>>, Clear |-> <<attach_reset>>,
           Hold |-> <<attach_ground_hold>>, Drive |-> <<drive>>]
    BY DEF ground_walks
  <1>4. LET ev == ground_events IN
        /\ LandPlain \subseteq DOMAIN ev
        /\ ev["Estop"] = <<"EStop">> /\ ev["Release"] = <<"Release">> /\ ev["Halt"] = <<"Halt">>
        /\ ev["Clear"] = <<"ClearEstop">> /\ ev["Hold"] = <<"DriveCommand">>
        /\ ev["Drive"] = <<"DriveCommand">>
    BY DEF ground_events, LandPlain
  <1> HIDE DEF drive
  <1>5. /\ DOMAIN ground_walks = LandPlain \cup {"Failsafe", "Park"}
        /\ ground_walks["Estop"] = <<attach_estop>> /\ ground_walks["Release"] = <<attach_drive>>
        /\ ground_walks["Halt"] = <<attach_park>> /\ ground_walks["Clear"] = <<attach_reset>>
        /\ ground_walks["Hold"] = <<attach_ground_hold>> /\ ground_walks["Drive"] = <<drive>>
    BY <1>3 DEF LandPlain
  <1>6. CASE cmd = "Estop" BY <1>1, <1>2, <1>4, <1>5, <1>6 DEF LandPlain
  <1>7. CASE cmd = "Release" BY <1>1, <1>2, <1>4, <1>5, <1>7 DEF LandPlain
  <1>8. CASE cmd = "Halt" BY <1>1, <1>2, <1>4, <1>5, <1>8 DEF LandPlain
  <1>9. CASE cmd = "Clear" BY <1>1, <1>2, <1>4, <1>5, <1>9 DEF LandPlain
  <1>10. CASE cmd = "Hold" BY <1>1, <1>2, <1>4, <1>5, <1>10 DEF LandPlain
  <1>11. CASE cmd = "Drive" BY <1>1, <1>2, <1>4, <1>5, <1>11 DEF LandPlain
  <1>12. CASE cmd \notin LandPlain
    BY <1>2, <1>5, <1>12
  <1> QED BY <1>6, <1>7, <1>8, <1>9, <1>10, <1>11, <1>12 DEF LandPlain

SeaPlain == {"Failsafe", "Undock", "Dock", "Station", "Resume", "Recover", "Hold", "Thrust"}
sea_thrust == Walk({"Underway", "StationKeep"}, FALSE, <<"ThrustCommand">>, "velocity")
LEMMA SeaPlainIs ==
    ASSUME NEW b, b.id \in {"skiff", "surveyor"}, NEW cmd
    PROVE  /\ cmd \in SeaPlain =>
                \E w : walks(b, cmd) = <<w>> /\ cmd \in DOMAIN marine_events
                       /\ w.posts = marine_events[cmd]
           /\ cmd \notin SeaPlain => walks(b, cmd) = <<>>
           /\ walks(b, "Thrust") = <<sea_thrust>>
  <1>1. /\ attach_marine_failsafe.posts = <<"Failsafe">> /\ attach_undock.posts = <<"Undock">>
        /\ attach_dock.posts = <<"Dock">> /\ attach_station.posts = <<"Station">>
        /\ attach_resume.posts = <<"Resume">> /\ attach_recover.posts = <<"Recover">>
        /\ attach_marine_hold.posts = <<"ThrustCommand">> /\ sea_thrust.posts = <<"ThrustCommand">>
    BY DEF attach_marine_failsafe, attach_undock, attach_dock, attach_station, attach_resume,
           attach_recover, attach_marine_hold, sea_thrust, Walk
  <1>2. \A c : walks(b, c) = IF c \in DOMAIN marine_walks THEN marine_walks[c] ELSE <<>>
    BY Domains DEF walks
  <1>3. marine_walks =
          [Failsafe |-> <<attach_marine_failsafe>>, Undock |-> <<attach_undock>>,
           Dock |-> <<attach_dock>>, Station |-> <<attach_station>>, Resume |-> <<attach_resume>>,
           Recover |-> <<attach_recover>>, Hold |-> <<attach_marine_hold>>,
           Thrust |-> <<sea_thrust>>]
    BY DEF marine_walks, sea_thrust
  <1>4. LET ev == marine_events IN
        /\ SeaPlain \subseteq DOMAIN ev
        /\ ev["Failsafe"] = <<"Failsafe">> /\ ev["Undock"] = <<"Undock">> /\ ev["Dock"] = <<"Dock">>
        /\ ev["Station"] = <<"Station">> /\ ev["Resume"] = <<"Resume">>
        /\ ev["Recover"] = <<"Recover">> /\ ev["Hold"] = <<"ThrustCommand">>
        /\ ev["Thrust"] = <<"ThrustCommand">>
    BY DEF marine_events, SeaPlain
  <1>5. /\ DOMAIN marine_walks = SeaPlain
        /\ marine_walks["Failsafe"] = <<attach_marine_failsafe>>
        /\ marine_walks["Undock"] = <<attach_undock>> /\ marine_walks["Dock"] = <<attach_dock>>
        /\ marine_walks["Station"] = <<attach_station>> /\ marine_walks["Resume"] = <<attach_resume>>
        /\ marine_walks["Recover"] = <<attach_recover>>
        /\ marine_walks["Hold"] = <<attach_marine_hold>> /\ marine_walks["Thrust"] = <<sea_thrust>>
    BY <1>3 DEF SeaPlain
  <1>6. CASE cmd = "Failsafe" BY <1>1, <1>2, <1>4, <1>5, <1>6 DEF SeaPlain
  <1>7. CASE cmd = "Undock" BY <1>1, <1>2, <1>4, <1>5, <1>7 DEF SeaPlain
  <1>8. CASE cmd = "Dock" BY <1>1, <1>2, <1>4, <1>5, <1>8 DEF SeaPlain
  <1>9. CASE cmd = "Station" BY <1>1, <1>2, <1>4, <1>5, <1>9 DEF SeaPlain
  <1>10. CASE cmd = "Resume" BY <1>1, <1>2, <1>4, <1>5, <1>10 DEF SeaPlain
  <1>11. CASE cmd = "Recover" BY <1>1, <1>2, <1>4, <1>5, <1>11 DEF SeaPlain
  <1>12. CASE cmd = "Hold" BY <1>1, <1>2, <1>4, <1>5, <1>12 DEF SeaPlain
  <1>13. CASE cmd = "Thrust" BY <1>1, <1>2, <1>4, <1>5, <1>13 DEF SeaPlain
  <1>14. CASE cmd \notin SeaPlain
    BY <1>2, <1>5, <1>14 DEF SeaPlain
  <1>15. walks(b, "Thrust") = <<sea_thrust>>
    BY <1>2, <1>5 DEF SeaPlain
  <1> QED BY <1>6, <1>7, <1>8, <1>9, <1>10, <1>11, <1>12, <1>13, <1>14, <1>15 DEF SeaPlain

\* A walk that succeeds posts events that its command, on the list, posts too.
LEMMA PlainReplays ==
    ASSUME NEW id \in Id, NEW b \in Known(id), NEW cmd,
           cmd \in DOMAIN events(b), cmd \notin ENV, ~alias(b, cmd),
           NEW w, walks(b, cmd) = <<w>>, w.posts = events(b)[cmd],
           try_attach(b, walks(b, cmd)).error = "none"
    PROVE  Replayed(b, <<cmd>>) = try_attach(b, walks(b, cmd)).body
  <1> DEFINE ws == walks(b, cmd)
  <1>1. b.id = id
    BY KnownIs
  <1>2. ws \in Seq(LabWalks(b))
    BY <1>1, WaysOf
  <1>3. Binding(b, ws) # {} /\ Posted(b, Bound(b, ws).posts).error = "none"
    <2> HIDE DEF ws
    <2>1. try_attach(b, ws).error = "none"
      BY DEF ws
    <2> QED BY <1>2, <2>1, TriedIs
  <1>4. Bound(b, ws) = w
    BY <1>3, OneTaken
  <1>5. accepted_by(b, cmd)
    BY <1>3, <1>4 DEF accepted_by
  <1>6. ensure_tool_or_attach_grant(b, cmd)
    BY <1>5 DEF ensure_tool_or_attach_grant, ensure_tool, on_legal_list
  <1> QED BY <1>6, WalkReplayed

LEMMA NoneTaken ==
    ASSUME NEW b, NEW ws, Binding(b, ws) = {}
    PROVE  try_attach(b, ws).error # "none" /\ try_attach(b, ws).body = b
  BY DEF try_attach

LEMMA NoWalks ==
    ASSUME NEW b
    PROVE  Binding(b, <<>>) = {}
  BY DEF Binding

\* A call of a command's own walks.
LEMMA OwnReplays ==
    ASSUME NEW id \in Id, NEW b \in Known(id), NEW cmd \in CallCmds,
           id = "rover" => cmd # "Failsafe",
           try_attach(b, walks(b, cmd)).error = "none"
    PROVE  Replayed(b, logs(b, cmd)) = try_attach(b, walks(b, cmd)).body
  <1>0. b.id = id
    BY KnownIs
  <1>a. walks(b, cmd) # <<>>
    BY NoneTaken, NoWalks
  <1>b. cmd \notin ENV
    BY DEF CallCmds, ENV
  <1>1. CASE id = "drone"
    <2>0. b \in Known("drone") /\ b.id = "drone" /\ events(b) = aerial_events(b)
      BY <1>0, <1>1, Domains DEF events
    <2>1. CASE cmd \in AirPlain
      <3>1. PICK w : walks(b, cmd) = <<w>> /\ w.posts = aerial_events(b)[cmd]
        BY <2>0, <2>1, AirPlainIs
      <3>2. cmd \in DOMAIN aerial_events(b)
        BY <2>1, AirEventsAre DEF AirPlain
      <3>3. ~alias(b, cmd)
        BY <2>0, <2>1, Domains DEF alias, AirPlain
      <3>4. Replayed(b, <<cmd>>) = try_attach(b, walks(b, cmd)).body
        BY <1>b, <2>0, <3>1, <3>2, <3>3, PlainReplays
      <3>5. logs(b, cmd) = <<cmd>>
        BY <2>1 DEF logs, AirPlain
      <3> QED BY <3>4, <3>5
    <2>2. CASE cmd = "Takeoff"
      <3>1. attach_takeoff.from = {"PreflightReady"} /\ attach_start_takeoff.from = {"Offboard"}
        BY DEF attach_takeoff, attach_start_takeoff, Walk
      <3>2. walks(b, cmd) = <<attach_takeoff, attach_start_takeoff>>
        BY <2>0, <2>2, AirWalksAre
      <3>3. CASE Kind(b) = "PreflightReady"
        <4>1. try_attach(b, walks(b, cmd)) = Taken(b, attach_takeoff)
          BY <3>1, <3>2, <3>3, FirstOf
        <4>2. logs(b, cmd) = <<"Arm", "Offboard", "EnableActuators", "Takeoff">>
          BY <2>2, <3>3 DEF logs
        <4> QED BY <2>0, <3>3, <4>1, <4>2, TakeoffReplays
      <3>4. CASE Kind(b) = "Offboard"
        <4>1. ensure_tool_or_attach_grant(b, cmd)
          BY <2>0, <2>2, <3>4, StartsTaken
        <4>2. logs(b, cmd) = <<cmd>>
          BY <2>2, <3>4 DEF logs
        <4> QED BY <4>1, <4>2, WalkReplayed
      <3>5. CASE Kind(b) \notin {"PreflightReady", "Offboard"}
        <4>1. Binding(b, walks(b, cmd)) = {}
          BY <3>1, <3>2, <3>5, FirstOf
        <4> QED BY <4>1, NoneTaken
      <3> QED BY <3>3, <3>4, <3>5
    <2>3. CASE cmd = "Recover"
      <3> DEFINE w == attach_recover_ready(b)
      <3>1. /\ w.from = {"Failsafe", "Recovery"}
            /\ w.posts = IF Kind(b) = "Failsafe" THEN <<"Disarm", "Recover">> ELSE <<"Recover">>
        BY DEF attach_recover_ready, Walk
      <3>2. walks(b, cmd) = <<w>>
        BY <2>0, <2>3, AirWalksAre
      <3>3. CASE Kind(b) = "Failsafe"
        <4>1. try_attach(b, walks(b, cmd)) = Taken(b, w)
          <5> HIDE DEF w
          <5> QED BY <3>1, <3>2, <3>3, OneTaken
        <4>2. logs(b, cmd) = <<"Disarm", "Recover">>
          BY <2>0, <2>3, <3>3, Domains DEF logs
        <4> QED BY <2>0, <3>3, <4>1, <4>2, RecoverReplays
      <3>4. CASE Kind(b) # "Failsafe"
        <4> DEFINE ws == walks(b, cmd)
        <4>1. ws \in Seq(LabWalks(b))
          BY <1>0, WaysOf
        <4>2. Binding(b, ws) # {} /\ Posted(b, Bound(b, ws).posts).error = "none"
          <5> HIDE DEF ws
          <5>1. try_attach(b, ws).error = "none"
            BY DEF ws
          <5> QED BY <4>1, <5>1, TriedIs
        <4>3. Bound(b, ws) = w
          <5> HIDE DEF w
          <5> QED BY <3>2, <4>2, OneTaken
        <4>4. Posted(b, <<"Recover">>) = Given(Fresh(b), "Recover")
          BY PostedOne
        <4>5. Given(Fresh(b), "Recover").error = "none"
          BY <3>1, <3>4, <4>2, <4>3, <4>4
        <4>6. Admits(b, "Recover")
          <5>1. Fresh(b).error = "none" /\ Fresh(b).body = b
            BY DEF Fresh
          <5>2. ~Admits(b, "Recover") => Given(Fresh(b), "Recover") = [Fresh(b) EXCEPT !.error = "Rejected"]
            BY <5>1, GivenRejected
          <5> QED BY <4>5, <5>2 DEF Fresh
        <4>7. "Recover" \in DOMAIN events(b) /\ w.posts = events(b)["Recover"]
          BY <2>0, <3>1, <3>4, <4>6, AirEventsAre
        <4>8. ~alias(b, cmd)
          BY <2>3 DEF alias
        <4> HIDE DEF w, ws
        <4>9. Replayed(b, <<cmd>>) = try_attach(b, walks(b, cmd)).body
          BY <1>b, <2>3, <3>2, <4>7, <4>8, PlainReplays
        <4>10. logs(b, cmd) = <<cmd>>
          BY <2>3, <3>4 DEF logs
        <4> QED BY <4>9, <4>10
      <3> QED BY <3>3, <3>4
    <2>4. CASE cmd \notin AirPlain \cup {"Takeoff", "Recover"}
      <3>1. walks(b, cmd) = <<>>
        BY <2>0, <2>4, AirWalksAre DEF CallCmds, AirPlain
      <3> QED BY <1>a, <3>1
    <2> QED BY <2>1, <2>2, <2>3, <2>4
  <1>2. CASE id = "rover"
    <2>0. b.id = "rover" /\ events(b) = ground_events /\ cmd # "Park"
      BY <1>0, <1>2, Domains DEF events, CallCmds
    <2>1. cmd \in LandPlain
      BY <1>2, <1>a, <2>0, LandPlainIs
    <2>2. PICK w : /\ walks(b, cmd) = <<w>> /\ cmd \in DOMAIN events(b)
                   /\ w.posts = events(b)[cmd]
      BY <2>0, <2>1, LandPlainIs
    <2>3. ~alias(b, cmd)
      BY <2>0, <2>1, Domains DEF alias, LandPlain
    <2>4. Replayed(b, <<cmd>>) = try_attach(b, walks(b, cmd)).body
      BY <1>b, <2>2, <2>3, PlainReplays
    <2>5. logs(b, cmd) = <<cmd>>
      BY <2>1 DEF logs, LandPlain
    <2> QED BY <2>4, <2>5
  <1>3. CASE id \in {"skiff", "surveyor"}
    <2>0. b.id \in {"skiff", "surveyor"} /\ events(b) = marine_events /\ Domain(b.id) = "marine"
      BY <1>0, <1>3, Domains DEF events
    <2>1. cmd \in SeaPlain
      BY <1>a, <2>0, SeaPlainIs
    <2>2. PICK w : /\ walks(b, cmd) = <<w>> /\ cmd \in DOMAIN events(b)
                   /\ w.posts = events(b)[cmd]
      BY <2>0, <2>1, SeaPlainIs
    <2>3. ~alias(b, cmd)
      BY <2>0, <2>1 DEF alias, SeaPlain
    <2>4. Replayed(b, <<cmd>>) = try_attach(b, walks(b, cmd)).body
      BY <1>b, <2>2, <2>3, PlainReplays
    <2>5. logs(b, cmd) = <<cmd>>
      BY <2>0, <2>1 DEF logs, SeaPlain
    <2> QED BY <2>4, <2>5
  <1> QED BY <1>1, <1>2, <1>3, Domains

\* A walk that posts and stages what another does leaves what it leaves.
LEMMA SameTaken ==
    ASSUME NEW b, NEW v, NEW w, Kind(b) \in v.from, Kind(b) \in w.from,
           v.live = w.live, v.posts = w.posts, v.stages = w.stages
    PROVE  Taken(b, v) = Taken(b, w)
  <1>1. \A x : Settled(x, v) = Settled(x, w)
    BY DEF Settled
  <1>2. Attach(b, v) = Attach(b, w)
    BY <1>1 DEF Attach
  <1> QED BY <1>2 DEF Taken

LEMMA GrantTaken ==
    ASSUME NEW b
    PROVE  LET ws == grant_drone_attached IN
           /\ Kind(b) = "PreflightReady" => try_attach(b, ws) = Taken(b, attach_takeoff)
           /\ Kind(b) = "Offboard" => try_attach(b, ws) = Taken(b, attach_start_takeoff)
           /\ Kind(b) = "Armed" => try_attach(b, ws) = Taken(b, start_now)
           /\ Kind(b) \notin {"PreflightReady", "Offboard", "Armed"} => Binding(b, ws) = {}
  <1> DEFINE ws == <<attach_takeoff, attach_start_takeoff, start_now>>
  <1>0. grant_drone_attached = ws
    BY DEF grant_drone_attached, start_now
  <1>1. DOMAIN ws = {1, 2, 3} /\ ws[1] = attach_takeoff /\ ws[2] = attach_start_takeoff
        /\ ws[3] = start_now
    OBVIOUS
  <1>2. /\ attach_takeoff.from = {"PreflightReady"} /\ attach_start_takeoff.from = {"Offboard"}
        /\ start_now.from = {"Armed"}
    BY DEF attach_takeoff, attach_start_takeoff, start_now, Walk
  <1> HIDE DEF ws
  <1>3. /\ Kind(b) = "PreflightReady" => Binding(b, ws) = {1}
        /\ Kind(b) = "Offboard" => Binding(b, ws) = {2}
        /\ Kind(b) = "Armed" => Binding(b, ws) = {3}
        /\ Kind(b) \notin {"PreflightReady", "Offboard", "Armed"} => Binding(b, ws) = {}
    BY <1>1, <1>2 DEF Binding
  <1>4. \A i \in {1, 2, 3} : Binding(b, ws) = {i} => Bound(b, ws) = ws[i]
    BY DEF Bound
  <1>5. Binding(b, ws) # {} => try_attach(b, ws) = Taken(b, Bound(b, ws))
    BY DEF try_attach
  <1> QED BY <1>0, <1>1, <1>3, <1>4, <1>5

\* What an agent notes of a typed call that succeeded reproduces it.
LEMMA CallReplays ==
    ASSUME NEW id \in Id, NEW b \in Known(id), NEW cmd \in CallCmds,
           id = "rover" => cmd # "Failsafe",
           try_attach(b, agent_walks(b, cmd)).error = "none"
    PROVE  Replayed(b, note(b, cmd)) = try_attach(b, agent_walks(b, cmd)).body
  <1> DEFINE r == try_attach(b, agent_walks(b, cmd))
  <1>0. b.id = id
    BY KnownIs
  <1>k. /\ Kind(b) \in {"PreflightReady", "Offboard", "Armed", "Takeoff", "Airborne"} => id = "drone"
        /\ Kind(b) \in {"Underway", "StationKeep"} => id \in {"skiff", "surveyor"}
    BY KnownKinds, Domains
  <1>1. CASE cmd = "Grant"
    <2>1. agent_walks(b, cmd) = grant_drone_attached
      BY <1>1 DEF agent_walks
    <2>2. Kind(b) \in {"PreflightReady", "Offboard", "Armed"}
      BY <2>1, GrantTaken, NoneTaken
    <2>3. b \in Known("drone") /\ b.id = "drone"
      BY <1>0, <1>k, <2>2
    <2>4. CASE Kind(b) = "Armed"
      <3>1. r = Taken(b, start_now)
        BY <2>1, <2>4, GrantTaken
      <3>2. note(b, cmd) = <<"Offboard", "EnableActuators", "Takeoff">>
        BY <1>1, <2>4 DEF note
      <3> QED BY <2>3, <2>4, <3>1, <3>2, StartReplays
    <2>5. CASE Kind(b) = "PreflightReady"
      <3>1. r = Taken(b, attach_takeoff)
        BY <2>1, <2>5, GrantTaken
      <3>2. note(b, cmd) = <<"Arm", "Offboard", "EnableActuators", "Takeoff">>
        BY <1>1, <2>5 DEF note, logs
      <3> QED BY <2>3, <2>5, <3>1, <3>2, TakeoffReplays
    <2>6. CASE Kind(b) = "Offboard"
      <3>1. r = Taken(b, attach_start_takeoff)
        BY <2>1, <2>6, GrantTaken
      <3>2. note(b, cmd) = <<"Takeoff">>
        BY <1>1, <2>6 DEF note, logs
      <3>3. /\ try_attach(b, walks(b, "Takeoff")) = Taken(b, attach_start_takeoff)
            /\ ensure_tool_or_attach_grant(b, "Takeoff")
        BY <2>3, <2>6, StartsTaken
      <3> QED BY <3>1, <3>2, <3>3, WalkReplayed
    <2> QED BY <2>2, <2>4, <2>5, <2>6
  <1>2. CASE cmd = "Takeoff"
    <2>1. agent_walks(b, cmd) = <<attach_takeoff>> /\ attach_takeoff.from = {"PreflightReady"}
      BY <1>2 DEF agent_walks, attach_takeoff, Walk
    <2>2. Kind(b) = "PreflightReady"
      BY <2>1, OneTaken, NoneTaken
    <2>3. b \in Known("drone")
      BY <1>k, <2>2
    <2>4. r = Taken(b, attach_takeoff)
      BY <2>1, <2>2, OneTaken
    <2>5. note(b, cmd) = <<"Arm", "Offboard", "EnableActuators", "Takeoff">>
      BY <1>2, <2>2 DEF note, logs
    <2> QED BY <2>2, <2>3, <2>4, <2>5, TakeoffReplays
  <1>3. CASE cmd = "Fly"
    <2>1. agent_walks(b, cmd) = <<fly_now>>
      BY <1>3 DEF agent_walks, fly_now
    <2>2. fly_now.from = {"Offboard", "Takeoff", "Airborne"} /\ velocity_now.from = OffboardControl
          /\ fly_now.live = velocity_now.live /\ fly_now.posts = velocity_now.posts
          /\ fly_now.stages = velocity_now.stages
      BY DEF fly_now, velocity_now, Walk
    <2>3. Kind(b) \in {"Offboard", "Takeoff", "Airborne"}
      BY <2>1, <2>2, OneTaken, NoneTaken
    <2>4. b \in Known("drone") /\ b.id = "drone" /\ id = "drone" /\ Kind(b) \in OffboardControl
      BY <1>0, <1>k, <2>3 DEF OffboardControl
    <2>5. r = Taken(b, velocity_now)
      BY <2>1, <2>2, <2>3, <2>4, OneTaken, SameTaken
    <2>6. try_attach(b, walks(b, "Velocity")) = Taken(b, velocity_now)
      BY <2>2, <2>4, AirWalksAre, OneTaken
    <2>7. Replayed(b, logs(b, "Velocity")) = r.body
      <3>1. "Velocity" \in CallCmds
        BY DEF CallCmds
      <3>2. try_attach(b, walks(b, "Velocity")).error = "none"
        BY <2>5, <2>6
      <3> QED BY <2>4, <2>5, <2>6, <3>1, <3>2, OwnReplays
    <2>8. note(b, cmd) = <<"Velocity">> /\ logs(b, "Velocity") = <<"Velocity">>
      BY <1>3 DEF note, logs
    <2> QED BY <2>7, <2>8
  <1>4. CASE cmd = "Thrust"
    <2>1. agent_walks(b, cmd) = <<thrust_now>>
      BY <1>4 DEF agent_walks, thrust_now
    <2>2. thrust_now.from = {"Underway"} /\ sea_thrust.from = {"Underway", "StationKeep"}
          /\ thrust_now.live = sea_thrust.live /\ thrust_now.posts = sea_thrust.posts
          /\ thrust_now.stages = sea_thrust.stages
      BY DEF thrust_now, sea_thrust, Walk
    <2>3. Kind(b) = "Underway"
      BY <2>1, <2>2, OneTaken, NoneTaken
    <2>4. b.id \in {"skiff", "surveyor"}
      BY <1>0, <1>k, <2>3
    <2>5. r = Taken(b, sea_thrust)
      BY <2>1, <2>2, <2>3, OneTaken, SameTaken
    <2>6. try_attach(b, walks(b, cmd)) = Taken(b, sea_thrust)
      BY <1>4, <2>2, <2>3, <2>4, SeaPlainIs, OneTaken
    <2>7. note(b, cmd) = logs(b, cmd)
      BY <1>4 DEF note
    <2>8. Replayed(b, logs(b, cmd)) = r.body
      BY <1>4, <2>5, <2>6, OwnReplays
    <2> QED BY <2>7, <2>8
  <1>5. CASE cmd \notin {"Grant", "Takeoff", "Fly", "Thrust"}
    <2>1. agent_walks(b, cmd) = walks(b, cmd) /\ note(b, cmd) = logs(b, cmd)
      BY <1>5 DEF agent_walks, note, CallCmds
    <2> QED BY <2>1, OwnReplays
  <1> QED BY <1>1, <1>2, <1>3, <1>4, <1>5

\* What a command that is on the list is logged as, once it is walked, reproduces it.
LEMMA GatedReplays ==
    ASSUME NEW id \in Id, NEW b \in Known(id), NEW cmd, ensure_tool_or_attach_grant(b, cmd),
           try_attach(b, walks(b, cmd)).error = "none"
    PROVE  Replayed(b, logs(b, cmd)) = try_attach(b, walks(b, cmd)).body
  <1>0. b.id = id
    BY KnownIs
  <1>1. CASE cmd = "Takeoff" /\ Kind(b) = "PreflightReady"
    <2>1. id = "drone"
      BY <1>1, KnownKinds, Domains
    <2> QED BY <1>1, <2>1, OwnReplays DEF CallCmds
  <1>2. CASE cmd = "Recover" /\ Domain(b.id) = "aerial" /\ Kind(b) = "Failsafe"
    <2>1. id = "drone"
      BY <1>0, <1>2, Domains
    <2> QED BY <1>2, <2>1, OwnReplays DEF CallCmds
  <1>3. CASE /\ ~(cmd = "Takeoff" /\ Kind(b) = "PreflightReady")
             /\ ~(cmd = "Recover" /\ Domain(b.id) = "aerial" /\ Kind(b) = "Failsafe")
    <2>1. logs(b, cmd) = <<cmd>>
      BY <1>3 DEF logs
    <2> QED BY <2>1, WalkReplayed
  <1> QED BY <1>1, <1>2, <1>3

-----------------------------------------------------------------------------
(* A walk or a command that is let through and refused all the same leaves *)
(* its body as it was, to the heartbeat.                                   *)

Holds(b, posts) == Posted(b, posts).error # "none" => Posted(b, posts).body = b

LEMMA OneHolds ==
    ASSUME NEW b, NEW e
    PROVE  Holds(b, <<e>>)
  BY PostedOne, OneBounces DEF Holds

\* A heartbeat that is fresh already changes nothing.
LEMMA FreshAgain ==
    ASSUME NEW b \in Known("drone"), b.safety.offboard_heartbeat_fresh
    PROVE  Given(Fresh(b), "HeartbeatFresh") = Fresh(b)
  <1> DEFINE x == Post(b, "HeartbeatFresh")
             e == "HeartbeatFresh"
             s == b.safety
  <1>0. "drone" \in Id /\ e \in Told("drone")
    BY Domains, MeekAre
  <1>1. /\ b.id = "drone" /\ s \in Piloted /\ (s.failsafe => b.command = "none")
        /\ b = [id |-> "drone", safety |-> s, command |-> b.command]
    BY <1>0, KnownIs
  <1>2. Admits(b, e) /\ x.safety = [s EXCEPT !.offboard_heartbeat_fresh = TRUE]
    BY Freshened
  <1>3. /\ x \in Known("drone")
        /\ x.command = IF Cuts(b, e) THEN "none" ELSE b.command
        /\ x.safety = After(b, e)
    BY <1>0, <1>2, KnownPost
  <1>4. [s EXCEPT !.offboard_heartbeat_fresh = TRUE] = s
    <2>1. s \in Air!SafetyState
      BY <1>1 DEF Piloted
    <2> HIDE DEF s
    <2>2. s.offboard_heartbeat_fresh = TRUE
      BY <2>1 DEF Air!SafetyState, s
    <2> QED BY <2>1, <2>2 DEF Air!SafetyState
  <1>5. After(b, e) = s
    BY <1>2, <1>3, <1>4
  <1>6. Cuts(b, e) => s.failsafe
    BY <1>1, <1>5, Domains DEF Cuts
  <1> HIDE DEF x
  <1>7. x.command = b.command
    BY <1>1, <1>3, <1>6
  <1>8. x = [id |-> "drone", safety |-> x.safety, command |-> x.command]
    BY <1>0, <1>3, KnownIs
  <1>9. x = b
    BY <1>1, <1>2, <1>4, <1>7, <1>8
  <1> QED BY <1>2, <1>9, GivenTaken DEF x

LEMMA TwoHolds ==
    ASSUME NEW b \in Known("drone"), b.safety.offboard_heartbeat_fresh, NEW e
    PROVE  Holds(b, <<"HeartbeatFresh", e>>)
  <1>1. Posted(b, <<"HeartbeatFresh", e>>) = Given(Fresh(b), e)
    BY PostedTwo, FreshAgain
  <1> QED BY <1>1, OneBounces DEF Holds


\* What an armed vehicle's walks post is taken.
LEMMA ArmedTaken ==
    ASSUME NEW b \in Known("drone"), Kind(b) \in {"Armed", "Offboard"}
    PROVE  /\ Posted(b, enter_offboard_now.posts).error = "none"
           /\ Posted(b, start_now.posts).error = "none"
           /\ Posted(b, attach_start_takeoff.posts).error = "none"
           /\ Posted(b, <<"Takeoff">>).error = "none"
  <1>0. "drone" \in Id /\ b.id = "drone" /\ b.safety \in Piloted
    BY Domains, KnownIs
  <1>1. Warm(b, "Armed")
    <2>1. Kind(b) = Air!aerial_kind(b.safety)
      BY <1>0, Domains DEF Kind
    <2> QED BY <1>0, <2>1, AirUp DEF Warm
  <1>2. PICK x : /\ Launched(x)
                 /\ Given(Given(Given(Fresh(b), "HeartbeatFresh"), "EnterOffboard"),
                          "EnableActuators") = Fresh(x)
    BY <1>1, WarmLaunches
  <1>3. PICK y : Climbed(Fresh(x)) = Fresh(y)
    BY <1>2, WarmClimbs DEF Launched
  <1>4. PICK z : Climbed(Fresh(b)) = Fresh(z)
    BY <1>1, WarmClimbs
  <1>5. Posted(b, enter_offboard_now.posts) = Fresh(x)
    <2>1. enter_offboard_now.posts = <<"HeartbeatFresh", "EnterOffboard", "EnableActuators">>
      BY DEF enter_offboard_now, Walk
    <2> QED BY <1>2, <2>1, PostedThree
  <1>6. Posted(b, start_now.posts) = Fresh(y)
    <2>1. start_now.posts = <<"HeartbeatFresh", "EnterOffboard", "EnableActuators", "Takeoff",
                              "EnableActuators">>
      BY DEF start_now, Walk
    <2>2. Posted(b, start_now.posts) =
            Given(Given(Given(Given(Given(Fresh(b), "HeartbeatFresh"), "EnterOffboard"),
                              "EnableActuators"), "Takeoff"), "EnableActuators")
      BY <2>1, PostedFive
    <2> QED BY <1>2, <1>3, <2>2 DEF Climbed
  <1>7. Posted(b, attach_start_takeoff.posts) = Fresh(z)
    <2>1. attach_start_takeoff.posts = <<"Takeoff", "EnableActuators">>
      BY DEF attach_start_takeoff, Walk
    <2> QED BY <1>4, <2>1, PostedTwo DEF Climbed
  <1>8. PICK v : Posted(b, <<"Takeoff">>) = Fresh(v)
    <2>1. Given(Fresh(b), "Takeoff") = Fresh(Post(b, "Takeoff"))
      BY <1>1, WarmTakes
    <2> QED BY <2>1, PostedOne
  <1>9. \A v1 : Fresh(v1).error = "none"
    BY DEF Fresh
  <1> QED BY <1>5, <1>6, <1>7, <1>8, <1>9

LEMMA WalkHolds ==
    ASSUME NEW id \in Id, NEW b \in Known(id), NEW w \in LabWalks(b), Kind(b) \in w.from,
           w.live => b.safety.offboard_heartbeat_fresh
    PROVE  Holds(b, w.posts)
  <1>0. b.id = id
    BY KnownIs
  <1>1. CASE id # "drone"
    <2>1. id \in {"rover", "skiff", "surveyor"}
      BY <1>1, Domains
    <2>2. /\ attach_takeoff.from = {"PreflightReady"} /\ attach_start_takeoff.from = {"Offboard"}
          /\ start_now.from = {"Armed"} /\ fly_now.from = {"Offboard", "Takeoff", "Airborne"}
          /\ thrust_now.from = {"Underway"} /\ thrust_now.posts = <<"ThrustCommand">>
      BY DEF attach_takeoff, attach_start_takeoff, start_now, fly_now, thrust_now, Walk
    <2>3. CASE id = "rover"
      <3>1. w \notin CallWalks
        BY <2>2, <2>3, KnownKinds DEF CallWalks
      <3>2. w \in RoverWalks
        BY <1>0, <2>3, <3>1, Domains DEF LabWalks
      <3>3. \E e : w.posts = <<e>>
        BY <3>2 DEF RoverWalks, attach_estop, attach_drive, attach_park, attach_reset,
                    attach_ground_hold, Walk
      <3> QED BY <3>3, OneHolds
    <2>4. CASE id \in {"skiff", "surveyor"}
      <3>1. w \in HullWays \cup {thrust_now}
        BY <1>0, <2>2, <2>4, KnownKinds, Domains DEF LabWalks, CallWalks
      <3>2. \E e : w.posts = <<e>>
        BY <3>1 DEF HullWays, thrust_now, attach_marine_failsafe, attach_undock, attach_dock,
                    attach_station, attach_resume, attach_recover, attach_marine_hold, Walk
      <3> QED BY <3>2, OneHolds
    <2> QED BY <2>1, <2>3, <2>4
  <1>2. CASE id = "drone"
    <2>0. "drone" \in Id /\ w \in AirWalks(b) \cup CallWalks /\ b \in Known("drone")
      BY <1>0, <1>2, Domains DEF LabWalks
    <2>1. CASE w = attach_takeoff
      <3>1. attach_takeoff.from = {"PreflightReady"}
        BY DEF attach_takeoff, Walk
      <3>2. CASE Admits(b, "Arm")
        <4>1. PICK v, x, z : TakenOff(b, v, x, z)
          BY <2>0, <2>1, <3>1, <3>2, TakeoffTaken
        <4>2. Posted(b, w.posts) = Fresh(z)
          BY <2>1, <4>1 DEF TakenOff
        <4> QED BY <4>2 DEF Holds, Fresh
      <3>3. CASE ~Admits(b, "Arm")
        <4>1. Posted(b, w.posts) = [body |-> b, error |-> "Rejected"]
          BY <2>0, <2>1, <3>3, TakeoffRefused
        <4> QED BY <4>1 DEF Holds
      <3> QED BY <3>2, <3>3
    <2>2. CASE w \in {enter_offboard_now, start_now, attach_start_takeoff}
      <3>1. /\ enter_offboard_now.from = {"Armed"} /\ start_now.from = {"Armed"}
            /\ attach_start_takeoff.from = {"Offboard"}
        BY DEF enter_offboard_now, start_now, attach_start_takeoff, Walk
      <3>2. Kind(b) \in {"Armed", "Offboard"}
        BY <2>2, <3>1
      <3>3. Posted(b, w.posts).error = "none"
        BY <2>0, <2>2, <3>2, ArmedTaken
      <3> QED BY <3>3 DEF Holds
    <2>3. CASE w \in {velocity_now, attach_hold, fly_now}
      <3>1. w.posts = <<"HeartbeatFresh", "MissionCommand">> /\ w.live
        BY <2>3 DEF velocity_now, attach_hold, fly_now, mission, Walk
      <3> QED BY <2>0, <3>1, TwoHolds
    <2>4. CASE \/ w \in {attach_airborne, attach_land, attach_touchdown, attach_failsafe,
                         attach_disarm}
               \/ w \in {Walk({"PreflightReady"}, FALSE, <<"Arm">>, "none"),
                         Walk(OffboardControl \cup {"Armed"}, FALSE, <<"EnableActuators">>, "none")}
      <3>1. \E e : w.posts = <<e>>
        BY <2>4 DEF attach_airborne, attach_land, attach_touchdown, attach_failsafe, attach_disarm,
                    Walk
      <3> QED BY <3>1, OneHolds
    <2>5. CASE w = attach_recover_ready(b)
      <3>1. /\ w.posts = IF Kind(b) = "Failsafe" THEN <<"Disarm", "Recover">> ELSE <<"Recover">>
        BY <2>5 DEF attach_recover_ready, Walk
      <3>2. CASE Kind(b) = "Failsafe"
        <4>1. Posted(b, <<"Disarm", "Recover">>).error = "none"
          BY <2>0, <3>2, RecoverTakes
        <4> QED BY <3>1, <3>2, <4>1 DEF Holds
      <3>3. CASE Kind(b) # "Failsafe"
        BY <3>1, <3>3, OneHolds
      <3> QED BY <3>2, <3>3
    <2>6. w # thrust_now
      <3>1. thrust_now.from = {"Underway"}
        BY DEF thrust_now, Walk
      <3> QED BY <1>2, <3>1, KnownKinds
    <2> QED BY <2>0, <2>1, <2>2, <2>3, <2>4, <2>5, <2>6 DEF AirWalks, CallWalks
  <1> QED BY <1>1, <1>2

LEMMA CallSpurned ==
    ASSUME NEW id \in Id, NEW b \in Known(id), NEW ws \in Seq(LabWalks(b)),
           try_attach(b, ws).error # "none"
    PROVE  try_attach(b, ws).body = b
  <1> DEFINE w == Bound(b, ws)
             a == Attach(b, w)
             p == Posted(b, w.posts)
             t == try_attach(b, ws)
             s == Settled(p.body, w)
  <1>1. CASE Binding(b, ws) = {}
    BY <1>1, NoneTaken
  <1>2. CASE Binding(b, ws) # {}
    <2>1. w \in LabWalks(b) /\ Kind(b) \in w.from
      BY <1>2, BoundIs
    <2>2. t = Taken(b, w)
      BY <1>2 DEF try_attach
    <2>3. p = [body |-> p.body, error |-> p.error]
      <3> HIDE DEF w
      <3>1. Fitting(id, b, w.posts)
        BY <2>1, WalkFits
      <3> QED BY <3>1, FittingKept
    <2>4. \/ a = [body |-> b, error |-> "Protocol"]
          \/ a = [body |-> b, error |-> "Rejected"]
          \/ a = p /\ p.error # "none" /\ (w.live => b.safety.offboard_heartbeat_fresh)
          \/ a = [p EXCEPT !.body = s] /\ p.error = "none"
      BY DEF Attach
    <2>5. t \in {a, [a EXCEPT !.body.command = "velocity"]} /\ (a.error # "none" => t = a)
      BY <2>2 DEF Taken
    <2>6. (w.live => b.safety.offboard_heartbeat_fresh) /\ p.error # "none" => p.body = b
      <3> HIDE DEF w
      <3> QED BY <2>1, WalkHolds DEF Holds
    <2> HIDE DEF w, p, s, a
    <2>7. a = [body |-> a.body, error |-> a.error] /\ (a.error # "none" => a.body = b)
      BY <2>3, <2>4, <2>6
    <2>8. t.error # "none" => a.error # "none"
      <3> HIDE DEF t
      <3> QED BY <2>5, <2>7
    <2> QED BY <2>5, <2>7, <2>8
  <1> QED BY <1>1, <1>2

\* A command that is on the list and is posted is taken: its events were tried.
LEMMA JsonTaken ==
    ASSUME NEW id \in Id, NEW b \in Known(id), NEW cmd, ensure_tool_or_attach_grant(b, cmd),
           Binding(b, walks(b, cmd)) = {} \/ ensure_tool(b, cmd)
    PROVE  apply_action(b, cmd).error = "none"
  <1> DEFINE p == Posted(b, events(b)[cmd])
             c == Commanded(p.body, cmd)
  <1>0. b.id = id
    BY KnownIs
  <1>1. CASE cmd \in ENV
    BY <1>1 DEF apply_action
  <1>2. ASSUME cmd \notin ENV, accepted_by(b, cmd)
        PROVE  apply_action(b, cmd).error = "none"
    <2>1. cmd \in DOMAIN events(b) /\ p.error = "none"
      BY <1>2 DEF accepted_by
    <2>2. p = [body |-> p.body, error |-> p.error]
      <3> DEFINE posts == events(b)[cmd]
      <3>1. CASE Fitting(id, b, posts)
        <4> HIDE DEF posts
        <4>1. p = Posted(b, posts)
          BY DEF posts
        <4> QED BY <3>1, <4>1, FittingKept
      <3>2. CASE id = "drone" /\ posts = <<"Disarm", "Recover">>
        <4>1. posts \in Seq(Told(id))
          <5> DEFINE T == Told(id)
          <5>1. "Disarm" \in T /\ "Recover" \in T
            BY <3>2, MeekAre
          <5> HIDE DEF T
          <5>2. <<"Disarm", "Recover">> \in Seq(T)
            BY <5>1
          <5> QED BY <3>2, <5>2 DEF T
        <4> HIDE DEF posts
        <4>2. p = Posted(b, posts)
          BY DEF posts
        <4> QED BY <4>1, <4>2, KnownPosted
      <3> QED BY <2>1, <3>1, <3>2, CommandFits
    <2>3. apply_action(b, cmd) = [p EXCEPT !.body = c]
      BY <1>2, <2>1 DEF apply_action
    <2> HIDE DEF p, c
    <2> QED BY <2>1, <2>2, <2>3
  <1>3. CASE ensure_tool(b, cmd)
    BY <1>1, <1>2, <1>3 DEF ensure_tool, on_legal_list
  <1>4. CASE attach_takeoff_grant(b, cmd) /\ Binding(b, walks(b, cmd)) = {}
    <2>1. id = "drone" /\ b.id = "drone" /\ b \in Known("drone") /\ cmd = "Takeoff"
          /\ Kind(b) \in {"PreflightReady", "Armed", "Offboard"}
      BY <1>0, <1>4, Domains DEF attach_takeoff_grant
    <2>2. attach_takeoff.from = {"PreflightReady"} /\ attach_start_takeoff.from = {"Offboard"}
      BY DEF attach_takeoff, attach_start_takeoff, Walk
    <2>3. walks(b, cmd) = <<attach_takeoff, attach_start_takeoff>>
      BY <2>1, AirWalksAre
    <2>4. Kind(b) = "Armed"
      <3>1. {1} # {} /\ {2} # {}
        OBVIOUS
      <3> QED BY <1>4, <2>1, <2>2, <2>3, <3>1, FirstOf
    <2>5. Posted(b, <<"Takeoff">>).error = "none"
      BY <2>1, <2>4, ArmedTaken
    <2>6. cmd \in DOMAIN events(b) /\ events(b)[cmd] = <<"Takeoff">>
      BY <2>1, Domains DEF events, aerial_events
    <2>7. accepted_by(b, cmd) /\ cmd \notin ENV
      BY <2>1, <2>5, <2>6 DEF accepted_by, ENV
    <2> QED BY <1>2, <2>7
  <1> QED BY <1>3, <1>4 DEF ensure_tool_or_attach_grant

-----------------------------------------------------------------------------
(* The calls that agents decide on.                                        *)

GoodCalls == {c \in [id : Id, cmd : CallCmds] : c.id = "rover" => c.cmd # "Failsafe"}

\* What an agent of one body calls when it sees a kind it handles.
Handled(robot, way, cmd) ==
    /\ Call_(robot, cmd) \in GoodCalls
    /\ cmd = "Thrust" => Call_(robot, way) \in GoodCalls
Handles(p) == \A k \in DOMAIN p.on : Handled(p.robot, p.way, p.on[k])

\* A command that is called of a body.
LEMMA CallIs ==
    ASSUME NEW id \in Id, NEW cmd \in CallCmds, id = "rover" => cmd # "Failsafe"
    PROVE  Call_(id, cmd) \in GoodCalls
  BY DEF Call_, GoodCalls

\* Commands in range: those a policy has for the kinds it handles.
Ranges(on, cmds) == \A k \in DOMAIN on : on[k] \in cmds

LEMMA OnRanges ==
    ASSUME NEW kinds, NEW cmd, NEW cmds, cmd \in cmds
    PROVE  Ranges(On(kinds, cmd), cmds)
  BY DEF On, Ranges

LEMMA AlsoRanges ==
    ASSUME NEW on, NEW more, NEW cmds, Ranges(on, cmds), Ranges(more, cmds)
    PROVE  Ranges(Also(on, more), cmds)
  BY DEF Also, Ranges

LEMMA PolicyHandles ==
    ASSUME NEW id \in Id, NEW blind, NEW on, NEW end, NEW cmds \in SUBSET CallCmds,
           Ranges(on, cmds), "Thrust" \notin cmds, id = "rover" => "Failsafe" \notin cmds
    PROVE  Handles(Policy(id, blind, on, end))
  <1> DEFINE p == Policy(id, blind, on, end)
  <1>1. p.on = on /\ p.robot = id
    BY DEF Policy
  <1> HIDE DEF p
  <1>2. \A k \in DOMAIN on : on[k] \in cmds
    BY DEF Ranges
  <1>3. \A k \in DOMAIN on : on[k] # "Thrust" /\ Call_(id, on[k]) \in GoodCalls
    BY <1>2, CallIs
  <1>4. Handles(p)
    BY <1>1, <1>3 DEF Handles, Handled
  <1> QED BY <1>4 DEF p

LEMMA WayHandles ==
    ASSUME NEW id \in {"skiff", "surveyor"}, NEW then \in CallCmds, NEW on, NEW end,
           Ranges(on, CallCmds)
    PROVE  Handles(Way(id, then, on, end))
  <1> DEFINE p == Way(id, then, on, end)
  <1>1. p.on = on /\ p.robot = id /\ p.way = then
    BY DEF Way, Policy
  <1> HIDE DEF p
  <1>2. \A k \in DOMAIN on : on[k] \in CallCmds
    BY DEF Ranges
  <1>3. Call_(id, then) \in GoodCalls /\ \A k \in DOMAIN on : Call_(id, on[k]) \in GoodCalls
    BY <1>2, CallIs, Domains
  <1>4. Handles(p)
    BY <1>1, <1>3 DEF Handles, Handled
  <1> QED BY <1>4 DEF p

\* The fields of a policy.
Laid(p) ==
    p = [robot |-> p.robot, blind |-> p.blind, on |-> p.on, end |-> p.end, way |-> p.way]

\* An agent of the skiff, given the surveyor.
LEMMA SurveyorHandles ==
    ASSUME NEW p, p.robot = "skiff", Handles(p),
           Laid(p)
    PROVE  Handles(Surveyor(p))
  <1> DEFINE q == Surveyor(p)
  <1>1. q.on = p.on /\ q.robot = "surveyor" /\ q.way = p.way
    BY DEF Surveyor, Laid
  <1> HIDE DEF q
  <1>2. ASSUME NEW cmd, Call_("skiff", cmd) \in GoodCalls PROVE Call_("surveyor", cmd) \in GoodCalls
    BY <1>2, Domains DEF Call_, GoodCalls
  <1>3. Handles(q)
    BY <1>1, <1>2 DEF Handles, Handled
  <1> QED BY <1>3 DEF q

LEMMA DronesHandle ==
    /\ Handles(TypedAerialFailsafe) /\ Handles(TypedAerialDisarm) /\ Handles(TypedAerialAirborne)
    /\ Handles(TypedPositionHold) /\ Handles(TypedHold) /\ Handles(TypedPathFollow)
    /\ Handles(TypedPadDisarm) /\ Handles(TypedPadFailsafe) /\ Handles(TypedFailsafeTouchdown)
  <1> DEFINE S == {"Failsafe", "Disarm", "Airborne", "Land", "Position", "Hold", "Touchdown",
                   "Recover", "Grant"}
  <1>0. "drone" \in Id /\ S \in SUBSET CallCmds /\ "Thrust" \notin S
    BY Domains DEF CallCmds
  <1>1. \A kinds, cmd : cmd \in S => Ranges(On(kinds, cmd), S)
    BY OnRanges
  <1>2. \A on, more : Ranges(on, S) /\ Ranges(more, S) => Ranges(Also(on, more), S)
    BY AlsoRanges
  <1>3. \A blind, on, end : Ranges(on, S) => Handles(Policy("drone", blind, on, end))
    BY <1>0, PolicyHandles
  <1>4. /\ Ranges([Airborne |-> "Land", Takeoff |-> "Airborne"], S)
        /\ Ranges([Failsafe |-> "Touchdown"], S)
    BY DEF Ranges
  <1>5. /\ "Failsafe" \in S /\ "Disarm" \in S /\ "Position" \in S /\ "Hold" \in S
        /\ "Recover" \in S /\ "Grant" \in S
    OBVIOUS
  <1> HIDE DEF S
  <1>6. Ranges(rearm, S) /\ Ranges(granting, S)
    BY <1>1, <1>5 DEF rearm, granting
  <1>7. Handles(TypedAerialFailsafe)
    BY <1>1, <1>2, <1>3, <1>5, <1>6 DEF TypedAerialFailsafe
  <1>8. Handles(TypedAerialDisarm)
    BY <1>1, <1>2, <1>3, <1>5, <1>6 DEF TypedAerialDisarm
  <1>9. Handles(TypedAerialAirborne)
    BY <1>2, <1>3, <1>4, <1>6 DEF TypedAerialAirborne
  <1>10. Handles(TypedPositionHold) /\ Handles(TypedHold) /\ Handles(TypedPathFollow)
    BY <1>1, <1>2, <1>3, <1>5, <1>6 DEF TypedPositionHold, TypedHold, TypedPathFollow
  <1>11. Handles(TypedPadDisarm) /\ Handles(TypedPadFailsafe)
    BY <1>1, <1>2, <1>3, <1>5, <1>6 DEF TypedPadDisarm, TypedPadFailsafe
  <1>12. Handles(TypedFailsafeTouchdown)
    BY <1>1, <1>2, <1>3, <1>4, <1>5 DEF TypedFailsafeTouchdown
  <1> QED BY <1>7, <1>8, <1>9, <1>10, <1>11, <1>12

LEMMA RoversHandle ==
    Handles(TypedGroundEstop) /\ Handles(TypedGroundHalt) /\ Handles(TypedGroundHold)
  <1> DEFINE S == {"Estop", "Clear", "Halt", "Release", "Hold"}
  <1>0. "rover" \in Id /\ S \in SUBSET CallCmds /\ "Thrust" \notin S /\ "Failsafe" \notin S
    BY Domains DEF CallCmds
  <1>1. Ranges(On({"Parked", "Moving"}, "Estop"), S)
    BY OnRanges
  <1>2. \A on, more : Ranges(on, S) /\ Ranges(more, S) => Ranges(Also(on, more), S)
    BY AlsoRanges
  <1>3. \A blind, on, end : Ranges(on, S) => Handles(Policy("rover", blind, on, end))
    BY <1>0, PolicyHandles
  <1>4. /\ Ranges([EStopped |-> "Clear"], S) /\ Ranges([Moving |-> "Halt", Parked |-> "Release"], S)
        /\ Ranges([Moving |-> "Hold", Parked |-> "Release"], S)
    BY DEF Ranges
  <1> HIDE DEF S
  <1> QED BY <1>1, <1>2, <1>3, <1>4 DEF TypedGroundEstop, TypedGroundHalt, TypedGroundHold

LEMMA HullsHandle ==
    /\ Handles(TypedStationDock) /\ Handles(TypedHullDock) /\ Handles(TypedStationResume)
    /\ Handles(TypedHullFailsafe) /\ Handles(TypedStationFailsafe)
    /\ Handles(TypedSurveyorFailsafe) /\ Handles(TypedSurveyorStationFailsafe)
    /\ Handles(TypedSurveyorStationDock) /\ Handles(TypedSurveyorDock)
    /\ Handles(TypedSurveyorStationResume)
  <1> DEFINE S == {"Dock", "Undock", "Station", "Resume", "Failsafe", "Recover"}
  <1>0. "skiff" \in Id /\ S \in SUBSET CallCmds /\ "Thrust" \notin S /\ "skiff" # "rover"
    BY Domains DEF CallCmds
  <1>1. Ranges(On({"Underway", "StationKeep"}, "Failsafe"), S)
    BY OnRanges
  <1>2. \A on, more : Ranges(on, S) /\ Ranges(more, S) => Ranges(Also(on, more), S)
    BY AlsoRanges
  <1>3. \A blind, on, end : Ranges(on, S) => Handles(Policy("skiff", blind, on, end))
    BY <1>0, PolicyHandles
  <1>4. /\ Ranges([Docked |-> "Undock", Underway |-> "Station", StationKeep |-> "Resume"], S)
        /\ Ranges([Failsafe |-> "Recover", Docked |-> "Undock"], S)
        /\ Ranges([Failsafe |-> "Recover", Docked |-> "Undock", Underway |-> "Station",
                   StationKeep |-> "Failsafe"], S)
    BY DEF Ranges
  <1>5. /\ Ranges([StationKeep |-> "Dock", Docked |-> "Undock", Underway |-> "Thrust"], CallCmds)
        /\ Ranges([Docked |-> "Undock", Underway |-> "Thrust"], CallCmds)
        /\ "Station" \in CallCmds /\ "Dock" \in CallCmds
    BY DEF Ranges, CallCmds
  <1> HIDE DEF S
  <1>6. Handles(TypedStationDock) /\ Handles(TypedHullDock)
    BY <1>5, WayHandles DEF TypedStationDock, TypedHullDock
  <1>7. Handles(TypedStationResume) /\ Handles(TypedHullFailsafe) /\ Handles(TypedStationFailsafe)
    BY <1>1, <1>2, <1>3, <1>4 DEF TypedStationResume, TypedHullFailsafe, TypedStationFailsafe
  <1>8. \A blind, on, end : LET p == Policy("skiff", blind, on, end) IN p.robot = "skiff" /\ Laid(p)
    BY DEF Policy, Laid
  <1>9. \A then, on, end : LET p == Way("skiff", then, on, end) IN p.robot = "skiff" /\ Laid(p)
    BY DEF Way, Policy, Laid
  <1>10. /\ TypedStationDock.robot = "skiff" /\ Laid(TypedStationDock)
         /\ TypedHullDock.robot = "skiff" /\ Laid(TypedHullDock)
         /\ TypedStationResume.robot = "skiff" /\ Laid(TypedStationResume)
         /\ TypedHullFailsafe.robot = "skiff" /\ Laid(TypedHullFailsafe)
         /\ TypedStationFailsafe.robot = "skiff" /\ Laid(TypedStationFailsafe)
    BY <1>8, <1>9 DEF TypedStationDock, TypedHullDock, TypedStationResume, TypedHullFailsafe,
                      TypedStationFailsafe
  <1>11. \A p : p.robot = "skiff" /\ Laid(p) /\ Handles(p) => Handles(Surveyor(p))
    BY SurveyorHandles
  <1>12. /\ Handles(TypedSurveyorFailsafe) /\ Handles(TypedSurveyorStationFailsafe)
         /\ Handles(TypedSurveyorStationDock) /\ Handles(TypedSurveyorDock)
         /\ Handles(TypedSurveyorStationResume)
    BY <1>6, <1>7, <1>10, <1>11 DEF TypedSurveyorFailsafe, TypedSurveyorStationFailsafe,
                TypedSurveyorStationDock, TypedSurveyorDock, TypedSurveyorStationResume
  <1> QED BY <1>6, <1>7, <1>12

LEMMA PoliciesHandle ==
    ASSUME NEW a \in DOMAIN policies
    PROVE  Handles(policies[a])
  <1>1. \/ policies[a] \in {TypedAerialFailsafe, TypedAerialDisarm, TypedAerialAirborne,
                            TypedPositionHold, TypedHold, TypedPathFollow, TypedPadDisarm,
                            TypedPadFailsafe, TypedFailsafeTouchdown}
        \/ policies[a] \in {TypedGroundEstop, TypedGroundHalt, TypedGroundHold}
        \/ policies[a] \in {TypedStationDock, TypedHullDock, TypedStationResume, TypedHullFailsafe,
                            TypedStationFailsafe, TypedSurveyorFailsafe,
                            TypedSurveyorStationFailsafe, TypedSurveyorStationDock,
                            TypedSurveyorDock, TypedSurveyorStationResume}
    BY DEF policies
  <1> QED BY <1>1, DronesHandle, RoversHandle, HullsHandle

\* A decision to log only calls that a fresh lab can be given.
Notes(d) == d.logged => d.calls \in Seq(GoodCalls)

LEMMA IdleSound ==
    ASSUME NEW m
    PROVE  /\ Notes(Idle(m)) /\ Idle(m).calls = <<>> /\ Idle(m).returns = <<>>
           /\ \A cmds : Notes(Returns(m, cmds)) /\ Returns(m, cmds).calls = <<>>
                        /\ Returns(m, cmds).returns = cmds
           /\ \A calls : Calls(m, calls).calls = calls /\ Calls(m, calls).returns = <<>>
  BY DEF Notes, Idle, Returns, Calls

LEMMA CallsSound ==
    ASSUME NEW m, NEW calls \in Seq(GoodCalls)
    PROVE  Notes(Calls(m, calls)) /\ \A e : Notes([Calls(m, calls) EXCEPT !.ends = e])
  BY DEF Notes, Idle, Calls

LEMMA OneSound ==
    ASSUME NEW c \in GoodCalls
    PROVE  <<c>> \in Seq(GoodCalls)
  OBVIOUS

LEMMA FollowedSound ==
    ASSUME NEW p, NEW m, NEW b, Handles(p), Kind(b) \in DOMAIN p.on
    PROVE  Notes(Followed(p, m, b)) /\ Followed(p, m, b).returns = <<>>
  <1> DEFINE cmd == p.on[Kind(b)]
             ways == IF m.way < WAY THEN m.way + 1 ELSE WAY
             turn == IF ways = WAY THEN p.way ELSE "Thrust"
             ends(c) == IF c = p.end THEN {Call_(p.robot, c)} ELSE {}
  <1>1. Handled(p.robot, p.way, cmd)
    BY DEF Handles
  <1>2. CASE cmd = "Thrust"
    <2> DEFINE calls == <<Call_(p.robot, turn)>>
               n == [m EXCEPT !.way = ways]
               e == ends(turn)
    <2>1. Followed(p, m, b) = [Calls(n, calls) EXCEPT !.ends = e]
      BY <1>2 DEF Followed
    <2>2. Call_(p.robot, turn) \in GoodCalls
      BY <1>1, <1>2 DEF Handled
    <2>3. calls \in Seq(GoodCalls)
      BY <2>2, OneSound
    <2> HIDE DEF calls, n, e
    <2>4. Notes([Calls(n, calls) EXCEPT !.ends = e])
          /\ [Calls(n, calls) EXCEPT !.ends = e].returns = <<>>
      BY <2>3, CallsSound DEF Calls, Idle
    <2> QED BY <2>1, <2>4
  <1>3. CASE cmd # "Thrust"
    <2> DEFINE calls == <<Call_(p.robot, cmd)>>
    <2>1. \/ \E n : Followed(p, m, b) = Idle(n)
          \/ Followed(p, m, b) = [Calls(m, calls) EXCEPT !.ends = ends(cmd)]
      BY <1>3 DEF Followed
    <2>2. Call_(p.robot, cmd) \in GoodCalls
      BY <1>1 DEF Handled
    <2>3. calls \in Seq(GoodCalls)
      BY <2>2, OneSound
    <2> HIDE DEF calls
    <2>4. \A e : Notes([Calls(m, calls) EXCEPT !.ends = e])
                 /\ [Calls(m, calls) EXCEPT !.ends = e].returns = <<>>
      BY <2>3, CallsSound DEF Calls, Idle
    <2>5. \A n : Notes(Idle(n)) /\ Idle(n).returns = <<>>
      BY IdleSound
    <2> QED BY <2>1, <2>4, <2>5
  <1> QED BY <1>2, <1>3

LEMMA FollowsSound ==
    ASSUME NEW a \in DOMAIN policies, NEW m, NEW seen
    PROVE  Notes(Follows(policies[a], m, seen))
  <1> DEFINE p == policies[a]
             b == seen[p.robot]
             d == Follows(p, m, seen)
  <1>1. Handles(p)
    BY PoliciesHandle
  <1> HIDE DEF p
  <1>2. \/ \E n : d = Idle(n)
        \/ \E n, cmds : d = Returns(n, cmds)
        \/ d = Followed(p, Probed(m), b) /\ Kind(b) \in DOMAIN p.on
    BY DEF Follows
  <1>3. \A n, cmds : Notes(Idle(n)) /\ Notes(Returns(n, cmds))
    BY IdleSound
  <1>4. Kind(b) \in DOMAIN p.on => Notes(Followed(p, Probed(m), b))
    BY <1>1, FollowedSound
  <1> QED BY <1>2, <1>3, <1>4 DEF p

-----------------------------------------------------------------------------
(* The calls of the fleets' agents.                                        *)

\* What an agent sees: bodies, by their names.
Seen(seen) == DOMAIN seen \subseteq Id /\ \A id \in DOMAIN seen : seen[id].id = id

LEMMA FourSound ==
    ASSUME NEW S, NEW s1 \in Seq(S), NEW s2 \in Seq(S), NEW s3 \in Seq(S), NEW s4 \in Seq(S)
    PROVE  s1 \o s2 \o s3 \o s4 \in Seq(S)
  OBVIOUS

\* The calls are good that are asked of any body that is seen.
LEMMA AskedGood ==
    ASSUME NEW id \in Id
    PROVE  /\ \A cmd \in CallCmds \ {"Failsafe"} : <<Call_(id, cmd)>> \in Seq(GoodCalls)
           /\ \A c, d \in CallCmds \ {"Failsafe"} :
                <<Call_(id, c), Call_(id, d)>> \in Seq(GoodCalls)
           /\ <<>> \in Seq(GoodCalls)
  <1>1. \A cmd \in CallCmds \ {"Failsafe"} : Call_(id, cmd) \in GoodCalls
    BY CallIs
  <1> QED BY <1>1

LEMMA GrantsGood ==
    ASSUME NEW seen, Seen(seen)
    PROVE  grant_attached(seen) \in Seq(GoodCalls)
  <1> DEFINE grant(b) == <<Call_(b.id, CASE Domain(b.id) = "aerial" -> "Takeoff"
                                         [] Domain(b.id) = "ground" -> "Release"
                                         [] Domain(b.id) = "marine" -> "Undock")>>
             of(i) == IF i \in DOMAIN Slots /\ Slots[i] \in DOMAIN seen
                      THEN grant(seen[Slots[i]]) ELSE <<>>
  <1>1. ASSUME NEW b, b.id \in Id PROVE grant(b) \in Seq(GoodCalls)
    <2>1. Domain(b.id) \in {"aerial", "ground", "marine"}
      BY <1>1, Domains
    <2>2. PICK cmd \in {"Takeoff", "Release", "Undock"} : grant(b) = <<Call_(b.id, cmd)>>
      BY <2>1
    <2>3. cmd \in CallCmds \ {"Failsafe"}
      BY DEF CallCmds
    <2> QED BY <1>1, <2>2, <2>3, AskedGood
  <1>2. grant_attached(seen) = of(1) \o of(2) \o of(3) \o of(4)
    BY DEF grant_attached, Over
  <1> HIDE DEF grant
  <1>3. \A i : of(i) \in Seq(GoodCalls)
    BY <1>1 DEF Seen
  <1> HIDE DEF of
  <1> QED BY <1>2, <1>3, FourSound

LEMMA ReturnsGood ==
    ASSUME NEW seen, Seen(seen)
    PROVE  return_attached(seen) \in Seq(GoodCalls)
  <1> DEFINE return_(b) ==
                CASE Domain(b.id) = "aerial" -> <<Call_(b.id, "Land"), Call_(b.id, "Touchdown")>>
                  [] Domain(b.id) = "ground" -> <<Call_(b.id, "Halt")>>
                  [] Domain(b.id) = "marine" -> <<Call_(b.id, "Dock")>>
             of(i) == IF i \in DOMAIN Slots /\ Slots[i] \in DOMAIN seen
                      THEN return_(seen[Slots[i]]) ELSE <<>>
  <1>1. ASSUME NEW b, b.id \in Id PROVE return_(b) \in Seq(GoodCalls)
    <2>1. Domain(b.id) \in {"aerial", "ground", "marine"}
      BY <1>1, Domains
    <2>2. \/ return_(b) = <<Call_(b.id, "Land"), Call_(b.id, "Touchdown")>>
          \/ return_(b) = <<Call_(b.id, "Halt")>>
          \/ return_(b) = <<Call_(b.id, "Dock")>>
      BY <2>1
    <2>3. {"Land", "Touchdown", "Halt", "Dock"} \subseteq CallCmds \ {"Failsafe"}
      BY DEF CallCmds
    <2> HIDE DEF return_
    <2> QED BY <1>1, <2>2, <2>3, AskedGood
  <1>2. return_attached(seen) = of(1) \o of(2) \o of(3) \o of(4)
    BY DEF return_attached, Over
  <1> HIDE DEF return_
  <1>3. \A i : of(i) \in Seq(GoodCalls)
    BY <1>1 DEF Seen
  <1> HIDE DEF of
  <1> QED BY <1>2, <1>3, FourSound

LEMMA DrivesGood ==
    ASSUME NEW seen, Seen(seen), NEW contact
    PROVE  drive_attached(seen, contact) \in Seq(GoodCalls)
  <1> DEFINE drive(b) ==
                CASE Domain(b.id) = "aerial" -> If(actuators_granted(b), <<Call_(b.id, "Fly")>>)
                  [] Domain(b.id) = "ground" ->
                        If(b.safety.drive_enabled /\ contact, <<Call_(b.id, "Drive")>>)
                  [] Domain(b.id) = "marine" ->
                        If(b.safety.thrust_enabled, <<Call_(b.id, "Thrust")>>)
             of(i) == IF i \in DOMAIN Slots /\ Slots[i] \in DOMAIN seen
                      THEN drive(seen[Slots[i]]) ELSE <<>>
  <1>1. ASSUME NEW b, b.id \in Id PROVE drive(b) \in Seq(GoodCalls)
    <2>1. Domain(b.id) \in {"aerial", "ground", "marine"}
      BY <1>1, Domains
    <2>2. drive(b) = <<>> \/ \E cmd \in {"Fly", "Drive", "Thrust"} : drive(b) = <<Call_(b.id, cmd)>>
      BY <2>1 DEF If
    <2>3. {"Fly", "Drive", "Thrust"} \subseteq CallCmds \ {"Failsafe"}
      BY DEF CallCmds
    <2> HIDE DEF drive
    <2> QED BY <1>1, <2>2, <2>3, AskedGood
  <1>2. drive_attached(seen, contact) = of(1) \o of(2) \o of(3) \o of(4)
    BY DEF drive_attached, Over
  <1> HIDE DEF drive
  <1>3. \A i : of(i) \in Seq(GoodCalls)
    BY <1>1 DEF Seen
  <1> HIDE DEF of
  <1> QED BY <1>2, <1>3, FourSound

LEMMA FleetSound ==
    ASSUME NEW m, NEW seen, Seen(seen), NEW contact
    PROVE  Notes(TypedFleet(m, seen, contact))
  <1>1. \/ \E n, cmds : TypedFleet(m, seen, contact) = Returns(n, cmds)
        \/ \E n : TypedFleet(m, seen, contact) = Calls(n, grant_attached(seen))
        \/ TypedFleet(m, seen, contact) = Calls(m, drive_attached(seen, contact))
    BY DEF TypedFleet
  <1>2. \A n, cmds : Notes(Returns(n, cmds))
    BY IdleSound
  <1>3. \A n : Notes(Calls(n, grant_attached(seen)))
    BY GrantsGood, CallsSound
  <1>4. Notes(Calls(m, drive_attached(seen, contact)))
    BY DrivesGood, CallsSound
  <1> QED BY <1>1, <1>2, <1>3, <1>4

LEMMA FleetReturnSound ==
    ASSUME NEW m, NEW seen, Seen(seen)
    PROVE  Notes(TypedFleetReturn(m, seen))
  <1>1. \/ \E n : TypedFleetReturn(m, seen) = Idle(n)
        \/ TypedFleetReturn(m, seen) = TypedFleet(m, seen, FALSE)
        \/ \E n : TypedFleetReturn(m, seen) = Calls(n, return_attached(seen))
    BY DEF TypedFleetReturn
  <1>2. Notes(TypedFleet(m, seen, FALSE))
    BY FleetSound, Zenon
  <1>3. \A n : Notes(Idle(n)) /\ Notes(Calls(n, return_attached(seen)))
    BY ReturnsGood, IdleSound, CallsSound
  <1> QED BY <1>1, <1>2, <1>3

LEMMA FleetHoldSound ==
    ASSUME NEW m, NEW seen, Seen(seen)
    PROVE  Notes(TypedFleetHold(m, seen))
  <1> DEFINE todo == DOMAIN seen \ m.done
             one == If("drone" \in todo, <<Call_("drone", "Hold")>>)
             two == If("skiff" \in todo, <<Call_("skiff", "Station")>>)
             calls == one \o two
             n == [m EXCEPT !.done = @ \cup ({"drone", "skiff"} \ DOMAIN seen)]
             e == {calls[i] : i \in DOMAIN calls}
  <1>1. \/ TypedFleetHold(m, seen) = TypedFleet(m, seen, FALSE)
        \/ TypedFleetHold(m, seen) = [Calls(n, calls) EXCEPT !.ends = e]
    BY DEF TypedFleetHold
  <1>2. one \in Seq(GoodCalls)
    BY AskedGood, Domains DEF If, CallCmds
  <1>3. two \in Seq(GoodCalls)
    BY AskedGood, Domains DEF If, CallCmds
  <1> HIDE DEF one, two
  <1>4. calls \in Seq(GoodCalls)
    BY <1>2, <1>3
  <1> HIDE DEF calls, n, e
  <1>5. Notes(TypedFleet(m, seen, FALSE))
    BY FleetSound, Zenon
  <1>6. Notes([Calls(n, calls) EXCEPT !.ends = e])
    BY <1>4, CallsSound
  <1> QED BY <1>1, <1>5, <1>6

LEMMA MarineHoldSound ==
    ASSUME NEW m, NEW seen, Seen(seen)
    PROVE  Notes(TypedMarineHold(m, seen))
  <1> DEFINE hulls == <<"skiff", "surveyor">>
             ask(b) == CASE b.id \in m.done \/ Kind(b) = "Failsafe" -> <<>>
                         [] ~(b.id \in m.done \/ Kind(b) = "Failsafe") /\ Kind(b) = "Docked" ->
                                <<Call_(b.id, "Undock")>>
                         [] OTHER -> If(b.command # "hold", <<Call_(b.id, "Hold")>>)
             of(i) == IF i \in DOMAIN hulls /\ hulls[i] \in DOMAIN seen
                      THEN ask(seen[hulls[i]]) ELSE <<>>
             calls == of(1) \o of(2) \o of(3) \o of(4)
  <1>1. ASSUME NEW b, b.id \in Id PROVE ask(b) \in Seq(GoodCalls)
    <2>1. ask(b) = <<>> \/ \E cmd \in {"Undock", "Hold"} : ask(b) = <<Call_(b.id, cmd)>>
      BY DEF If
    <2>2. {"Undock", "Hold"} \subseteq CallCmds \ {"Failsafe"}
      BY DEF CallCmds
    <2> HIDE DEF ask
    <2> QED BY <1>1, <2>1, <2>2, AskedGood
  <1>2. \/ \E n, cmds : TypedMarineHold(m, seen) = Returns(n, cmds)
        \/ \E n, e : TypedMarineHold(m, seen) = [Calls(n, calls) EXCEPT !.ends = e]
    <2> DEFINE first == Over(hulls, seen, LAMBDA b : If(Kind(b) = "Docked", <<Call_(b.id, "Thrust")>>))
               holding == {id \in {"skiff", "surveyor"} \cap DOMAIN seen :
                             Kind(seen[id]) \in {"Underway", "StationKeep"}
                             /\ seen[id].command = "hold"}
               n == [Probed(m) EXCEPT !.done = @ \cup holding]
               e == {Call_(id, "Hold") : id \in {"skiff", "surveyor"}}
    <2>1. calls = Over(hulls, seen, ask)
      BY DEF Over
    <2>2. \/ TypedMarineHold(m, seen) = Returns(Probed(m), <<first[1]>>)
          \/ TypedMarineHold(m, seen) = [Calls(n, Over(hulls, seen, ask)) EXCEPT !.ends = e]
      BY DEF TypedMarineHold
    <2> HIDE DEF calls, n, e, first
    <2> QED BY <2>1, <2>2
  <1> HIDE DEF ask
  <1>3. \A i : of(i) \in Seq(GoodCalls)
    BY <1>1 DEF Seen
  <1> HIDE DEF of
  <1>4. calls \in Seq(GoodCalls)
    BY <1>3, FourSound
  <1> HIDE DEF calls
  <1> QED BY <1>2, <1>4, IdleSound, CallsSound

\* The agents of the rover and the drone that make typed calls.
LEMMA AskingIs ==
    ASSUME NEW id \in Id, NEW cmds \in Seq(CallCmds \ {"Failsafe"})
    PROVE  Asking(id, cmds) \in Seq(GoodCalls)
  <1>1. \A i \in 1..Len(cmds) : Call_(id, cmds[i]) \in GoodCalls
    <2>1. \A i \in 1..Len(cmds) : cmds[i] \in CallCmds /\ cmds[i] # "Failsafe"
      OBVIOUS
    <2> QED BY <2>1, CallIs
  <1>2. DOMAIN cmds = 1..Len(cmds) /\ Len(cmds) \in Nat
    OBVIOUS
  <1>3. Asking(id, cmds) = [i \in 1..Len(cmds) |-> Call_(id, cmds[i])]
    BY <1>2 DEF Asking
  <1> QED BY <1>1, <1>2, <1>3

LEMMA SweepSound ==
    ASSUME NEW m, NEW seen, Seen(seen), NEW contact, NEW hit
    PROVE  Notes(TypedCollisionSweep(m, seen, contact, hit))
  <1> DEFINE b == seen["rover"]
             d == TypedCollisionSweep(m, seen, contact, hit)
             call_(cmd) == <<Call_("rover", cmd)>>
  <1>1. \/ \E n : d = Idle(n)
        \/ \E n, cmds : d = Returns(n, cmds)
        \/ \E n : d = Calls(n, <<>>)
        \/ \E n, cmd : cmd \in {"Halt", "Release", "Drive"} /\ d = Calls(n, call_(cmd))
    <2> DEFINE on == If(b.safety.drive_enabled, call_("Halt"))
               drive == If(contact, call_("Drive"))
    <2>1. on \in {<<>>, call_("Halt")} /\ drive \in {<<>>, call_("Drive")}
      BY DEF If
    <2>2. \/ \E n : d = Idle(n)
          \/ \E n, cmds : d = Returns(n, cmds)
          \/ \E n : d = Calls(n, on)
          \/ \E n : d = Calls(n, call_("Release"))
          \/ \E n : d = Calls(n, drive)
          \/ \E n : d = Calls(n, <<>>)
      BY DEF TypedCollisionSweep
    <2> HIDE DEF on, drive, d, call_
    <2> QED BY <2>1, <2>2
  <1>2. \A cmd \in {"Halt", "Release", "Drive"} : call_(cmd) \in Seq(GoodCalls)
    BY AskedGood, Domains DEF CallCmds
  <1> HIDE DEF d, call_
  <1>3. \A n : \A cmd \in {"Halt", "Release", "Drive"} : Notes(Calls(n, call_(cmd)))
    BY <1>2, CallsSound
  <1>4. \A n : Notes(Calls(n, <<>>))
    BY AskedGood, Domains, CallsSound
  <1>5. \A n, cmds : Notes(Idle(n)) /\ Notes(Returns(n, cmds))
    BY IdleSound
  <1>6. Notes(d)
    BY <1>1, <1>3, <1>4, <1>5
  <1> QED BY <1>6 DEF d

LEMMA LandingSound ==
    ASSUME NEW m, NEW b, NEW contact, NEW low
    PROVE  Notes(TypedPadLanding(m, b, contact, low))
  <1> DEFINE fly == If(b.safety.armed /\ b.safety.actuators_enabled, <<"Velocity">>)
             land == If(Kind(b) = "Airborne", <<"Land">>)
             down == If(Kind(b) = "Landing", <<"Touchdown">>)
             grounded == pad \cup {"Offboard", "Disarmed", "Disconnected"}
             pads == CASE m.stage = 2 -> down
                       [] m.stage # 2 /\ Kind(b) \in grounded -> <<"Grant">>
                       [] OTHER -> fly
             air == CASE Kind(b) = "Landing" -> fly
                      [] Kind(b) # "Landing" /\ low -> <<"Velocity">>
                      [] Kind(b) = "Takeoff" /\ ~low -> <<"Airborne">>
                      [] OTHER -> land \o fly
             C == CallCmds \ {"Failsafe"}
             d == TypedPadLanding(m, b, contact, low)
             flown == If(m.stage > 0, Asking("drone", air))
  <1>0. /\ "Velocity" \in C /\ "Land" \in C /\ "Touchdown" \in C /\ "Grant" \in C
        /\ "Airborne" \in C
    BY DEF CallCmds
  <1>1. \/ \E n : d = Idle(n)
        \/ \E n, cmds : d = Returns(n, cmds)
        \/ \E n : d = Calls(n, Asking("drone", pads))
        \/ \E n : d = Calls(n, flown)
    BY DEF TypedPadLanding
  <1> HIDE DEF C, d
  <1>2. fly \in Seq(C) /\ land \in Seq(C) /\ down \in Seq(C)
    BY <1>0 DEF If
  <1>3. <<"Velocity">> \in Seq(C) /\ <<"Grant">> \in Seq(C) /\ <<"Airborne">> \in Seq(C)
    BY <1>0
  <1> HIDE DEF fly, land, down, grounded
  <1>4. land \o fly \in Seq(C)
    BY <1>2
  <1>5. pads \in Seq(C)
    BY <1>2, <1>3
  <1>6. air \in Seq(C)
    BY <1>2, <1>3, <1>4
  <1> HIDE DEF pads, air
  <1>7. Asking("drone", pads) \in Seq(GoodCalls) /\ Asking("drone", air) \in Seq(GoodCalls)
    BY <1>5, <1>6, AskingIs, Domains DEF C
  <1>8. flown \in Seq(GoodCalls)
    BY <1>7 DEF If
  <1> HIDE DEF flown
  <1>9. \A n : Notes(Calls(n, flown)) /\ Notes(Calls(n, Asking("drone", pads)))
    BY <1>7, <1>8, CallsSound
  <1>10. \A n, cmds : Notes(Idle(n)) /\ Notes(Returns(n, cmds))
    BY IdleSound
  <1>11. Notes(d)
    BY <1>1, <1>9, <1>10
  <1> QED BY <1>11 DEF d

\* The agents that make no typed call.
LEMMA GivesSound ==
    ASSUME NEW m, NEW seen, NEW b, NEW c, NEW h
    PROVE  /\ Notes(CoastalFleet(m, seen, c)) /\ Notes(RoverProbe(m, b, c))
           /\ Notes(CollisionSweep(m, seen, c, h)) /\ Notes(PadLanding(m, b, c, h))
  <1>0. \A n, cmds : Notes(Idle(n)) /\ Notes(Returns(n, cmds))
    BY IdleSound
  <1>1. \E n, cmds : CoastalFleet(m, seen, c) = Returns(n, cmds)
    BY DEF CoastalFleet
  <1>2. \A x : \E n, cmds : RoverProbe(m, x, c) = Returns(n, cmds)
    BY DEF RoverProbe
  <1>3. \/ \E n : CollisionSweep(m, seen, c, h) = Idle(n)
        \/ \E n, cmds : CollisionSweep(m, seen, c, h) = Returns(n, cmds)
        \/ CollisionSweep(m, seen, c, h) = RoverProbe(m, seen["rover"], c)
    BY DEF CollisionSweep
  <1>4. \/ \E n : PadLanding(m, b, c, h) = Idle(n)
        \/ \E n, cmds : PadLanding(m, b, c, h) = Returns(n, cmds)
    BY DEF PadLanding
  <1> QED BY <1>0, <1>1, <1>2, <1>3, <1>4

LEMMA ScriptSound ==
    ASSUME NEW late, NEW high
    PROVE  Notes(script_tick(body, late, high))
  BY DEF script_tick, Notes, Idle

\* Whatever an agent decides on is calls that a fresh lab can be given, if they
\* are logged.
LEMMA DecisionsSound ==
    ASSUME agent \in Agents, agent # "none", NEW m, NEW seen, Seen(seen), NEW d \in Decisions(m, seen)
    PROVE  Notes(d)
  <1>0. agent \in DOMAIN policies
        \/ agent \in {"TypedFleet", "TypedFleetReturn", "TypedFleetHold", "TypedMarineHold",
                      "CoastalFleet", "RoverProbe", "CollisionSweep", "TypedCollisionSweep",
                      "PadLanding", "TypedPadLanding", "ScriptedCoastal", "research_probe",
                      "mhs_chain"}
    BY DEF Agents
  <1>d. \A a \in {"TypedFleet", "TypedFleetReturn", "TypedFleetHold", "TypedMarineHold",
                  "CoastalFleet", "RoverProbe", "CollisionSweep", "TypedCollisionSweep",
                  "PadLanding", "TypedPadLanding", "ScriptedCoastal", "research_probe",
                  "mhs_chain"} : a \notin DOMAIN policies
    BY DEF policies
  <1> DEFINE D == DOMAIN policies
             follows == Follows(policies[agent], m, seen)
  <1>1. /\ \A c \in BOOLEAN : Notes(TypedFleet(m, seen, c))
        /\ Notes(TypedFleetReturn(m, seen)) /\ Notes(TypedFleetHold(m, seen))
        /\ Notes(TypedMarineHold(m, seen))
    BY FleetSound, FleetReturnSound, FleetHoldSound, MarineHoldSound, Zenon
  <1>2. \A c \in BOOLEAN :
            /\ Notes(CoastalFleet(m, seen, c)) /\ Notes(RoverProbe(m, seen["rover"], c))
            /\ \A h \in BOOLEAN :
                /\ Notes(CollisionSweep(m, seen, c, h)) /\ Notes(PadLanding(m, seen["drone"], c, h))
                /\ Notes(TypedCollisionSweep(m, seen, c, h))
                /\ Notes(TypedPadLanding(m, seen["drone"], c, h))
                /\ Notes(script_tick(body, c, h))
    BY GivesSound, SweepSound, LandingSound, ScriptSound, Zenon
  <1>3. Notes(Idle(m))
    BY IdleSound
  <1>4. agent \in D => Notes(follows)
    BY FollowsSound
  <1>5. \/ agent \in D /\ d = follows
        \/ \E c \in BOOLEAN : d = TypedFleet(m, seen, c)
        \/ d = TypedFleetReturn(m, seen) \/ d = TypedFleetHold(m, seen)
        \/ d = TypedMarineHold(m, seen)
        \/ \E c \in BOOLEAN : d = CoastalFleet(m, seen, c) \/ d = RoverProbe(m, seen["rover"], c)
        \/ \E c, h \in BOOLEAN : \/ d = CollisionSweep(m, seen, c, h)
                                 \/ d = PadLanding(m, seen["drone"], c, h)
                                 \/ d = TypedCollisionSweep(m, seen, c, h)
                                 \/ d = TypedPadLanding(m, seen["drone"], c, h)
                                 \/ d = script_tick(body, c, h)
        \/ d = Idle(m)
    <2> HIDE DEF D, follows
    <2>1. CASE agent \in D
      BY <2>1, <1>d DEF Decisions, D, follows
    <2>2. CASE agent \notin D
      BY <2>2, <1>0 DEF Decisions, D
    <2> QED BY <2>1, <2>2
  <1> HIDE DEF D, follows
  <1> QED BY <1>1, <1>2, <1>3, <1>4, <1>5

-----------------------------------------------------------------------------
(* The fresh lab keeps up with the lab.                                    *)

\* A call that is past its gate was let through on the body as it is.
LetThrough ==
    replay # Unlogged /\ pending.stage = "gated" =>
        /\ ensure_tool_or_attach_grant(body[pending.id], pending.cmd)
        /\ pending.api = "act" => ensure_tool(body[pending.id], pending.cmd)
\* An agent that looks, decides and calls has given no command yet.
Alone ==
    agent # "none" /\ loop.at \in {"idle", "seen", "calling"} => pending = NoCall
Looked == loop.at = "seen" => Seen(loop.seen)
Called == loop.at = "calling" /\ replay # Unlogged => loop.calls \in Seq(GoodCalls)
LoopIs ==
    loop = [at |-> loop.at, seen |-> loop.seen, calls |-> loop.calls, ends |-> loop.ends,
            queue |-> loop.queue, memory |-> loop.memory, disturbed |-> loop.disturbed]
Replays ==
    /\ ReplayReproduces
    /\ agent \in Agents /\ LoopIs
    /\ LetThrough /\ Alone /\ Looked /\ Called

\* The body of a fresh lab is the body of the lab, and so is what becomes of it.
LEMMA Mirrored ==
    ASSUME LabKnown, ReplayReproduces, NEW id, NEW v, NEW log,
           body' = [body EXCEPT ![id] = v], replay' = Logged(replay, id, log),
           id \in Present /\ replay # Unlogged => Replayed(body[id], log) = v /\ log # <<>>
    PROVE  ReplayReproduces'
  <1>1. CASE replay = Unlogged
    BY <1>1 DEF ReplayReproduces, Logged, Unlogged
  <1>2. CASE replay # Unlogged
    <2>1. replay = body
      BY <1>2 DEF ReplayReproduces
    <2>2. CASE id \in Present
      <3>1. replay' = [body EXCEPT ![id] = Replayed(body[id], log)]
        BY <1>2, <2>1, <2>2 DEF Logged, Present
      <3> QED BY <1>2, <2>2, <3>1 DEF ReplayReproduces
    <2>3. CASE id \notin Present
      <3>1. body = [i \in Present |-> body[i]]
        BY DEF LabKnown
      <3>2. \A w : [body EXCEPT ![id] = w] = body
        BY <2>3, <3>1 DEF Present
      <3>3. replay' = replay
        BY <2>1, <3>2 DEF Logged
      <3> QED BY <2>1, <3>2, <3>3 DEF ReplayReproduces
    <2> QED BY <2>2, <2>3
  <1> QED BY <1>1, <1>2

\* A walk, and what it is logged as.
LEMMA WalkMirrored ==
    ASSUME LabKnown, ReplayReproduces, NEW id, NEW ws, NEW log, walk(id, ws, log),
           log # <<>>,
           id \in Present => ws \in Seq(LabWalks(body[id])),
           id \in Present /\ replay # Unlogged /\ try_attach(body[id], ws).error = "none"
              => Replayed(body[id], log) = try_attach(body[id], ws).body
    PROVE  ReplayReproduces'
  <1> DEFINE r == try_attach(body[id], ws)
  <1>1. body' = [body EXCEPT ![id] = r.body]
    BY DEF walk
  <1>2. CASE r.error = "none"
    <2>1. replay' = Logged(replay, id, log)
      BY <1>2 DEF walk
    <2> HIDE DEF r
    <2>2. id \in Present /\ replay # Unlogged => Replayed(body[id], log) = r.body
      BY <1>2 DEF r
    <2> QED BY <1>1, <2>1, <2>2, Mirrored
  <1>3. CASE r.error # "none"
    <2>1. replay' = replay
      BY <1>3 DEF walk
    <2>2. body' = body
      <3>1. body = [i \in Present |-> body[i]] /\ Present \subseteq Id
            /\ \A i \in Present : body[i] \in Known(i)
        BY DEF LabKnown
      <3>2. id \in Present => r.body = body[id]
        BY <1>3, <3>1, CallSpurned
      <3> HIDE DEF r
      <3> QED BY <1>1, <3>1, <3>2 DEF Present
    <2> QED BY <2>1, <2>2 DEF ReplayReproduces
  <1> QED BY <1>2, <1>3

\* The log is never taken up again once no fresh lab is compared.
Dropped == replay = Unlogged => replay' = Unlogged

LEMMA LoggedDropped ==
    ASSUME NEW id, NEW log, replay' = Logged(replay, id, log)
    PROVE  Dropped
  BY DEF Logged, Dropped

LEMMA LogsSome ==
    ASSUME NEW b, NEW cmd
    PROVE  logs(b, cmd) # <<>> /\ note(b, cmd) # <<>>
  <1>1. \A c : logs(b, c) # <<>>
    BY DEF logs
  <1>2. \/ note(b, cmd) = <<"Offboard", "EnableActuators", "Takeoff">>
        \/ note(b, cmd) = logs(b, "Takeoff") \/ note(b, cmd) = <<"Velocity">>
        \/ note(b, cmd) = logs(b, cmd)
    BY DEF note
  <1> QED BY <1>1, <1>2

LEMMA ApplyMirrored ==
    ASSUME LabKnown, ReplayReproduces, LetThrough, apply
    PROVE  ReplayReproduces' /\ pending' = NoCall /\ Dropped
  <1> DEFINE id == pending.id
             cmd == pending.cmd
             b == body[id]
             ws == walks(b, cmd)
             a == apply_action(b, cmd)
  <1>0. Present \subseteq Id /\ \A i \in Present : body[i] \in Known(i)
    BY DEF LabKnown
  <1>a. replay # Unlogged =>
            ensure_tool_or_attach_grant(b, cmd) /\ (pending.api = "act" => ensure_tool(b, cmd))
    BY DEF apply, LetThrough
  <1>b. id \in Present => id \in Id /\ b \in Known(id) /\ b.id = id
    BY <1>0, KnownIs
  <1>1. ASSUME NEW api \in {"act", "attach"}, json(id, cmd, api),
               api = "act" => pending.api = "act", api = "attach" => Binding(b, ws) = {}
        PROVE  ReplayReproduces' /\ pending' = NoCall /\ Dropped
    <2>1. /\ body' = [body EXCEPT ![id] = a.body] /\ pending' = NoCall
          /\ a.error = "none" => replay' = IF api = "act" THEN Unlogged
                                           ELSE Logged(replay, id, <<cmd>>)
          /\ a.error # "none" => replay' = replay
      BY <1>1 DEF json, Returned
    <2>2. Dropped
      BY <2>1, LoggedDropped DEF Dropped
    <2>3. ASSUME replay = Unlogged PROVE ReplayReproduces'
      BY <2>2, <2>3 DEF Dropped, ReplayReproduces
    <2>4. ASSUME replay # Unlogged, id \notin Present PROVE ReplayReproduces'
      <3>1. body = [i \in Present |-> body[i]]
        BY DEF LabKnown
      <3>2. \A v : [body EXCEPT ![id] = v] = body
        BY <2>4, <3>1 DEF Present
      <3>3. body' = body /\ replay = body
        BY <2>1, <2>4, <3>2 DEF ReplayReproduces
      <3>4. replay' \in {replay, Unlogged}
        BY <2>1, <3>2, <3>3 DEF Logged
      <3> QED BY <3>3, <3>4 DEF ReplayReproduces
    <2>5. ASSUME replay # Unlogged, id \in Present PROVE ReplayReproduces'
      <3>1. a.error = "none"
        BY <1>1, <1>a, <1>b, <2>5, JsonTaken
      <3>2. CASE api = "act"
        BY <2>1, <3>1, <3>2 DEF ReplayReproduces
      <3>3. CASE api = "attach"
        <4>1. Replayed(b, <<cmd>>) = a.body
          BY <1>1, <1>a, <2>5, <3>1, <3>3, PostReplayed
        <4>2. replay' = Logged(replay, id, <<cmd>>)
          BY <2>1, <3>1, <3>3
        <4> HIDE DEF a
        <4> QED BY <2>1, <4>1, <4>2, Mirrored
      <3> QED BY <1>1, <3>2, <3>3
    <2> QED BY <2>1, <2>2, <2>3, <2>4, <2>5
  <1>2. CASE pending.api = "act"
    <2>1. json(id, cmd, "act")
      BY <1>2 DEF apply
    <2> QED BY <1>1, <1>2, <2>1
  <1>3. CASE pending.api # "act" /\ Binding(b, ws) = {}
    <2>1. json(id, cmd, "attach")
      BY <1>3 DEF apply
    <2> QED BY <1>1, <1>3, <2>1
  <1>4. CASE pending.api # "act" /\ Binding(b, ws) # {}
    <2>1. walk(id, ws, logs(b, cmd)) /\ pending' = NoCall
      BY <1>4 DEF apply, Returned
    <2>2. logs(b, cmd) # <<>>
      BY LogsSome
    <2>3. id \in Present => ws \in Seq(LabWalks(b))
      BY <1>b, WaysOf
    <2>4. id \in Present /\ replay # Unlogged /\ try_attach(b, ws).error = "none"
            => Replayed(b, logs(b, cmd)) = try_attach(b, ws).body
      BY <1>a, <1>b, GatedReplays
    <2>5. replay' = replay \/ replay' = Logged(replay, id, logs(b, cmd))
      BY <2>1 DEF walk
    <2> HIDE DEF id, cmd, ws
    <2>6. ReplayReproduces'
      BY <2>1, <2>2, <2>3, <2>4, WalkMirrored
    <2> QED BY <2>1, <2>5, <2>6, LoggedDropped DEF Dropped
  <1> QED BY <1>2, <1>3, <1>4

LEMMA CallMirrored ==
    ASSUME LabKnown, ReplayReproduces, Called, call
    PROVE  ReplayReproduces' /\ Dropped
  <1> DEFINE c == Head(loop.calls)
             id == c.id
             cmd == c.cmd
             b == body[id]
             ws == agent_walks(b, cmd)
             log == note(b, cmd)
  <1>0. Present \subseteq Id /\ \A i \in Present : body[i] \in Known(i)
    BY DEF LabKnown
  <1>b. id \in Present => id \in Id /\ b \in Known(id) /\ b.id = id
    BY <1>0, KnownIs
  <1>1. walk(id, ws, log)
    BY DEF call
  <1>2. log # <<>>
    BY LogsSome
  <1>3. id \in Present => ws \in Seq(LabWalks(b))
    BY <1>b, CallsOf
  <1>4. replay # Unlogged => c \in GoodCalls
    <2>1. loop.calls # <<>> /\ (replay # Unlogged => loop.calls \in Seq(GoodCalls))
      BY DEF call, Called
    <2> QED BY <2>1
  <1>5. replay # Unlogged => cmd \in CallCmds /\ (id = "rover" => cmd # "Failsafe")
    <2> HIDE DEF c
    <2> QED BY <1>4 DEF GoodCalls
  <1>6. id \in Present /\ replay # Unlogged /\ try_attach(b, ws).error = "none"
            => Replayed(b, log) = try_attach(b, ws).body
    <2> HIDE DEF c
    <2> QED BY <1>b, <1>5, CallReplays
  <1>7. replay' = replay \/ replay' = Logged(replay, id, log)
    BY <1>1 DEF walk
  <1> HIDE DEF id, ws, log
  <1>8. ReplayReproduces'
    BY <1>1, <1>2, <1>3, <1>6, WalkMirrored
  <1> QED BY <1>7, <1>8, LoggedDropped DEF Dropped

LEMMA StepMirrored ==
    ASSUME ReplayReproduces, step
    PROVE  ReplayReproduces' /\ pending = NoCall /\ pending' = NoCall /\ Dropped
  <1>1. PICK cut \in SUBSET (Cuttable \cap Present) :
          /\ body' = [id \in Present |-> Stepped(body[id], id \in cut)]
          /\ replay' = IF replay = Unlogged THEN replay
                       ELSE [id \in Present |-> Stepped(replay[id], id \in cut)]
    BY DEF step
  <1>2. pending = NoCall /\ pending' = pending
    BY DEF step
  <1>3. CASE replay = Unlogged
    BY <1>1, <1>2, <1>3 DEF ReplayReproduces, Dropped
  <1>4. CASE replay # Unlogged
    <2>1. replay = body
      BY <1>4 DEF ReplayReproduces
    <2> QED BY <1>1, <1>2, <1>4, <2>1 DEF ReplayReproduces, Dropped
  <1> QED BY <1>3, <1>4

LEMMA OthersUnlog ==
    ASSUME others
    PROVE  replay' = Unlogged /\ pending' = pending
  <1>1. ASSUME NEW e, inject(e) PROVE Others
    BY <1>1 DEF inject
  <1>2. ASSUME NEW id, NEW cmd, elsewhere(id, cmd) PROVE Others
    BY <1>2 DEF elsewhere
  <1> QED BY <1>1, <1>2 DEF others, Others

LEMMA GateLets ==
    ASSUME NEW api, NEW id, NEW cmd, gate(api, id, cmd)
    PROVE  LetThrough' /\ UNCHANGED <<body, replay>>
  <1> DEFINE allowed == IF api = "act" THEN ensure_tool(body[id], cmd)
                                       ELSE ensure_tool_or_attach_grant(body[id], cmd)
  <1>1. UNCHANGED <<body, replay>>
    BY DEF gate
  <1>2. CASE id \in Present /\ allowed
    <2>1. pending' = Call("gated", api, id, cmd)
      BY <1>2 DEF gate
    <2>2. pending'.api = api /\ pending'.id = id /\ pending'.cmd = cmd
      BY <2>1 DEF Call
    <2>3. /\ ensure_tool_or_attach_grant(body[id], cmd)
          /\ api = "act" => ensure_tool(body[id], cmd)
      BY <1>2 DEF ensure_tool_or_attach_grant
    <2> HIDE DEF allowed
    <2> QED BY <1>1, <2>2, <2>3 DEF LetThrough
  <1>3. CASE ~(id \in Present /\ allowed)
    <2>1. pending' = NoCall
      BY <1>3 DEF gate, Returned
    <2> QED BY <1>1, <2>1 DEF LetThrough, NoCall
  <1> QED BY <1>2, <1>3

LEMMA PreviewLets ==
    ASSUME NEW req, preview(req)
    PROVE  LetThrough' /\ UNCHANGED <<body, replay>> /\ pending = NoCall
  <1>1. UNCHANGED <<body, replay>> /\ pending = NoCall
    BY DEF preview
  <1>2. pending' = to_action(req) \/ pending' = NoCall
    BY DEF preview, Returned
  <1>3. pending'.stage \in {"previewed", "none"}
    BY <1>2 DEF to_action, Call, NoCall
  <1> QED BY <1>1, <1>3 DEF LetThrough

\* What no call can disturb: nothing moves, and no call is let through.
LEMMA StillMirrored ==
    ASSUME ReplayReproduces, LetThrough, UNCHANGED <<body, replay>>,
           pending' = pending \/ pending' = NoCall
    PROVE  ReplayReproduces' /\ LetThrough' /\ Dropped
  BY DEF ReplayReproduces, LetThrough, NoCall, Dropped

\* What a step of the project's does to the logs and to the calls.
Mirrors == ReplayReproduces' /\ LetThrough' /\ Dropped

LEMMA AppliedMirrors ==
    ASSUME LabKnown, Replays, applied
    PROVE  /\ Mirrors /\ agent' = agent /\ pending # NoCall
           /\ loop' = loop \/ Continue(FALSE)
  <1>0. /\ agent' = agent /\ (loop' = loop \/ Continue(FALSE))
        /\ ReplayReproduces /\ LetThrough
    BY DEF applied, Replays
  <1>1. CASE write
    <2>1. gate("write", pending.id, pending.cmd) /\ pending # NoCall
      BY <1>1 DEF write, NoCall
    <2>2. LetThrough' /\ UNCHANGED <<body, replay>>
      BY <2>1, GateLets
    <2> QED BY <1>0, <2>1, <2>2 DEF Mirrors, ReplayReproduces, Dropped
  <1>2. CASE apply
    <2>1. ReplayReproduces' /\ pending' = NoCall /\ Dropped
      BY <1>0, <1>2, ApplyMirrored
    <2>2. LetThrough' /\ pending # NoCall
      BY <1>2, <2>1 DEF LetThrough, NoCall, apply
    <2> QED BY <1>0, <2>1, <2>2 DEF Mirrors
  <1> QED BY <1>1, <1>2 DEF applied, called

LEMMA AskedMirrors ==
    ASSUME ReplayReproduces, asked
    PROVE  Mirrors
  <1>1. LetThrough' /\ UNCHANGED <<body, replay>>
    <2>1. ASSUME NEW api, NEW id, NEW cmd, begin(api, id, cmd)
          PROVE  LetThrough' /\ UNCHANGED <<body, replay>>
      BY <2>1, GateLets DEF begin
    <2>2. ASSUME NEW req, preview(req) PROVE LetThrough' /\ UNCHANGED <<body, replay>>
      BY <2>2, PreviewLets
    <2> QED BY <2>1, <2>2 DEF asked
  <1> QED BY <1>1 DEF Mirrors, ReplayReproduces, Dropped

LEMMA StepMirrors ==
    ASSUME ReplayReproduces, step
    PROVE  Mirrors /\ pending = NoCall /\ pending' = NoCall
  <1>1. ReplayReproduces' /\ pending = NoCall /\ pending' = NoCall /\ Dropped
    BY StepMirrored
  <1>2. LetThrough'
    BY <1>1 DEF LetThrough, NoCall
  <1> QED BY <1>1, <1>2 DEF Mirrors

LEMMA OthersMirror ==
    ASSUME others
    PROVE  Mirrors /\ replay' = Unlogged /\ pending' = pending
  <1>1. replay' = Unlogged /\ pending' = pending
    BY OthersUnlog
  <1> QED BY <1>1 DEF Mirrors, ReplayReproduces, LetThrough, Dropped

\* A step that leaves the loop as it is, or only its queue.
LEMMA LoopStays ==
    ASSUME Replays, agent' = agent, Dropped, NEW q, NEW x,
           loop' = [loop EXCEPT !.queue = q, !.disturbed = x],
           \/ pending' = pending \/ pending # NoCall \/ agent = "none"
           \/ loop.at \notin {"idle", "seen", "calling"}
    PROVE  agent' \in Agents /\ LoopIs' /\ Alone' /\ Looked' /\ Called'
  <1>1. LoopIs
    BY DEF Replays
  <1>2. /\ loop'.at = loop.at /\ loop'.seen = loop.seen /\ loop'.calls = loop.calls /\ LoopIs'
    BY <1>1 DEF LoopIs
  <1>3. Alone'
    BY <1>2 DEF Replays, Alone
  <1>4. Looked'
    BY <1>2 DEF Replays, Looked, Seen
  <1>5. Called'
    BY <1>2 DEF Replays, Called, Dropped
  <1> QED BY <1>2, <1>3, <1>4, <1>5 DEF Replays

\* A step of an experiment.
LEMMA LoopKept ==
    ASSUME Replays, LabKnown, agent # "none", agent' = agent, LoopIs',
           loop'.at \in {"idle", "seen", "calling"} => pending' = NoCall,
           loop'.at = "seen" => Seen(loop'.seen),
           loop'.at = "calling" /\ replay' # Unlogged => loop'.calls \in Seq(GoodCalls)
    PROVE  agent' \in Agents /\ LoopIs' /\ Alone' /\ Looked' /\ Called'
  BY DEF Replays, Alone, Looked, Called

LEMMA ObserveReplays ==
    ASSUME LabKnown, Replays, agent # "none", observe
    PROVE  Replays'
  <1>1. /\ loop' = [loop EXCEPT !.at = "seen", !.seen = body]
        /\ UNCHANGED <<body, pending, replay, agent>> /\ loop.at = "idle"
    BY DEF observe
  <1>2. LoopIs' /\ loop'.at = "seen" /\ loop'.seen = body
    BY <1>1 DEF Replays, LoopIs
  <1>3. Seen(body)
    <2>1. Present \subseteq Id /\ \A i \in Present : body[i] \in Known(i)
      BY DEF LabKnown
    <2>2. \A i \in Present : body[i].id = i
      BY <2>1, KnownIs
    <2> QED BY <2>1, <2>2 DEF Seen, Present
  <1>4. pending' = NoCall
    BY <1>1 DEF Replays, Alone
  <1>5. agent' \in Agents /\ LoopIs' /\ Alone' /\ Looked' /\ Called'
    BY <1>1, <1>2, <1>3, <1>4, LoopKept
  <1>6. ReplayReproduces' /\ LetThrough'
    BY <1>1, StillMirrored DEF Replays
  <1> QED BY <1>5, <1>6 DEF Replays

LEMMA DecideReplays ==
    ASSUME LabKnown, Replays, agent # "none", decide
    PROVE  Replays'
  <1>1. PICK d \in Decisions(loop.memory, loop.seen) :
          /\ loop' = [loop EXCEPT !.at = "calling", !.seen = <<>>, !.calls = d.calls,
                               !.ends = d.ends, !.queue = d.returns, !.memory = d.memory]
          /\ replay' = IF d.logged THEN replay ELSE Unlogged
    BY DEF decide
  <1>2. UNCHANGED <<body, pending, agent>> /\ loop.at = "seen"
    BY DEF decide
  <1>3. LoopIs' /\ loop'.at = "calling" /\ loop'.calls = d.calls
    BY <1>1 DEF Replays, LoopIs
  <1>4. pending' = NoCall
    BY <1>2 DEF Replays, Alone
  <1>5. Notes(d)
    <2>1. Seen(loop.seen) /\ agent \in Agents
      BY <1>2 DEF Replays, Looked
    <2> QED BY <2>1, DecisionsSound
  <1>6. replay' # Unlogged => loop'.calls \in Seq(GoodCalls)
    BY <1>1, <1>3, <1>5 DEF Notes
  <1>7. agent' \in Agents /\ LoopIs' /\ Alone' /\ Looked' /\ Called'
    BY <1>2, <1>3, <1>4, <1>6, LoopKept
  <1>8. ReplayReproduces' /\ LetThrough'
    BY <1>1, <1>2, <1>4 DEF Replays, ReplayReproduces, LetThrough, NoCall
  <1> QED BY <1>7, <1>8 DEF Replays

LEMMA CallReproduces ==
    ASSUME LabKnown, Replays, agent # "none", call
    PROVE  Replays'
  <1>1. /\ loop.at = "calling" /\ loop.calls # <<>> /\ UNCHANGED <<pending, agent>>
        /\ \E m : loop' = [loop EXCEPT !.calls = Tail(@), !.memory.done = m]
    BY DEF call
  <1>2. LoopIs' /\ loop'.at = "calling" /\ loop'.calls = Tail(loop.calls)
    BY <1>1 DEF Replays, LoopIs
  <1>3. ReplayReproduces' /\ Dropped
    BY CallMirrored DEF Replays
  <1>4. pending' = NoCall
    BY <1>1 DEF Replays, Alone
  <1>5. replay' # Unlogged => loop'.calls \in Seq(GoodCalls)
    <2>1. replay' # Unlogged => loop.calls \in Seq(GoodCalls)
      BY <1>1, <1>3 DEF Replays, Called, Dropped
    <2> QED BY <1>1, <1>2, <2>1
  <1>6. agent' \in Agents /\ LoopIs' /\ Alone' /\ Looked' /\ Called'
    BY <1>1, <1>2, <1>4, <1>5, LoopKept
  <1>7. LetThrough'
    BY <1>4 DEF LetThrough, NoCall
  <1> QED BY <1>3, <1>6, <1>7 DEF Replays

\* The loop goes on, and nothing is called.
LEMMA TurnReplays ==
    ASSUME LabKnown, Replays, agent # "none",
           return \/ give \/ probe_failsafe_hold \/ abuse \/ research_step \/ broken
    PROVE  Replays'
  <1>0. ReplayReproduces /\ LetThrough /\ LoopIs
    BY DEF Replays
  <1>1. ASSUME return \/ probe_failsafe_hold \/ abuse \/ broken
        PROVE  /\ UNCHANGED <<body, replay, agent, pending>> /\ LoopIs'
               /\ loop'.at \in {"returned", "probed", "broken"}
    BY <1>0, <1>1 DEF return, probe_failsafe_hold, abuse, broken, LoopIs
  <1>2. ASSUME give
        PROVE  /\ Mirrors /\ agent' = agent /\ LoopIs' /\ loop'.at \in {"returned", "illegal"}
    <2>1. \E api, id, cmd : gate(api, id, cmd)
      BY <1>2 DEF give, begin
    <2>2. LetThrough' /\ UNCHANGED <<body, replay>>
      BY <2>1, GateLets
    <2>3. agent' = agent /\ LoopIs' /\ loop'.at \in {"returned", "illegal"}
      BY <1>0, <1>2 DEF give, LoopIs
    <2> QED BY <1>0, <2>2, <2>3 DEF Mirrors, ReplayReproduces, Dropped
  <1>3. ASSUME research_step
        PROVE  Mirrors /\ pending' = NoCall /\ agent' = agent /\ LoopIs' /\ loop'.at = "idle"
    <2>1. step /\ agent' = agent /\ loop' = [loop EXCEPT !.at = "idle"]
      BY <1>3 DEF research_step
    <2>2. LoopIs' /\ loop'.at = "idle"
      BY <1>0, <2>1 DEF LoopIs
    <2> QED BY <1>0, <2>1, <2>2, StepMirrors
  <1>4. CASE return \/ probe_failsafe_hold \/ abuse \/ broken
    <2>1. ReplayReproduces' /\ LetThrough'
      BY <1>0, <1>1, <1>4, StillMirrored
    <2>2. agent' \in Agents /\ LoopIs' /\ Alone' /\ Looked' /\ Called'
      BY <1>1, <1>4, LoopKept
    <2> QED BY <2>1, <2>2 DEF Replays
  <1>5. CASE give
    <2>1. agent' \in Agents /\ LoopIs' /\ Alone' /\ Looked' /\ Called'
      BY <1>2, <1>5, LoopKept
    <2> QED BY <1>2, <1>5, <2>1 DEF Replays, Mirrors
  <1>6. CASE research_step
    <2>1. agent' \in Agents /\ LoopIs' /\ Alone' /\ Looked' /\ Called'
      BY <1>3, <1>6, LoopKept
    <2> QED BY <1>3, <1>6, <2>1 DEF Replays, Mirrors
  <1> QED BY <1>4, <1>5, <1>6

LEMMA ChainReplays ==
    ASSUME LabKnown, Replays, agent # "none", mhs_tool
    PROVE  Replays'
  <1>0. ReplayReproduces /\ LetThrough /\ LoopIs
    BY DEF Replays
  <1>1. agent' = agent /\ loop'.at = "chain" /\ LoopIs'
    BY <1>0 DEF mhs_tool, run_chain, chain_write, chain_read, chain_step, mhs_open, NextOp,
                Continue, LoopIs
  <1>2. agent' \in Agents /\ LoopIs' /\ Alone' /\ Looked' /\ Called'
    BY <1>1, LoopKept
  <1>3. ReplayReproduces' /\ LetThrough'
    <2>1. CASE run_chain \/ chain_read
      <3>1. UNCHANGED <<body, pending, replay>>
        BY <2>1 DEF run_chain, chain_read
      <3> QED BY <1>0, <3>1, StillMirrored
    <2>2. CASE chain_write
      <3>1. preview(Head(loop.queue))
        BY <2>2 DEF chain_write
      <3>2. LetThrough' /\ UNCHANGED <<body, replay>>
        BY <3>1, PreviewLets
      <3> QED BY <1>0, <3>2 DEF ReplayReproduces
    <2>3. CASE chain_step
      BY <1>0, <2>3, StepMirrors DEF chain_step, Mirrors
    <2>4. CASE mhs_open
      <3>1. replay' = body' /\ pending' = NoCall
        BY <2>4 DEF mhs_open
      <3> QED BY <3>1 DEF ReplayReproduces, LetThrough, NoCall
    <2> QED BY <2>1, <2>2, <2>3, <2>4 DEF mhs_tool
  <1> QED BY <1>2, <1>3 DEF Replays

LEMMA ReplaysKept ==
    ASSUME LabKnown, Replays, [ResearchNext]_rvars
    PROVE  Replays'
  <1>0. ReplayReproduces /\ LetThrough /\ LoopIs
    BY DEF Replays
  <1>1. CASE applied
    <2>1. /\ Mirrors /\ agent' = agent /\ pending # NoCall
          /\ loop' = loop \/ Continue(FALSE)
      BY <1>1, AppliedMirrors
    <2>2. \E q : loop' = [loop EXCEPT !.queue = q, !.disturbed = loop.disturbed]
      <3>1. CASE loop' = loop
        <4>1. loop' = [loop EXCEPT !.queue = loop.queue, !.disturbed = loop.disturbed]
          BY <1>0, <3>1 DEF LoopIs
        <4> QED BY <4>1
      <3>2. CASE Continue(FALSE)
        <4>1. loop' = [loop EXCEPT !.queue = <<>>, !.disturbed = loop.disturbed]
          BY <1>0, <3>2 DEF LoopIs, Continue
        <4> QED BY <4>1
      <3> QED BY <2>1, <3>1, <3>2
    <2>3. agent' \in Agents /\ LoopIs' /\ Alone' /\ Looked' /\ Called'
      BY <2>1, <2>2, LoopStays DEF Mirrors
    <2> QED BY <2>1, <2>3 DEF Replays, Mirrors
  <1>2. CASE disturb
    <2>1. others /\ agent' = agent /\ loop' = IF agent = "none" THEN loop
                                               ELSE [loop EXCEPT !.disturbed = TRUE]
      BY <1>2 DEF disturb
    <2>2. Mirrors /\ pending' = pending
      BY <2>1, OthersMirror
    <2>3. \E x : loop' = [loop EXCEPT !.queue = loop.queue, !.disturbed = x]
      <3>1. CASE agent = "none"
        <4>1. loop' = [loop EXCEPT !.queue = loop.queue, !.disturbed = loop.disturbed]
          BY <1>0, <2>1, <3>1 DEF LoopIs
        <4> QED BY <4>1
      <3>2. CASE agent # "none"
        <4>1. loop' = [loop EXCEPT !.queue = loop.queue, !.disturbed = TRUE]
          BY <1>0, <2>1, <3>2 DEF LoopIs
        <4> QED BY <4>1
      <3> QED BY <3>1, <3>2
    <2>4. agent' \in Agents /\ LoopIs' /\ Alone' /\ Looked' /\ Called'
      BY <2>1, <2>2, <2>3, LoopStays DEF Mirrors
    <2> QED BY <2>2, <2>4 DEF Replays, Mirrors
  <1>3. CASE stopped \/ UNCHANGED rvars
    <2>1. UNCHANGED <<body, pending, replay, agent, loop>>
      BY <1>3 DEF stopped, rvars, vars
    <2>2. ReplayReproduces' /\ LetThrough' /\ Dropped
      BY <1>0, <2>1, StillMirrored
    <2>3. agent' \in Agents /\ LoopIs' /\ Alone' /\ Looked' /\ Called'
      BY <2>1 DEF Replays, LoopIs, Alone, Looked, Seen, Called
    <2> QED BY <2>2, <2>3 DEF Replays
  <1>4. CASE agent = "none" /\ bare
    <2>1. /\ asked \/ step \/ \E id \in Present : bind(id)
          /\ UNCHANGED <<agent, loop>>
      BY <1>4 DEF bare
    <2>2. Mirrors
      <3>1. CASE asked
        BY <1>0, <3>1, AskedMirrors
      <3>2. CASE step
        BY <1>0, <3>2, StepMirrors
      <3>3. CASE \E id \in Present : bind(id)
        <4>1. UNCHANGED <<body, pending, replay>>
          BY <3>3 DEF bind
        <4> QED BY <1>0, <4>1, StillMirrored DEF Mirrors
      <3> QED BY <2>1, <3>1, <3>2, <3>3
    <2>3. loop' = [loop EXCEPT !.queue = loop.queue, !.disturbed = loop.disturbed]
      BY <1>0, <2>1 DEF LoopIs
    <2>4. agent' \in Agents /\ LoopIs' /\ Alone' /\ Looked' /\ Called'
      BY <1>4, <2>1, <2>2, <2>3, LoopStays DEF Mirrors
    <2> QED BY <2>2, <2>4 DEF Replays, Mirrors
  <1>5. CASE agent # "none" /\ research
    <2>1. \/ observe \/ decide \/ call \/ mhs_tool
          \/ return \/ give \/ probe_failsafe_hold \/ abuse \/ research_step \/ broken
      BY <1>5 DEF research
    <2> QED BY <1>5, <2>1, ObserveReplays, DecideReplays, CallReproduces, TurnReplays, ChainReplays
  <1> QED BY <1>1, <1>2, <1>3, <1>4, <1>5 DEF ResearchNext

LEMMA ReplaysStart ==
    ASSUME ResearchInit
    PROVE  Replays
  <1>1. PICK e \in Experiments :
          /\ agent = e.agent
          /\ loop = CASE e.agent = "research_probe" ->
                            [Start EXCEPT !.at = "illegal", !.queue = illegal_catalog]
                      [] e.agent = "mhs_chain" -> [Start EXCEPT !.at = "chain"]
                      [] OTHER -> Start
    BY DEF ResearchInit
  <1>2. replay = body /\ pending = NoCall
    BY DEF ResearchInit, Init
  <1>3. agent \in Agents
    BY <1>1, ExperimentsAssumption
  <1>4. LoopIs /\ loop.at \in {"illegal", "chain", "idle"}
    <2>1. \/ loop = [Start EXCEPT !.at = "illegal", !.queue = illegal_catalog]
          \/ loop = [Start EXCEPT !.at = "chain"]
          \/ loop = Start
      BY <1>1
    <2>2. CASE loop = [Start EXCEPT !.at = "illegal", !.queue = illegal_catalog]
      BY <2>2 DEF LoopIs, Start
    <2>3. CASE loop = [Start EXCEPT !.at = "chain"]
      BY <2>3 DEF LoopIs, Start
    <2>4. CASE loop = Start
      BY <2>4 DEF LoopIs, Start
    <2> QED BY <2>1, <2>2, <2>3, <2>4
  <1> QED BY <1>2, <1>3, <1>4
        DEF Replays, ReplayReproduces, LetThrough, NoCall, Alone, Looked, Called

\* A fresh lab that is given the log of a lab leaves every body as it is in the
\* lab, whichever agent made the calls, while only calls that are logged have
\* moved it (lab.rs push_log, replay_until; research/mod.rs).
THEOREM LabReplays == ResearchSpec => []ReplayReproduces
  <1>1. ResearchInit => Replays
    BY ReplaysStart
  <1>2. LabKnown /\ Replays /\ [ResearchNext]_rvars => Replays'
    BY ReplaysKept
  <1>3. Replays => ReplayReproduces
    BY DEF Replays
  <1> QED BY <1>1, <1>2, <1>3, LabInvariant, PTL DEF ResearchSpec

-----------------------------------------------------------------------------
(* Commands that bounce: what an agent tries first, and the catalog of the *)
(* probe.                                                                  *)

\* A command whose events are refused is let through by neither gate.
LEMMA Unlisted ==
    ASSUME NEW b, NEW cmd, cmd \notin ENV, Posted(b, events(b)[cmd]).error # "none"
    PROVE  ~ensure_tool(b, cmd) /\ (cmd # "Takeoff" => ~ensure_tool_or_attach_grant(b, cmd))
  BY DEF ensure_tool, on_legal_list, accepted_by, ensure_tool_or_attach_grant,
         attach_takeoff_grant

LEMMA OneUnlisted ==
    ASSUME NEW b, NEW e, ~Admits(b, e)
    PROVE  Posted(b, <<e>>).error # "none"
  <1>1. Fresh(b).error = "none" /\ Fresh(b).body = b
    BY DEF Fresh
  <1>2. Given(Fresh(b), e) = [Fresh(b) EXCEPT !.error = "Rejected"]
    BY <1>1, GivenRejected
  <1> QED BY <1>2, PostedOne DEF Fresh

\* A drone that is not armed takes no mission.
LEMMA MissionUnlisted ==
    ASSUME NEW b \in Known("drone"), ~b.safety.armed
    PROVE  Posted(b, mission).error # "none"
  <1> DEFINE x == Post(b, "HeartbeatFresh")
  <1>0. "drone" \in Id
    BY Domains
  <1>1. /\ Admits(b, "HeartbeatFresh") /\ x \in Known("drone") /\ ~x.safety.armed
    <2>1. b.safety \in Air!SafetyState
      BY <1>0, KnownIs DEF Piloted
    <2> QED BY <2>1, Freshened DEF Air!SafetyState
  <1>2. Given(Fresh(b), "HeartbeatFresh") = Fresh(x)
    BY <1>1, GivenTaken
  <1>3. ~Admits(x, "MissionCommand")
    <2>1. Domain(x.id) = "aerial"
      BY <1>0, <1>1, KnownIs, Domains
    <2> HIDE DEF x
    <2> QED BY <1>1, <2>1 DEF Admits, Air!Admits, Air!NeedsArmed
  <1> HIDE DEF x
  <1>4. Fresh(x).error = "none" /\ Fresh(x).body = x
    BY DEF Fresh
  <1>5. Given(Fresh(x), "MissionCommand") = [Fresh(x) EXCEPT !.error = "Rejected"]
    BY <1>3, <1>4, GivenRejected
  <1>6. Posted(b, <<"HeartbeatFresh", "MissionCommand">>).error # "none"
    BY <1>2, <1>5, PostedTwo DEF Fresh
  <1> QED BY <1>6 DEF mission

\* A vehicle that was failed safe takes no mission, whatever state it was in.
LEMMA FailsafeSpurnsMission ==
    ASSUME NEW b \in Known("drone"), Posted(b, <<"TriggerFailsafe">>).error = "none"
    PROVE  Posted(Posted(b, <<"TriggerFailsafe">>).body, mission).error # "none"
  <1> DEFINE f == Post(b, "TriggerFailsafe")
             x == Post(f, "HeartbeatFresh")
  <1>0. /\ "drone" \in Id /\ Domain("drone") = "aerial" /\ "TriggerFailsafe" \in Told("drone")
        /\ b.id = "drone" /\ b.safety \in Piloted
    BY Domains, MeekAre, KnownIs
  <1>1. Admits(b, "TriggerFailsafe")
    BY OneUnlisted
  <1>2. f \in Known("drone") /\ f.safety = After(b, "TriggerFailsafe") /\ f.id = "drone"
    BY <1>0, <1>1, KnownPost
  <1>3. Posted(b, <<"TriggerFailsafe">>).body = f
    <2>1. Given(Fresh(b), "TriggerFailsafe") = Fresh(f)
      BY <1>1, GivenTaken
    <2>2. Posted(b, <<"TriggerFailsafe">>) = Fresh(f)
      BY <2>1, PostedOne
    <2> QED BY <2>2 DEF Fresh
  <1>4. f.safety.failsafe
    <2>1. f.safety = Air!EnterFailsafe(b.safety)
      <3> HIDE DEF f
      <3> QED BY <1>0, <1>2 DEF After, Air!After
    <2> QED BY <1>0, <2>1 DEF Air!EnterFailsafe, Piloted, Air!SafetyState
  <1> HIDE DEF f
  <1>5. /\ Admits(f, "HeartbeatFresh") /\ x \in Known("drone")
        /\ x.safety = [f.safety EXCEPT !.offboard_heartbeat_fresh = TRUE]
    BY <1>2, Freshened
  <1>6. x.safety.failsafe
    <2>1. f.safety \in Air!SafetyState
      BY <1>0, <1>2, KnownIs DEF Piloted
    <2> QED BY <1>4, <1>5, <2>1 DEF Air!SafetyState
  <1>7. Given(Fresh(f), "HeartbeatFresh") = Fresh(x)
    BY <1>5, GivenTaken
  <1>8. ~Admits(x, "MissionCommand")
    <2>1. Domain(x.id) = "aerial"
      BY <1>0, <1>5, KnownIs
    <2> HIDE DEF x
    <2> QED BY <1>6, <2>1 DEF Admits, Air!Admits, Air!Latched
  <1> HIDE DEF x
  <1>9. Fresh(x).error = "none" /\ Fresh(x).body = x
    BY DEF Fresh
  <1>10. Given(Fresh(x), "MissionCommand") = [Fresh(x) EXCEPT !.error = "Rejected"]
    BY <1>8, <1>9, GivenRejected
  <1>11. Posted(f, <<"HeartbeatFresh", "MissionCommand">>).error # "none"
    BY <1>7, <1>10, PostedTwo DEF Fresh
  <1> QED BY <1>3, <1>11 DEF mission

\* The copy of the lab that probe_failsafe_hold commands refuses the hold.
LEMMA FailsafeHoldBounces ==
    ASSUME NEW b \in Known("drone"), acting(b, "Failsafe").error = "none"
    PROVE  acting(acting(b, "Failsafe").body, "Hold").error # "none"
  <1> DEFINE r == Posted(b, <<"TriggerFailsafe">>)
             h == Posted(r.body, mission)
  <1>0. /\ "drone" \in Id /\ Domain("drone") = "aerial" /\ "TriggerFailsafe" \in Told("drone")
        /\ b.id = "drone" /\ "Failsafe" \notin ENV /\ "Hold" \notin ENV
    BY Domains, MeekAre, KnownIs DEF ENV
  <1>1. ensure_tool(b, "Failsafe") /\ acting(b, "Failsafe") = apply_action(b, "Failsafe")
    BY DEF acting
  <1>2. events(b) = aerial_events(b) /\ events(b)["Failsafe"] = <<"TriggerFailsafe">>
        /\ "Failsafe" \in DOMAIN events(b)
    BY <1>0, AirEventsAre DEF events
  <1>3. r.error = "none"
    BY <1>0, <1>1, <1>2 DEF ensure_tool, on_legal_list, accepted_by
  <1>4. r.body \in Known("drone")
    <2>1. <<"TriggerFailsafe">> \in Seq(Told("drone"))
      BY <1>0
    <2> QED BY <1>0, <2>1, KnownPosted
  <1>5. h.error # "none"
    BY <1>3, FailsafeSpurnsMission
  <1> HIDE DEF h
  <1>6. acting(b, "Failsafe").body = r.body
    <2>1. apply_action(b, "Failsafe") = [r EXCEPT !.body = Commanded(@, "Failsafe")]
      BY <1>0, <1>2, <1>3 DEF apply_action
    <2>2. Commanded(r.body, "Failsafe") = r.body
      BY DEF Commanded
    <2>3. r = [body |-> r.body, error |-> r.error]
      <3>1. <<"TriggerFailsafe">> \in Seq(Told("drone"))
        BY <1>0
      <3> QED BY <1>0, <3>1, KnownPosted
    <2> QED BY <1>1, <2>1, <2>2, <2>3
  <1> HIDE DEF r
  <1>7. events(r.body)["Hold"] = mission
    <2>1. r.body.id = "drone"
      BY <1>0, <1>4, KnownIs
    <2> QED BY <1>0, <2>1, AirEventsAre DEF events
  <1>8. ~ensure_tool(r.body, "Hold")
    BY <1>0, <1>5, <1>7, Unlisted DEF h
  <1> QED BY <1>6, <1>8 DEF acting

LEMMA LandEventsAre ==
    ASSUME NEW b, b.id = "rover"
    PROVE  /\ events(b)["Drive"] = <<"DriveCommand">> /\ events(b)["Hold"] = <<"DriveCommand">>
           /\ events(b)["Halt"] = <<"Halt">>
  <1>1. events(b) = ground_events
    BY Domains DEF events
  <1> QED BY <1>1 DEF ground_events

LEMMA SeaEventsAre ==
    ASSUME NEW b, b.id \in {"skiff", "surveyor"}
    PROVE  /\ events(b)["Thrust"] = <<"ThrustCommand">> /\ events(b)["Hold"] = <<"ThrustCommand">>
           /\ events(b)["Station"] = <<"Station">>
  <1>1. events(b) = marine_events
    BY Domains DEF events
  <1> QED BY <1>1 DEF marine_events

\* What a probe asks of a body that is not granted.
LEMMA ProbeBounces ==
    ASSUME NEW id \in Id, NEW b \in Known(id), Ungranted(b)
    PROVE  ~ensure_tool_or_attach_grant(b, Probe(id)) /\ Probe(id) \in CallCmds
  <1>0. b.id = id
    BY KnownIs
  <1>e. {"Velocity", "Drive", "Thrust"} \cap ENV = {}
    BY DEF ENV
  <1>1. CASE id = "drone"
    <2>1. Probe(id) = "Velocity" /\ ~b.safety.armed /\ b \in Known("drone")
      BY <1>0, <1>1, Domains DEF Probe, Ungranted
    <2>2. events(b)["Velocity"] = mission
      BY <1>0, <1>1, AirEventsAre, Domains DEF events
    <2>3. Posted(b, events(b)["Velocity"]).error # "none"
      BY <2>1, <2>2, MissionUnlisted
    <2> QED BY <1>e, <2>1, <2>3, Unlisted DEF CallCmds
  <1>2. CASE id = "rover"
    <2>1. Probe(id) = "Drive" /\ ~b.safety.drive_enabled
      BY <1>0, <1>2, Domains DEF Probe, Ungranted
    <2>2. ~Admits(b, "DriveCommand")
      BY <1>0, <1>2, <2>1, Domains DEF Admits, Land!Admits
    <2>3. Posted(b, events(b)["Drive"]).error # "none"
      BY <1>0, <1>2, <2>2, LandEventsAre, OneUnlisted
    <2> QED BY <1>e, <2>1, <2>3, Unlisted DEF CallCmds
  <1>3. CASE id \in {"skiff", "surveyor"}
    <2>1. Probe(id) = "Thrust" /\ ~b.safety.thrust_enabled
      BY <1>0, <1>3, Domains DEF Probe, Ungranted
    <2>2. ~Admits(b, "ThrustCommand")
      BY <1>0, <1>3, <2>1, Domains DEF Admits, Sea!Admits
    <2>3. Posted(b, events(b)["Thrust"]).error # "none"
      BY <1>0, <1>3, <2>2, SeaEventsAre, OneUnlisted
    <2> QED BY <1>e, <2>1, <2>3, Unlisted DEF CallCmds
  <1> QED BY <1>1, <1>2, <1>3, Domains

\* A body at rest is not granted.
LEMMA RestingUngranted ==
    ASSUME NEW id \in Id, NEW b \in Known(id), Resting(b)
    PROVE  Ungranted(b)
  <1>0. b.id = id
    BY KnownIs
  <1>1. CASE id = "drone"
    <2>1. b.safety \in Piloted /\ Kind(b) = Air!aerial_kind(b.safety) /\ Domain(b.id) = "aerial"
      BY <1>0, <1>1, KnownIs, KnownKinds, Domains
    <2>2. Air!aerial_kind(b.safety) \in {"PreflightReady", "Parked", "Docked"}
      BY <2>1 DEF Resting
    <2>3. b.safety.phase \in Air!Phase
      BY <2>1 DEF Piloted, Air!SafetyState
    <2>4. b.safety.phase = "Ready"
      BY <2>2, <2>3 DEF Air!aerial_kind, Air!Phase
    <2>5. ~b.safety.armed
      BY <2>1, <2>4 DEF Piloted, Air!InFlight
    <2> QED BY <2>1, <2>5 DEF Ungranted
  <1>2. CASE id = "rover"
    <2>1. b.safety \in Land!GroundState /\ Kind(b) = Land!ground_kind(b.safety)
          /\ Domain(b.id) = "ground"
      BY <1>0, <1>2, KnownIs, Domains DEF Kind
    <2>2. Kind(b) = "Parked"
      BY <1>0, <1>2, KnownKinds DEF Resting
    <2>3. b.safety.phase = "Parked" /\ ~b.safety.estop
      BY <2>1, <2>2 DEF Land!ground_kind, Land!GroundState, Land!GroundPhase
    <2>4. ~b.safety.drive_enabled
      BY <2>1, <2>3 DEF Land!GroundState, Land!ground_invariants
    <2> QED BY <2>1, <2>3, <2>4 DEF Ungranted
  <1>3. CASE id \in {"skiff", "surveyor"}
    <2>1. b.safety \in Sea!MarineState /\ Kind(b) = Sea!marine_kind(b.safety)
          /\ Domain(b.id) = "marine"
      BY <1>0, <1>3, KnownIs, Domains DEF Kind
    <2>2. Kind(b) = "Docked"
      BY <1>0, <1>3, KnownKinds DEF Resting
    <2>3. b.safety.phase = "Docked" /\ ~b.safety.failsafe
      BY <2>1, <2>2 DEF Sea!marine_kind
    <2>4. ~b.safety.thrust_enabled
      BY <2>1, <2>3 DEF Sea!MarineState, Sea!marine_invariants
    <2> QED BY <2>1, <2>3, <2>4 DEF Ungranted
  <1> QED BY <1>1, <1>2, <1>3, Domains

\* What is asked of one body, as calls of a set.
LEMMA AskingWithin ==
    ASSUME NEW id, NEW S, NEW C, \A c \in C : Call_(id, c) \in S, NEW cmds \in Seq(C)
    PROVE  Asking(id, cmds) \in Seq(S)
  <1>1. \A i \in 1..Len(cmds) : Call_(id, cmds[i]) \in S
    OBVIOUS
  <1>2. DOMAIN cmds = 1..Len(cmds) /\ Len(cmds) \in Nat
    OBVIOUS
  <1>3. Asking(id, cmds) = [i \in 1..Len(cmds) |-> Call_(id, cmds[i])]
    BY <1>2 DEF Asking
  <1> QED BY <1>1, <1>2, <1>3

\* The calls that act refuses of a body as a scene spawns it.
Bouncing == {c \in [id : Id, cmd : CallCmds] : ~ensure_tool(Spawned(c.id), c.cmd)}

LEMMA SpawnedSpurns ==
    ASSUME NEW id \in Id, NEW cmd \in CallCmds,
           Posted(Spawned(id), events(Spawned(id))[cmd]).error # "none"
    PROVE  Call_(id, cmd) \in Bouncing
  <1>1. cmd \notin ENV
    BY DEF ENV, CallCmds
  <1>2. ~ensure_tool(Spawned(id), cmd)
    BY <1>1, Unlisted
  <1> DEFINE c == Call_(id, cmd)
  <1>3. c \in [id : Id, cmd : CallCmds] /\ c.id = id /\ c.cmd = cmd
    BY DEF Call_
  <1> HIDE DEF c
  <1>4. c \in Bouncing
    BY <1>2, <1>3 DEF Bouncing
  <1> QED BY <1>4 DEF c

LEMMA DroneBounces ==
    \A cmd \in {"Velocity", "Hold", "Position", "Takeoff", "Airborne"} :
        Call_("drone", cmd) \in Bouncing
  <1> DEFINE b == Spawned("drone")
  <1>0. "drone" \in Id /\ Domain("drone") = "aerial"
    BY Domains
  <1>1. b \in Known("drone") /\ b.id = "drone" /\ b.safety = Ready
    BY <1>0, SpawnedKnown DEF Spawned
  <1>2. ~b.safety.armed /\ b.safety.phase = "Ready"
    BY <1>1 DEF Ready, Air!Disconnected
  <1>3. /\ ~Admits(b, "Takeoff") /\ ~Admits(b, "ReachedAltitude")
    <2>1. ~Air!Admits(b.safety, "Takeoff")
      BY <1>2 DEF Air!Admits, Air!NeedsArmed
    <2>2. ~Air!Admits(b.safety, "ReachedAltitude")
      BY <1>2 DEF Air!Admits, Air!LegalIn
    <2> HIDE DEF b
    <2> QED BY <1>0, <1>1, <2>1, <2>2 DEF Admits
  <1>4. events(b) = aerial_events(b)
    BY <1>0, <1>1 DEF events
  <1>5. /\ events(b)["Velocity"] = mission /\ events(b)["Hold"] = mission
        /\ events(b)["Position"] = mission /\ events(b)["Airborne"] = <<"ReachedAltitude">>
        /\ events(b)["Takeoff"] = <<"Takeoff">>
    BY <1>4, AirEventsAre DEF aerial_events
  <1>6. Posted(b, mission).error # "none"
    BY <1>1, <1>2, MissionUnlisted
  <1>7. /\ Posted(b, <<"Takeoff">>).error # "none"
        /\ Posted(b, <<"ReachedAltitude">>).error # "none"
    BY <1>3, OneUnlisted
  <1>8. \A cmd \in {"Velocity", "Hold", "Position", "Takeoff", "Airborne"} :
            cmd \in CallCmds /\ Posted(b, events(b)[cmd]).error # "none"
    <2> HIDE DEF b
    <2> QED BY <1>5, <1>6, <1>7 DEF CallCmds
  <1> QED BY <1>0, <1>8, SpawnedSpurns, Zenon

LEMMA RoverBounces ==
    \A cmd \in {"Drive", "Hold", "Halt"} : Call_("rover", cmd) \in Bouncing
  <1> DEFINE b == Spawned("rover")
  <1>0. "rover" \in Id /\ Domain("rover") = "ground"
    BY Domains
  <1>1. b.id = "rover" /\ b.safety = Land!parked
    BY <1>0 DEF Spawned
  <1>3. /\ ~Admits(b, "DriveCommand") /\ ~Admits(b, "Halt")
    <2>1. ~Land!Admits(b.safety, "DriveCommand") /\ ~Land!Admits(b.safety, "Halt")
      BY <1>1 DEF Land!Admits, Land!parked
    <2> HIDE DEF b
    <2> QED BY <1>0, <1>1, <2>1 DEF Admits
  <1>7. /\ Posted(b, <<"DriveCommand">>).error # "none"
        /\ Posted(b, <<"Halt">>).error # "none"
    BY <1>3, OneUnlisted
  <1>8. \A cmd \in {"Drive", "Hold", "Halt"} :
            cmd \in CallCmds /\ Posted(b, events(b)[cmd]).error # "none"
    <2> HIDE DEF b
    <2> QED BY <1>1, <1>7, LandEventsAre DEF CallCmds
  <1> QED BY <1>0, <1>8, SpawnedSpurns, Zenon

LEMMA HullBounces ==
    ASSUME NEW id \in {"skiff", "surveyor"}
    PROVE  \A cmd \in {"Thrust", "Hold", "Station"} : Call_(id, cmd) \in Bouncing
  <1> DEFINE b == Spawned(id)
  <1>0. id \in Id /\ Domain(id) = "marine"
    BY Domains
  <1>1. b.id = id /\ b.safety = Sea!docked
    BY <1>0 DEF Spawned
  <1>3. /\ ~Admits(b, "ThrustCommand") /\ ~Admits(b, "Station")
    <2>1. ~Sea!Admits(b.safety, "ThrustCommand") /\ ~Sea!Admits(b.safety, "Station")
      BY <1>1 DEF Sea!Admits, Sea!docked
    <2> HIDE DEF b
    <2> QED BY <1>0, <1>1, <2>1 DEF Admits
  <1>7. /\ Posted(b, <<"ThrustCommand">>).error # "none"
        /\ Posted(b, <<"Station">>).error # "none"
    BY <1>3, OneUnlisted
  <1>8. \A cmd \in {"Thrust", "Hold", "Station"} :
            cmd \in CallCmds /\ Posted(b, events(b)[cmd]).error # "none"
    <2> HIDE DEF b
    <2> QED BY <1>1, <1>7, SeaEventsAre DEF CallCmds
  <1> QED BY <1>0, <1>8, SpawnedSpurns, Zenon

\* The whole catalog bounces off bodies as a scene spawns them.
LEMMA CatalogBounces == illegal_catalog \in Seq(Bouncing)
  <1> DEFINE one == <<Call_("rover", "Drive"), Call_("skiff", "Thrust"),
                      Call_("surveyor", "Thrust")>>
             two == Asking("drone", <<"Velocity", "Hold", "Takeoff">>)
             three == <<Call_("rover", "Hold"), Call_("skiff", "Hold"), Call_("surveyor", "Hold")>>
             four == Asking("drone", <<"Position", "Airborne">>)
             five == <<Call_("skiff", "Station"), Call_("rover", "Halt")>>
             C == {"Velocity", "Hold", "Position", "Takeoff", "Airborne"}
  <1>1. one \in Seq(Bouncing) /\ three \in Seq(Bouncing) /\ five \in Seq(Bouncing)
    <2>1. /\ Call_("rover", "Drive") \in Bouncing /\ Call_("rover", "Hold") \in Bouncing
          /\ Call_("rover", "Halt") \in Bouncing /\ Call_("skiff", "Thrust") \in Bouncing
          /\ Call_("skiff", "Hold") \in Bouncing /\ Call_("skiff", "Station") \in Bouncing
          /\ Call_("surveyor", "Thrust") \in Bouncing /\ Call_("surveyor", "Hold") \in Bouncing
      BY RoverBounces, HullBounces
    <2> QED BY <2>1
  <1>2. two \in Seq(Bouncing) /\ four \in Seq(Bouncing)
    <2>1. <<"Velocity", "Hold", "Takeoff">> \in Seq(C) /\ <<"Position", "Airborne">> \in Seq(C)
      OBVIOUS
    <2>2. \A c \in C : Call_("drone", c) \in Bouncing
      BY DroneBounces
    <2> HIDE DEF C
    <2> QED BY <2>1, <2>2, AskingWithin
  <1>3. illegal_catalog = one \o two \o three \o four \o five
    BY DEF illegal_catalog
  <1> HIDE DEF one, two, three, four, five
  <1> QED BY <1>1, <1>2, <1>3

-----------------------------------------------------------------------------
(* What a typed agent returns bounces off the bodies it has seen.          *)

Sighted(seen) == DOMAIN seen \subseteq Id /\ \A id \in DOMAIN seen : seen[id] \in Known(id)
Bounced(seen) ==
    {c \in [id : DOMAIN seen, cmd : CallCmds] : ~ensure_tool_or_attach_grant(seen[c.id], c.cmd)}
\* It returns nothing, or it makes no call.
Futile(d, seen) ==
    d.returns = <<>> \/ (d.calls = <<>> /\ d.returns \in Seq(Bounced(seen)))

LEMMA ProbeFutile ==
    ASSUME NEW seen, Sighted(seen), NEW id \in DOMAIN seen, Ungranted(seen[id])
    PROVE  Call_(id, Probe(id)) \in Bounced(seen) /\ <<Call_(id, Probe(id))>> \in Seq(Bounced(seen))
  <1> DEFINE c == Call_(id, Probe(id))
  <1>1. id \in Id /\ seen[id] \in Known(id)
    BY DEF Sighted
  <1>2. ~ensure_tool_or_attach_grant(seen[id], Probe(id)) /\ Probe(id) \in CallCmds
    BY <1>1, ProbeBounces
  <1>3. c \in [id : DOMAIN seen, cmd : CallCmds] /\ c.id = id /\ c.cmd = Probe(id)
    BY <1>2 DEF Call_
  <1> HIDE DEF c
  <1>4. c \in Bounced(seen)
    BY <1>2, <1>3 DEF Bounced
  <1>5. <<c>> \in Seq(Bounced(seen))
    BY <1>4
  <1> QED BY <1>4, <1>5 DEF c

LEMMA RestingFutile ==
    ASSUME NEW seen, Sighted(seen), NEW id \in DOMAIN seen, Resting(seen[id])
    PROVE  <<Call_(id, Probe(id))>> \in Seq(Bounced(seen))
  <1>1. id \in Id /\ seen[id] \in Known(id)
    BY DEF Sighted
  <1>2. Ungranted(seen[id])
    BY <1>1, RestingUngranted
  <1> QED BY <1>2, ProbeFutile

LEMMA ReturnsFutile ==
    ASSUME NEW seen, NEW cmds \in Seq(Bounced(seen)), NEW m
    PROVE  Futile(Returns(m, cmds), seen)
  <1> DEFINE d == Returns(m, cmds)
  <1>1. d.calls = <<>> /\ d.returns = cmds
    BY IdleSound
  <1> HIDE DEF d
  <1>2. Futile(d, seen)
    BY <1>1 DEF Futile
  <1> QED BY <1>2 DEF d

LEMMA Silent ==
    ASSUME NEW d, NEW seen, d.returns = <<>>
    PROVE  Futile(d, seen)
  BY DEF Futile

CallsEnding(m, calls, e) == [Calls(m, calls) EXCEPT !.ends = e]

LEMMA CallsFutile ==
    ASSUME NEW seen, NEW m
    PROVE  /\ Futile(Idle(m), seen) /\ \A calls : Futile(Calls(m, calls), seen)
           /\ \A calls, e : Futile(CallsEnding(m, calls, e), seen)
  BY DEF Futile, Idle, Calls, CallsEnding

LEMMA FollowsFutile ==
    ASSUME NEW a \in DOMAIN policies, NEW m, NEW seen, Sighted(seen)
    PROVE  Futile(Follows(policies[a], m, seen), seen)
  <1> DEFINE p == policies[a]
             b == seen[p.robot]
             d == Follows(p, m, seen)
  <1>1. Handles(p)
    BY PoliciesHandle
  <1> HIDE DEF p
  <1>2. \/ \E n : d = Idle(n)
        \/ /\ d = Returns(Probed(m), <<Call_(p.robot, Probe(p.robot))>>)
           /\ p.robot \in DOMAIN seen /\ Resting(b)
        \/ d = Followed(p, Probed(m), b) /\ Kind(b) \in DOMAIN p.on
    BY DEF Follows
  <1>3. \A n : Futile(Idle(n), seen)
    BY CallsFutile
  <1>4. p.robot \in DOMAIN seen /\ Resting(b)
        => Futile(Returns(Probed(m), <<Call_(p.robot, Probe(p.robot))>>), seen)
    BY RestingFutile, ReturnsFutile
  <1>5. Kind(b) \in DOMAIN p.on => Futile(Followed(p, Probed(m), b), seen)
    <2> DEFINE f == Followed(p, Probed(m), b)
    <2>1. Kind(b) \in DOMAIN p.on => f.returns = <<>>
      BY <1>1, FollowedSound
    <2> HIDE DEF f
    <2>2. Kind(b) \in DOMAIN p.on => Futile(f, seen)
      BY <2>1, Silent
    <2> QED BY <2>2 DEF f
  <1> QED BY <1>2, <1>3, <1>4, <1>5 DEF p

LEMMA ProbesFutile ==
    ASSUME NEW seen, Sighted(seen)
    PROVE  probes(seen) \in Seq(Bounced(seen))
  <1> DEFINE probe(b) == If(Ungranted(b), <<Call_(b.id, Probe(b.id))>>)
             of(i) == IF i \in DOMAIN catalog /\ catalog[i] \in DOMAIN seen
                      THEN probe(seen[catalog[i]]) ELSE <<>>
  <1>0. <<>> \in Seq(Bounced(seen))
    OBVIOUS
  <1>1. ASSUME NEW id \in DOMAIN seen PROVE probe(seen[id]) \in Seq(Bounced(seen))
    <2>1. seen[id].id = id
      BY <1>1, KnownIs DEF Sighted
    <2>2. probe(seen[id]) = If(Ungranted(seen[id]), <<Call_(id, Probe(id))>>)
      BY <2>1
    <2> HIDE DEF probe
    <2>3. CASE Ungranted(seen[id])
      BY <1>1, <2>2, <2>3, ProbeFutile DEF If
    <2>4. CASE ~Ungranted(seen[id])
      BY <1>0, <2>2, <2>4 DEF If
    <2> QED BY <2>3, <2>4
  <1>2. probes(seen) = of(1) \o of(2) \o of(3) \o of(4)
    BY DEF probes, Over
  <1> HIDE DEF probe
  <1>3. \A i : of(i) \in Seq(Bounced(seen))
    BY <1>0, <1>1
  <1> HIDE DEF of
  <1> QED BY <1>2, <1>3, FourSound

LEMMA FleetFutile ==
    ASSUME NEW m, NEW seen, Sighted(seen), NEW contact
    PROVE  /\ Futile(TypedFleet(m, seen, contact), seen)
  <1>1. \/ \E n : TypedFleet(m, seen, contact) = Returns(n, probes(seen))
        \/ \E n, calls : TypedFleet(m, seen, contact) = Calls(n, calls)
    BY DEF TypedFleet
  <1>2. \A n : Futile(Returns(n, probes(seen)), seen)
    BY ProbesFutile, ReturnsFutile
  <1> QED BY <1>1, <1>2, CallsFutile

LEMMA FleetsFutile ==
    ASSUME NEW m, NEW seen, Sighted(seen)
    PROVE  Futile(TypedFleetReturn(m, seen), seen) /\ Futile(TypedFleetHold(m, seen), seen)
  <1>0. Futile(TypedFleet(m, seen, FALSE), seen)
    BY FleetFutile, Zenon
  <1>1. \/ \E n : TypedFleetReturn(m, seen) = Idle(n)
        \/ TypedFleetReturn(m, seen) = TypedFleet(m, seen, FALSE)
        \/ \E n, calls : TypedFleetReturn(m, seen) = Calls(n, calls)
    BY DEF TypedFleetReturn
  <1>2. \/ TypedFleetHold(m, seen) = TypedFleet(m, seen, FALSE)
        \/ \E n, calls, e : TypedFleetHold(m, seen) = CallsEnding(n, calls, e)
    BY DEF TypedFleetHold, CallsEnding
  <1>3. Futile(TypedFleetReturn(m, seen), seen)
    BY <1>0, <1>1, CallsFutile
  <1>4. \A n, calls, e : Futile(CallsEnding(n, calls, e), seen)
    BY CallsFutile
  <1>5. Futile(TypedFleetHold(m, seen), seen)
    BY <1>0, <1>2, <1>4
  <1> QED BY <1>3, <1>5

\* The first docked hull is asked to make way, and is at rest.
LEMMA MarineHoldFutile ==
    ASSUME NEW m, NEW seen, Sighted(seen)
    PROVE  Futile(TypedMarineHold(m, seen), seen)
  <1> DEFINE hulls == <<"skiff", "surveyor">>
             moored(b) == If(Kind(b) = "Docked", <<Call_(b.id, "Thrust")>>)
             of(i) == IF i \in DOMAIN hulls /\ hulls[i] \in DOMAIN seen
                      THEN moored(seen[hulls[i]]) ELSE <<>>
             first == of(1) \o of(2) \o of(3) \o of(4)
  <1>0. <<>> \in Seq(Bounced(seen))
    OBVIOUS
  <1>1. ASSUME NEW id \in DOMAIN seen, id \in {"skiff", "surveyor"}
        PROVE  moored(seen[id]) \in Seq(Bounced(seen))
    <2>1. seen[id].id = id /\ Probe(id) = "Thrust"
      BY <1>1, KnownIs, Domains DEF Sighted, Probe
    <2>2. moored(seen[id]) = If(Kind(seen[id]) = "Docked", <<Call_(id, Probe(id))>>)
      BY <2>1
    <2> HIDE DEF moored
    <2>3. CASE Kind(seen[id]) = "Docked"
      <3>1. <<Call_(id, Probe(id))>> \in Seq(Bounced(seen))
        BY <1>1, <2>3, RestingFutile DEF Resting
      <3> QED BY <2>2, <2>3, <3>1 DEF If
    <2>4. CASE Kind(seen[id]) # "Docked"
      BY <1>0, <2>2, <2>4 DEF If
    <2> QED BY <2>3, <2>4
  <1>2. \/ /\ TypedMarineHold(m, seen) = Returns(Probed(m), <<first[1]>>)
           /\ first # <<>>
        \/ \E n, calls, e : TypedMarineHold(m, seen) = CallsEnding(n, calls, e)
    <2>1. first = Over(hulls, seen, moored)
      BY DEF Over
    <2> HIDE DEF first
    <2>2. IF ~m.probed /\ Over(hulls, seen, moored) # <<>>
          THEN TypedMarineHold(m, seen) = Returns(Probed(m), <<Over(hulls, seen, moored)[1]>>)
          ELSE \E n, calls, e : TypedMarineHold(m, seen) = CallsEnding(n, calls, e)
      BY DEF TypedMarineHold, CallsEnding
    <2> QED BY <2>1, <2>2
  <1> HIDE DEF moored
  <1>3. \A i : of(i) \in Seq(Bounced(seen))
    <2>1. \A i \in DOMAIN hulls : hulls[i] \in {"skiff", "surveyor"}
      OBVIOUS
    <2> HIDE DEF hulls
    <2> QED BY <1>0, <1>1, <2>1
  <1> HIDE DEF of
  <1>4. first \in Seq(Bounced(seen))
    BY <1>3, FourSound
  <1> HIDE DEF first
  <1>5. first # <<>> => <<first[1]>> \in Seq(Bounced(seen))
    BY <1>4
  <1>6. first # <<>> => Futile(Returns(Probed(m), <<first[1]>>), seen)
    BY <1>5, ReturnsFutile
  <1> QED BY <1>2, <1>6, CallsFutile

\* A drone that is not armed is asked to fly.
LEMMA LandingFutile ==
    ASSUME NEW m, NEW seen, Sighted(seen), "drone" \in DOMAIN seen, NEW contact, NEW low
    PROVE  Futile(TypedPadLanding(m, seen["drone"], contact, low), seen)
  <1> DEFINE b == seen["drone"]
             d == TypedPadLanding(m, b, contact, low)
  <1>1. \/ \E n : d = Idle(n)
        \/ d = Returns(Probed(m), <<Call_("drone", "Velocity")>>) /\ ~b.safety.armed
        \/ \E n, calls : d = Calls(n, calls)
    <2> HIDE DEF b
    <2> QED BY DEF TypedPadLanding
  <1>2. b.id = "drone" /\ Probe("drone") = "Velocity" /\ Domain("drone") = "aerial"
    BY KnownIs, Domains DEF Sighted, Probe
  <1>3. ~b.safety.armed => Ungranted(b)
    BY <1>2 DEF Ungranted
  <1>4. ~b.safety.armed => <<Call_("drone", "Velocity")>> \in Seq(Bounced(seen))
    BY <1>2, <1>3, ProbeFutile
  <1>5. ~b.safety.armed => Futile(Returns(Probed(m), <<Call_("drone", "Velocity")>>), seen)
    BY <1>4, ReturnsFutile
  <1> HIDE DEF b, d
  <1>6. Futile(d, seen)
    BY <1>1, <1>5, CallsFutile
  <1> QED BY <1>6 DEF d, b

\* A parked rover is asked to drive.
LEMMA SweepFutile ==
    ASSUME NEW m, NEW seen, Sighted(seen), NEW contact, NEW hit
    PROVE  Futile(TypedCollisionSweep(m, seen, contact, hit), seen)
  <1> DEFINE b == seen["rover"]
             d == TypedCollisionSweep(m, seen, contact, hit)
  <1>1. \/ \E n : d = Idle(n)
        \/ /\ d = Returns(Probed(m), <<Call_("rover", "Drive")>>)
           /\ "rover" \in DOMAIN seen /\ Kind(b) = "Parked"
        \/ \E n, calls : d = Calls(n, calls)
    <2> HIDE DEF b
    <2> QED BY DEF TypedCollisionSweep, b
  <1>2. Probe("rover") = "Drive"
    BY Domains DEF Probe
  <1>4. "rover" \in DOMAIN seen /\ Kind(b) = "Parked"
        => <<Call_("rover", "Drive")>> \in Seq(Bounced(seen))
    BY <1>2, RestingFutile DEF Resting
  <1>5. "rover" \in DOMAIN seen /\ Kind(b) = "Parked"
        => Futile(Returns(Probed(m), <<Call_("rover", "Drive")>>), seen)
    BY <1>4, ReturnsFutile
  <1> HIDE DEF b, d
  <1>6. Futile(d, seen)
    BY <1>1, <1>5, CallsFutile
  <1> QED BY <1>6 DEF d

\* Whatever a typed agent decides on is futile.
LEMMA DecisionsFutile ==
    ASSUME agent \in Typed, NEW m, NEW seen, Sighted(seen), NEW d \in Decisions(m, seen)
    PROVE  Futile(d, seen)
  <1> DEFINE D == DOMAIN policies
             follows == Follows(policies[agent], m, seen)
  <1>0. agent \in D
        \/ agent \in {"TypedFleet", "TypedFleetReturn", "TypedFleetHold", "TypedMarineHold",
                      "TypedPadLanding", "TypedCollisionSweep"}
    BY DEF Typed
  <1>1. /\ \A c \in BOOLEAN : Futile(TypedFleet(m, seen, c), seen)
        /\ Futile(TypedFleetReturn(m, seen), seen) /\ Futile(TypedFleetHold(m, seen), seen)
        /\ Futile(TypedMarineHold(m, seen), seen) /\ Futile(Idle(m), seen)
    BY FleetFutile, FleetsFutile, MarineHoldFutile, CallsFutile, Zenon
  <1>2. \A c, h \in BOOLEAN :
            /\ Futile(TypedCollisionSweep(m, seen, c, h), seen)
            /\ "drone" \in DOMAIN seen => Futile(TypedPadLanding(m, seen["drone"], c, h), seen)
    BY SweepFutile, LandingFutile, Zenon
  <1>3. agent \in D => Futile(follows, seen)
    BY FollowsFutile
  <1>4. \/ agent \in D /\ d = follows
        \/ \E c \in BOOLEAN : d = TypedFleet(m, seen, c)
        \/ d = TypedFleetReturn(m, seen) \/ d = TypedFleetHold(m, seen)
        \/ d = TypedMarineHold(m, seen)
        \/ \E c, h \in BOOLEAN :
             \/ d = TypedCollisionSweep(m, seen, c, h)
             \/ d = TypedPadLanding(m, seen["drone"], c, h) /\ "drone" \in DOMAIN seen
        \/ d = Idle(m)
    <2>0. \A a \in {"TypedFleet", "TypedFleetReturn", "TypedFleetHold", "TypedMarineHold",
                    "CoastalFleet", "RoverProbe", "CollisionSweep", "TypedCollisionSweep",
                    "PadLanding", "TypedPadLanding", "ScriptedCoastal", "research_probe",
                    "mhs_chain"} : a \notin D
      BY DEF policies
    <2> HIDE DEF D, follows
    <2>1. CASE agent \in D
      BY <2>0, <2>1 DEF Decisions, D, follows
    <2>2. CASE agent \notin D
      BY <2>2, <1>0 DEF Decisions, D
    <2> QED BY <2>1, <2>2
  <1> HIDE DEF D, follows
  <1> QED BY <1>1, <1>2, <1>3, <1>4

-----------------------------------------------------------------------------
(* While nobody else moves the bodies, what is returned bounces.           *)

Turns == {"idle", "seen", "calling", "returned", "broken"}
TypedTurns ==
    /\ agent \in Typed => loop.at \in Turns
    /\ loop.at \in {"illegal", "probed"} => agent = "research_probe"
\* The bodies are those that were seen when the commands were decided on: an
\* agent that calls returns nothing.
Unmoved ==
    /\ pending = NoCall /\ report # "ok"
    /\ loop.at = "seen" => loop.seen = body
    /\ loop.at \in {"idle", "seen"} => loop.queue = <<>>
    /\ loop.at = "calling" => loop.queue = <<>> \/ loop.calls = <<>>
    /\ loop.queue \in Seq(Bounced(body))
\* The bodies are as the scene spawned them.
Untouched ==
    /\ pending = NoCall /\ report # "ok"
    /\ body = [id \in Present |-> Spawned(id)]
    /\ loop.queue \in Seq(Bouncing)
ProbesBarred ==
    /\ TypedTurns
    /\ agent \in Typed /\ ~loop.disturbed => Unmoved
    /\ loop.at = "illegal" /\ ~loop.disturbed => Untouched
    /\ loop.at = "probed" => pending = NoCall /\ report # "ok"

Turned ==
    \/ loop'.at = loop.at
    \/ loop.at \in Turns \cup {"probed"} /\ loop'.at \in Turns
    \/ loop.at = "illegal" /\ loop'.at = "probed"

\* The loop's turns, whoever takes them.
LEMMA LoopTurns ==
    ASSUME LoopIs, [ResearchNext]_rvars
    PROVE  /\ agent' = agent
           /\ Turned
           /\ loop'.disturbed = loop.disturbed \/ loop'.disturbed = TRUE \/ loop.at = "chain"
  <1> DEFINE Marked == loop'.disturbed = loop.disturbed \/ loop'.disturbed = TRUE
                       \/ loop.at = "chain"
             Goal == agent' = agent /\ Turned /\ Marked
  <1> USE DEF LoopIs, Turned
  <1>1. ASSUME applied PROVE Goal
    BY <1>1 DEF applied, Continue
  <1>2. ASSUME disturb PROVE Goal
    BY <1>2 DEF disturb
  <1>3. ASSUME stopped \/ UNCHANGED rvars PROVE Goal
    BY <1>3 DEF stopped, rvars
  <1>4. ASSUME bare PROVE Goal
    BY <1>4 DEF bare
  <1>5. ASSUME observe PROVE Goal
    BY <1>5 DEF observe, Turns
  <1>6. ASSUME decide PROVE Goal
    BY <1>6 DEF decide, Turns
  <1>7. ASSUME call PROVE Goal
    <2>1. /\ agent' = agent
          /\ \E m : loop' = [loop EXCEPT !.calls = Tail(@), !.memory.done = m]
      BY <1>7 DEF call
    <2> QED BY <2>1
  <1>8. ASSUME return \/ broken \/ research_step \/ probe_failsafe_hold \/ abuse PROVE Goal
    BY <1>8 DEF return, broken, research_step, probe_failsafe_hold, abuse, Turns
  <1>9. ASSUME give PROVE Goal
    BY <1>9 DEF give
  <1>10. ASSUME mhs_tool PROVE Goal
    BY <1>10 DEF mhs_tool, run_chain, chain_write, chain_read, chain_step, mhs_open, NextOp,
                 Continue
  <1> HIDE DEF Goal
  <1>11. Goal
    BY <1>1, <1>2, <1>3, <1>4, <1>5, <1>6, <1>7, <1>8, <1>9, <1>10 DEF ResearchNext, research
  <1> QED BY <1>11 DEF Goal

LEMMA TurnsKept ==
    ASSUME LoopIs, TypedTurns, [ResearchNext]_rvars
    PROVE  TypedTurns'
  BY LoopTurns DEF TypedTurns, Turns, Turned

\* A command that a body refuses never gets past its gate.
LEMMA GateSpurns ==
    ASSUME NEW api, NEW id, NEW cmd, gate(api, id, cmd),
           id \notin Present
           \/ ~(IF api = "act" THEN ensure_tool(body[id], cmd)
                ELSE ensure_tool_or_attach_grant(body[id], cmd))
    PROVE  pending' = NoCall /\ report' = "refused" /\ body' = body
  BY DEF gate, Returned

LEMMA GiveSpurned ==
    ASSUME LoopIs, give, NEW S, loop.queue \in Seq(S),
           \A c \in S : \/ c.id \notin Present
                        \/ ~(IF loop.at = "illegal" THEN ensure_tool(body[c.id], c.cmd)
                             ELSE ensure_tool_or_attach_grant(body[c.id], c.cmd))
    PROVE  /\ pending' = NoCall /\ report' = "refused" /\ body' = body
           /\ loop'.queue \in Seq(S) /\ loop'.at = loop.at
  <1> DEFINE c == Head(loop.queue)
             api == IF loop.at = "illegal" THEN "act" ELSE "attach"
  <1>1. loop.queue # <<>> /\ gate(api, c.id, c.cmd) /\ loop' = [loop EXCEPT !.queue = Tail(@)]
    BY DEF give, begin
  <1>2. c \in S /\ Tail(loop.queue) \in Seq(S)
    BY <1>1
  <1>3. loop'.queue \in Seq(S) /\ loop'.at = loop.at
    BY <1>1, <1>2 DEF LoopIs
  <1>4. api = "act" <=> loop.at = "illegal"
    OBVIOUS
  <1> HIDE DEF c, api
  <1>5. c.id \notin Present \/ ~(IF api = "act" THEN ensure_tool(body[c.id], c.cmd)
                                 ELSE ensure_tool_or_attach_grant(body[c.id], c.cmd))
    BY <1>2, <1>4
  <1>6. pending' = NoCall /\ report' = "refused" /\ body' = body
    BY <1>1, <1>5, GateSpurns
  <1> QED BY <1>3, <1>6

\* The bodies of a lab, as an agent sees them.
LEMMA LabSighted ==
    ASSUME LabKnown
    PROVE  Sighted(body) /\ Present = DOMAIN body
  BY DEF LabKnown, Sighted, Present

\* What an agent does to its own experiment keeps the bodies as it has seen them,
\* or it has nothing left to return.
LEMMA UnmovedKept ==
    ASSUME LabKnown, LoopIs, agent \in Typed, loop.at \in Turns, Unmoved, [ResearchNext]_rvars,
           ~loop'.disturbed
    PROVE  Unmoved'
  <1>0. /\ agent \notin {"none", "research_probe"}
        /\ pending = NoCall /\ report # "ok" /\ loop.at \notin {"illegal", "probed", "chain"}
    BY DEF Typed, policies, Unmoved, Turns
  <1>s. Sighted(body) /\ Present = DOMAIN body /\ <<>> \in Seq(Bounced(body')) /\ "none" # "ok"
    BY LabSighted
  <1>1. CASE applied
    <2>1. pending.stage \in {"previewed", "gated"}
      BY <1>1 DEF applied, called, write, apply
    <2> QED BY <1>0, <2>1 DEF NoCall
  <1>2. CASE disturb
    BY <1>0, <1>2 DEF disturb, LoopIs
  <1>3. CASE stopped \/ UNCHANGED rvars
    BY <1>3 DEF stopped, rvars, vars, Unmoved, Bounced
  <1>4. CASE observe
    <2>1. /\ loop.at = "idle" /\ loop' = [loop EXCEPT !.at = "seen", !.seen = body]
          /\ report' = "none" /\ UNCHANGED <<body, pending>>
      BY <1>4 DEF observe
    <2>2. loop'.at = "seen" /\ loop'.seen = body /\ loop'.queue = loop.queue
      BY <2>1 DEF LoopIs
    <2>3. loop.queue = <<>>
      BY <2>1 DEF Unmoved
    <2> QED BY <1>0, <1>s, <2>1, <2>2, <2>3 DEF Unmoved
  <1>5. CASE decide
    <2>1. loop.at = "seen" /\ report' = "none" /\ UNCHANGED <<body, pending>>
      BY <1>5 DEF decide
    <2>2. PICK d \in Decisions(loop.memory, loop.seen) :
            loop' = [loop EXCEPT !.at = "calling", !.seen = <<>>, !.calls = d.calls,
                              !.ends = d.ends, !.queue = d.returns, !.memory = d.memory]
      BY <1>5 DEF decide
    <2>3. loop'.at = "calling" /\ loop'.calls = d.calls /\ loop'.queue = d.returns
      BY <2>2 DEF LoopIs
    <2>4. Futile(d, body)
      <3>1. loop.seen = body
        BY <2>1 DEF Unmoved
      <3> QED BY <1>s, <3>1, DecisionsFutile
    <2>5. \/ loop'.queue = <<>>
          \/ loop'.calls = <<>> /\ loop'.queue \in Seq(Bounced(body'))
      BY <2>1, <2>3, <2>4 DEF Futile
    <2> QED BY <1>0, <1>s, <2>1, <2>3, <2>5 DEF Unmoved
  <1>6. CASE call
    <2>1. /\ loop.at = "calling" /\ loop.calls # <<>> /\ report' = "none"
          /\ UNCHANGED pending
          /\ \E m : loop' = [loop EXCEPT !.calls = Tail(@), !.memory.done = m]
      BY <1>6 DEF call
    <2>2. loop'.at = "calling" /\ loop'.queue = loop.queue
      BY <2>1 DEF LoopIs
    <2>3. loop.queue = <<>>
      BY <2>1 DEF Unmoved
    <2> QED BY <1>0, <1>s, <2>1, <2>2, <2>3 DEF Unmoved
  <1>7. CASE return \/ broken
    <2>1. /\ loop'.at \in {"returned", "broken"} /\ loop'.queue = loop.queue
          /\ report' = "none" /\ UNCHANGED <<body, pending>>
      BY <1>7 DEF return, broken, LoopIs
    <2> QED BY <1>0, <2>1 DEF Unmoved, Bounced
  <1>8. CASE give
    <2> DEFINE S == Bounced(body)
    <2>1. \A c \in S : ~ensure_tool_or_attach_grant(body[c.id], c.cmd)
      BY DEF Bounced
    <2>2. loop.queue \in Seq(S) /\ loop.at = "returned"
      BY <1>0, <1>8 DEF Unmoved, give
    <2> HIDE DEF S
    <2>3. /\ pending' = NoCall /\ report' = "refused" /\ body' = body
          /\ loop'.queue \in Seq(S) /\ loop'.at = "returned"
      BY <1>8, <2>1, <2>2, GiveSpurned
    <2> QED BY <2>3 DEF Unmoved, Bounced, S
  <1>9. CASE research_step
    <2>1. /\ loop.queue = <<>> /\ report' = "none" /\ UNCHANGED pending
          /\ loop' = [loop EXCEPT !.at = "idle"]
      BY <1>9 DEF research_step, step
    <2>2. loop'.at = "idle" /\ loop'.queue = <<>>
      BY <2>1 DEF LoopIs
    <2> QED BY <1>0, <1>s, <2>1, <2>2 DEF Unmoved
  <1>10. CASE probe_failsafe_hold \/ abuse \/ mhs_tool
    <2>1. loop.at \in {"illegal", "probed", "chain"}
      BY <1>10 DEF probe_failsafe_hold, abuse, mhs_tool, run_chain, chain_write, chain_read, chain_step, mhs_open, NextOp
    <2> QED BY <1>0, <2>1
  <1> QED BY <1>0, <1>1, <1>2, <1>3, <1>4, <1>5, <1>6, <1>7, <1>8, <1>9, <1>10
        DEF ResearchNext, research

LEMMA UntouchedKept ==
    ASSUME LabKnown, LoopIs, agent = "research_probe", loop.at = "illegal", Untouched,
           [ResearchNext]_rvars, ~loop'.disturbed, loop'.at = "illegal"
    PROVE  Untouched'
  <1>0. pending = NoCall /\ report # "ok" /\ agent # "none"
    BY DEF Untouched
  <1>1. CASE applied
    <2>1. pending.stage \in {"previewed", "gated"}
      BY <1>1 DEF applied, called, write, apply
    <2> QED BY <1>0, <2>1 DEF NoCall
  <1>2. CASE disturb
    BY <1>0, <1>2 DEF disturb, LoopIs
  <1>3. CASE stopped \/ UNCHANGED rvars
    BY <1>3 DEF stopped, rvars, vars, Untouched, Present
  <1>4. CASE give
    <2>1. body = [id \in Present |-> Spawned(id)] /\ loop.queue \in Seq(Bouncing)
      BY DEF Untouched
    <2>2. \A c \in Bouncing : c.id \notin Present \/ ~ensure_tool(body[c.id], c.cmd)
      BY <2>1 DEF Bouncing
    <2>3. /\ pending' = NoCall /\ report' = "refused" /\ body' = body
          /\ loop'.queue \in Seq(Bouncing)
      BY <1>4, <2>1, <2>2, GiveSpurned
    <2> QED BY <2>1, <2>3 DEF Untouched, Present
  <1>5. CASE observe \/ decide \/ call \/ return \/ research_step \/ broken \/ mhs_tool
    <2>1. loop.at # "illegal"
      BY <1>5 DEF observe, decide, call, return, research_step, broken, mhs_tool, run_chain,
                  chain_write, chain_read, chain_step, mhs_open, NextOp
    <2> QED BY <2>1
  <1>6. CASE probe_failsafe_hold \/ abuse
    BY <1>6 DEF probe_failsafe_hold, abuse, LoopIs
  <1> QED BY <1>0, <1>1, <1>2, <1>3, <1>4, <1>5, <1>6 DEF ResearchNext, research

\* The probe of the failed-safe hold, and what happens until the abuse begins.
LEMMA ProbedKept ==
    ASSUME LabKnown, LoopIs, agent = "research_probe", [ResearchNext]_rvars,
           loop.at \in {"illegal", "probed"}, loop'.at = "probed",
           loop.at = "probed" => pending = NoCall /\ report # "ok"
    PROVE  pending' = NoCall /\ report' # "ok"
  <1>1. CASE applied
    <2>1. pending.stage \in {"previewed", "gated"} /\ loop'.at = loop.at
      BY <1>1 DEF applied, called, write, apply, Continue, LoopIs
    <2> QED BY <2>1 DEF NoCall
  <1>2. CASE disturb
    <2>1. report' = "none" /\ pending' = pending /\ loop'.at = loop.at
      BY <1>2 DEF disturb, others, inject, elsewhere, Others, LoopIs
    <2> QED BY <2>1
  <1>3. CASE stopped \/ UNCHANGED rvars
    BY <1>3 DEF stopped, rvars, vars
  <1>4. CASE give
    <2>1. loop'.at = loop.at /\ loop.at # "probed"
      BY <1>4 DEF give, LoopIs
    <2> QED BY <2>1
  <1>5. CASE observe \/ decide \/ call \/ return \/ research_step \/ broken \/ mhs_tool
    <2>1. loop.at \notin {"illegal", "probed"}
      BY <1>5 DEF observe, decide, call, return, research_step, broken, mhs_tool, run_chain,
                  chain_write, chain_read, chain_step, mhs_open, NextOp
    <2> QED BY <2>1
  <1>6. CASE abuse
    BY <1>6 DEF abuse, LoopIs
  <1>7. CASE probe_failsafe_hold
    <2> DEFINE f == acting(body["drone"], "Failsafe")
    <2>1. "drone" \in Present /\ f.error = "none" => acting(f.body, "Hold").error # "none"
      BY FailsafeHoldBounces DEF LabKnown
    <2> HIDE DEF f
    <2>2. /\ pending = NoCall /\ pending' = pending
          /\ report' = IF "drone" \notin Present \/ f.error # "none" THEN "none"
                       ELSE IF acting(f.body, "Hold").error = "none" THEN "ok"
                       ELSE "refused"
      BY <1>7 DEF probe_failsafe_hold, f
    <2> QED BY <2>1, <2>2
  <1> QED BY <1>1, <1>2, <1>3, <1>4, <1>5, <1>6, <1>7 DEF ResearchNext, research

LEMMA ProbesBarredKept ==
    ASSUME LabKnown, Replays, ProbesBarred, [ResearchNext]_rvars
    PROVE  ProbesBarred'
  <1>1. /\ LoopIs /\ agent' = agent
        /\ Turned
        /\ loop'.disturbed = loop.disturbed \/ loop'.disturbed = TRUE \/ loop.at = "chain"
    BY LoopTurns DEF Replays
  <1>2. TypedTurns'
    BY <1>1, TurnsKept DEF ProbesBarred
  <1>3. ASSUME agent' \in Typed, ~loop'.disturbed PROVE Unmoved'
    <2>1. agent \in Typed /\ loop.at \in Turns
      BY <1>1, <1>3 DEF ProbesBarred, TypedTurns
    <2>2. ~loop.disturbed
      BY <1>1, <1>3, <2>1 DEF Turns
    <2> QED BY <1>1, <1>3, <2>1, <2>2, UnmovedKept DEF ProbesBarred
  <1>4. ASSUME loop'.at = "illegal", ~loop'.disturbed PROVE Untouched'
    <2>1. loop.at = "illegal" /\ agent = "research_probe"
      BY <1>1, <1>4 DEF ProbesBarred, TypedTurns, Turns, Turned
    <2>2. ~loop.disturbed
      BY <1>1, <1>4, <2>1
    <2> QED BY <1>1, <1>4, <2>1, <2>2, UntouchedKept DEF ProbesBarred
  <1>5. ASSUME loop'.at = "probed" PROVE pending' = NoCall /\ report' # "ok"
    <2>1. loop.at \in {"illegal", "probed"} /\ agent = "research_probe"
      BY <1>1, <1>5 DEF ProbesBarred, TypedTurns, Turns, Turned
    <2> QED BY <1>1, <1>5, <2>1, ProbedKept DEF ProbesBarred
  <1> QED BY <1>2, <1>3, <1>4, <1>5 DEF ProbesBarred

LEMMA ProbesBarredStart ==
    ASSUME ResearchInit
    PROVE  ProbesBarred
  <1>1. PICK e \in Experiments :
          /\ agent = e.agent
          /\ loop = CASE e.agent = "research_probe" ->
                            [Start EXCEPT !.at = "illegal", !.queue = illegal_catalog]
                      [] e.agent = "mhs_chain" -> [Start EXCEPT !.at = "chain"]
                      [] OTHER -> Start
    BY DEF ResearchInit
  <1>2. pending = NoCall /\ report = "none" /\ body = [id \in Present |-> Spawned(id)]
    BY DEF ResearchInit, Init, Present
  <1>3. {"research_probe", "mhs_chain"} \cap Typed = {}
    BY DEF Typed, policies
  <1>4. CASE agent = "research_probe"
    <2>1. loop = [Start EXCEPT !.at = "illegal", !.queue = illegal_catalog]
      BY <1>1, <1>4
    <2>2. loop.at = "illegal" /\ loop.queue = illegal_catalog
      BY <2>1 DEF Start
    <2> QED BY <1>2, <1>3, <1>4, <2>2, CatalogBounces DEF ProbesBarred, TypedTurns, Untouched
  <1>5. CASE agent = "mhs_chain"
    <2>1. loop = [Start EXCEPT !.at = "chain"]
      BY <1>1, <1>5
    <2>2. loop.at = "chain"
      BY <2>1 DEF Start
    <2> QED BY <1>3, <1>5, <2>2 DEF ProbesBarred, TypedTurns
  <1>6. CASE agent \notin {"research_probe", "mhs_chain"}
    <2>1. loop = Start
      BY <1>1, <1>6
    <2>2. loop.at = "idle" /\ loop.queue = <<>> /\ loop.calls = <<>>
      BY <2>1 DEF Start
    <2> QED BY <1>2, <2>2 DEF ProbesBarred, TypedTurns, Turns, Unmoved
  <1> QED BY <1>4, <1>5, <1>6

\* Illegal commands bounce: while nobody else moves the bodies, nothing a typed
\* agent returns is applied, for every agent and whatever it sees, and neither is
\* anything of research_probe's catalog (research/support.rs probes; probe.rs).  The
\* hold it tries after a failsafe is refused whatever was done to the drone before.
THEOREM LabProbesBounce == ResearchSpec => []ProbesBounce
  <1>1. ResearchInit => Replays /\ ProbesBarred
    BY ReplaysStart, ProbesBarredStart
  <1>2. LabKnown /\ Replays /\ ProbesBarred /\ [ResearchNext]_rvars => Replays' /\ ProbesBarred'
    BY ReplaysKept, ProbesBarredKept
  <1>3. ProbesBarred => ProbesBounce
    BY DEF ProbesBarred, ProbesBounce, Unmoved, Untouched
  <1> QED BY <1>1, <1>2, <1>3, LabInvariant, PTL DEF ResearchSpec
=============================================================================
