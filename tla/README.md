# flight-core in TLA+

flight-core is a Rust workspace whose vehicles are commanded through *typed evidence* and
*revocable permits*. A handle `Vehicle<S, B>` has the methods its typestate `S` allows; what it may
still do at run time depends on a permit bound to the plant's safety epoch. An event that ends
authority increments the epoch, and permits of the old one are to be worth nothing. What makes this
hard is that several handles share one plant, that each keeps its own copy of the safety kernel's
state, and that plant, copy, typestate, permit and staged setpoint are five things that can drift
apart. Around that core stand the programs that use it: companions of real autopilots, a deadline
rack, message-driven plants, a lab with its agents and surfaces, a web console, the harnesses that
hold all of them to one contract, and the world that is stepped under them.

This project models the core and those programs, checks them with TLC and proves their main results
with TLAPS. Paths below are relative to `src/crates/` unless they start with `src/`.

## The system

| Part | State | Operations | Interacts with | Hard because | Correct when |
|---|---|---|---|---|---|
| aerial kernel, `flight-core/src/safety.rs` | phase, armed, actuators, offboard, heartbeat, sensors, failsafe | `step` on 24 events; `event_revokes_authority` | run by the plant and by each handle | long event sequences; invariants asserted in debug builds only | a latch is left only disarmed, revoked authority needs a new `Arm` |
| ground and marine kernels, `ground.rs`, `marine.rs` | phase and two bits | `ground_step`, `marine_step` | same | small; trusted as *inputs* by `sync_ground`, `sync_marine` | their invariants hold of states that handles push |
| permits, `contracts/permit.rs`, `vehicle/authority.rs` | epoch, lease, vehicle id | issue, issue bounded, require | epoch of the body | a counter stands for a history; it saturates | no permit from before a revocation is current again |
| typestates, `vehicle/typestate.rs`, `ground.rs`, `marine.rs` | kind, shadow kernel, permit | connect, arm, offboard, fly, land, drive, stop, undock, dock, failsafe, recover, attach | backend, kernel | calls are many locks long and return half way on errors; ground and marine shadows are *written over* the plant | a stale handle advances nothing and stages nothing |
| world backends and session, `flight-sim/src/world_backend/` | staged setpoint, yaw rate; the shared lock | events, flush, tick, sync, attach; `inject_revoke`; walks of typed calls | body | a mutex per step, not per call | permits and plant agree |
| world step, `robot-world/src/world.rs`, `properties.rs` | bodies, commands, batteries | `try_step`: advance, evaluate 30 properties, commit or refuse | everything that flies a world | a refusal is deterministic: it repeats | what it asks of a successor follows from how it makes it |
| companions, `flight-px4/src/lib.rs`, `flight-ardupilot/src/lib.rs` | link, ages, latch, last setpoint | blocking calls that read an inbox, stream, sleep | an autopilot that arms, disarms and fails safe by itself | what was read half way through a call, and what is streamed afterwards | no live handle over a revoked backend |
| HITL rack and card, `flight-hitl/src/` | backends of a fleet, deadline counters, UDP inbox | frames, injected frames, failsafe, recovery, grants | a world session, an I/O card | commands are written before the step that may be refused, and the deadline judged after it | a miss stops the whole fleet, and it stays stopped |
| plants and nodes, `flight-px4/src/world_plant.rs`, `flight-ros2/src/` | flags, staged setpoints, slots of latest Twists | MAVLink messages, topics, fleet calls, steps | a world session shared with others | fleet calls stop at the first refusal; slots do not age | a fleet can be stopped; a velocity ends with the call that stops its body |
| lab, surface, agents, `robot-lab/src/`, `flight-mhs/src/` | a session, a log | commands by name, previews, chains, experiments, replay | typed walks, kernel events, others | gate and effect are apart; three tables written by hand | refusals are clean, previews tell the truth, logs replay |
| console, `flight-demo/src/main.rs` | queue, scenario, seed, two flags, an observation | requests; a worker that restarts, drains, scripts, steps | a lab | each cell has a lock of its own | the operator wins over the script, nothing queued is lost |
| monitors, scenarios, harnesses, `contracts/monitor.rs`, `flight-sim/src/scenario.rs`, the `run_*` functions of the backends | traces, faults with delays | record, inject, evaluate | all backends | windows, deadlines, delays at their boundary | every loss is in the record, and only losses are |
| temporal evidence, `temporal.rs`, `time.rs` | none | ages, freshness, deadlines, rates | companions, rack, monitors | saturation and truncation | late stays late |
| proof harnesses, `flight-verify/src/lib.rs` | none | Kani harnesses | kernels, mechanics | they try a few numbers | they hold of every one |

`PROJECT.json` lists every part with its status, and the hazards with the properties that would catch
them.

## Modules

| Module | Models |
|---|---|
| `AerialKernel` | `step` as `Admits` (its early returns) and `After` (its assignments), `check_invariants`, the revoke table, `aerial_kind` |
| `AerialMachine` | one kernel fed every event in every order; the properties of the kernel |
| `AerialAuthority` | the abstract kernel: authority is idle, live or latched, and when the motors may be powered |
| `AerialCalls` | every call on a `Vehicle<S, WorldBackend>` as the sequence of steps it takes, each at most one lock long, and `Run`, what a step does to the body and to all handles |
| `AerialSession` | several handles on one body, a call at a time, with injected revokes and the world's step |
| `AerialThreads` | the same calls from several threads: `Begin` starts one, `Step` takes its next step, anything may come in between |
| `Permits`, `GroundKernel`, `GroundSession`, `MarineKernel`, `MarineSession` | the same for a chassis and a hull, a call at a time |
| `WorldSession` | the walks of `WorldSession`: attach to a body as it is and take it through its typed calls; used by racks, plants, labs and harnesses |
| `Mavlink` | the messages between companion and autopilot, as the fields either side reads |
| `Companion`, `Companions` | a companion of either autopilot: its calls, the loops inside them, its inbox, the ages, the autopilot at the other end; `Companions` adds `ArduPilotBackend`'s calls, the scheduling and the liveness |
| `Temporal` | instants, ages, freshness, sequences, deadlines, rates, with what their divisions and saturations lose |
| `HitlRack` | the rack: a frame writes, flushes, steps and then judges; the card's datagrams; revokes from elsewhere |
| `Plants` | `WorldPlant`, `PlantNode`, `FleetPlant` and `FleetPlantNode` |
| `Monitors`, `Scenarios` | `evaluate_trace` and the lists of requirements; every harness that records a trace and evaluates it |
| `LabCommands`, `Surface`, `Lab`, `Research` | commands by name; the machine-hardware surface; the lab and whoever shares its session; agents, probe, script and chains on it |
| `Console` | the web console: worker and handlers, an access to a shared cell at a time |
| `Mech`, `WorldStep` | contacts, friction, drag, buoyancy, gates, the pack, terrain over integers; `try_step` on the vertical axis with all the properties it evaluates |
| `Harnesses` | the Kani harnesses, one definition each |
| `*Proofs` | theorems (see *Proofs*) |
| `MC*` | what the runs instantiate them with |

`AerialMachine` refines `AerialAuthority`. `HitlRack`, `Plants`, `Scenarios` and the lab's modules are built on
`WorldSession`, which is built on the three kernels; `HitlRack` and `Monitors` are built on `Temporal`; the console runs
the surface's preview and the lab's commands; `Harnesses` and `WorldStep` share `Mech`.

Definitions have the names of the functions they translate where TLA+ allows it. Definitions whose comment
begins with "Fault" are plausible mistakes in the definition that follows; no specification uses them, and
`PROJECT.json` records which property each one breaks. The map in `PROJECT.json` leads from definitions to lines; it covers
about a third of the implementation.

### How code becomes state and actions

- **A step of an aerial call.** A call of the aerial typestate is a sequence such as
  `epoch, lease, shadow HeartbeatFresh, unrevoked, plant EnterOffboard, ...`, in the order of the code. A
  step that fails ends the call; what earlier steps did stays done, and the handle keeps its typestate,
  as in the code, where a failing call hands the caller its vehicle back or has borrowed it. The locks
  are those of `WorldSession`: no call holds its mutex from one step to the next.
- **Ground and marine calls** are one action each: every call takes few locks, and the question there is what
  a handle's stale copy does to the body, call by call.
- **Refusals.** `Admits` is false where the kernel returns an error. `park_now` and `disarm_now` discard
  some of these errors; their models do too (`Attempt`, `halts`). `enable_drive`, `undock`,
  `hold_station` and `resume` consume the handle when they fail: it becomes `Unbound`.
- **Setpoints and commands** are reduced to the standing of the permit they were staged under (sessions), to
  where their value came from (companions: measured, commanded, or from an earlier connection), or to
  their kind (rack, plants, lab). What velocity or thrust they hold is no matter of authority.
- **Standings** ("now", "landed", "docked", "lost") are history variables inside permits and setpoints. The
  code has only the epoch; the properties say that the epoch stands for them. Other history variables:
  `streamed` (Companion), `tripped` and `applied` (HitlRack), `told` (Plants), `leftover`, `report` and
  `replay` (Lab), `yielded` and `served` (Console), `loss` (Scenarios).
- **Blocking calls.** A companion's call is begun, reads one frame per step, goes round its loop and returns. In
  between the autopilot sends, disarms, fails safe, and time passes. The harnesses, racks, plants and labs
  are single threads over a shared session: their calls are one action, or one per critical section where
  the code leaves its lock and acts on what it read (`Lab`'s gate, `Research`'s loop, every handler of `Console`).
- **Walks.** A walk over a fleet is a fold of legs; the fold keeps what was done before the leg that
  is refused, and that refusal as its error (`Follow`).
- **The world's step** may commit with live propulsion, commit with propulsion cut (an empty battery, wet
  rotors, no grant), or refuse the successor. Which of them is up to the physics, except in `WorldStep`.
- **Time.** Leases are the ticks left. Ages stop at the age at which they matter. Durations in `Temporal` are
  counted in units of which `MILLI` make a millisecond, so that what `as_millis` truncates is truncated.
- **Vehicle ids** are left out: both sides of every check derive them from one body id.

## Runs

Deadlock is checked in every run but `scenarios`, whose harnesses return, and `world_hold`, whose world stands still.

### Runs that pass

- `aerial_kernel` feeds the aerial kernel every event in every reachable state. No bound at all: the
  state space is finite. Every Kani harness on the kernel's states and events holds of those it is run on (`HarnessesCover`); after a revoke the
  vehicle is disarmed or latched until the next `Arm` (`NoLiveAfterRevoke`); a latch is left only disarmed
  with motors off (`LatchClearsDisarmed`); and the kernel implements `AerialAuthority` (`RefinesAuthority`).
- `aerial_session` lets two handles make every call there is, with disarms and disconnects injected from
  outside. `LostPermitsStale`: no permit from before authority was lost is current again, however
  often others re-arm. `CurrentMeansLive` and `TypedAuthority`: a current permit (with no touchdown since)
  means an armed plant without failsafe, an actuating typestate and an armed shadow.
  `SetpointsPermitted`: nothing is staged under lost authority. `LeftoversCannotAdvance`: a
  handle whose permit is dead moves to no other actuating typestate by a call that changes the body.
- `aerial_threads` interleaves the steps of two handles' calls. The epoch still orders the permits
  (`LostPermitsStale`), and a call that *began* with a stale permit stages nothing, renews nothing and
  powers nothing up (`StaleCallsHarmless`).
- `ground_session`: three handles overwrite one chassis. No current permit is held over an E-stopped
  chassis (`CurrentMeansClear`), and nothing is staged under lost authority.
- `marine_session`: three handles overwrite one hull. The same for failsafe; and a hull whose thrust is
  off holds no command but one a handle's flush put back (`StoppedIsIdle`).
- `companions`: either companion, whose calls block while the autopilot goes on sending. `LiveHandleMeansAuthority`: a
  handle that types as offboard with a current permit is one whose backend is armed, offboard, not latched and not
  revoked, although `arm` and `enter_offboard` read heartbeats after they have asked. `ArmStreamsThisSession`: what
  they stream while they warm up is not a setpoint of an earlier connection. `LostCallsLeaveNoSetpoint`: a setpoint
  whose call read of a loss, or finds the estimate stale, leaves nothing to stream. `CallsReturn`, `LossNoticed`
  (liveness): every call returns against any flood of frames, and a vehicle that disarms or fails safe and stays so does
  not keep a live handle for ever.
- `hitl_rack`: a rack driven by its caller and by a card. `MissStopsFleet`: whatever state a missed deadline finds the bodies in,
  the walk that fails them safe stops at none of them, nothing commands them, and all can be recovered.
  `TrippedStaysDown`: until that recovery nothing powers or commands them, no frame and no event from elsewhere.
  `DrivenByThisFrame`: a body that is driven after a frame is driven by that frame's command. `HoldSurvivesIdle`: frames
  that command nothing do not end a hold.
- `plants`: `Stoppable`: however a fleet came to be where it is, calls that stopped half way included,
  `trip_safety`, `park_all` and `dock_all` after each other leave nothing live. `DisarmedMeansDead`: a MAVLink plant whose
  heartbeat says disarmed has a drone that cannot fly, whatever was posted past it. `VelocityDies`: a velocity does not
  drive a body after the plant stopped it, until one is given again, also when the step between was refused.
- `scenarios`: every harness over every revoking event, every named contract and every scenario of up to two faults.
  `TracesAdmitted`: the trace passes the capability's monitors, at every length. `LossReported`: a loss inside the
  window meets the requirements named for it. `RevokedExactly`: the leftover handle loses its authority with the listed losses and
  with nothing else, and no table or contract returns an error.
- `lab`: every agent on its bodies, and a bare lab under every command, while others share the session. `RefusedLeavesBody`: a
  refused call leaves the bodies as they were, save for a freshened heartbeat. `AttachRevokes`: a call through attach that ends
  authority ends the permits of handles kept from before. `ReplayReproduces`: the log of a lab that only calls through attach
  brings a fresh lab to the same bodies. `ReferenceTrue`, `PreviewAgrees`: the tables of the machine-hardware surface agree with each other and
  its previews with the lab's gate. `ProbesBounce`: illegal probes are refused, and a hold after a failsafe, tried on a copy of the lab, whatever was done before. `Finishes` (liveness): an agent that has an end reaches it.
- `console`: `ScriptYields`: the script drives no lab that has taken an operator's command, unless it was asked for again.
  `CommandsGiven` (liveness): a command that was queued is given to a lab. `LastOpenRuns` (liveness): once requests end,
  the lab that runs is the one the console's cells name.

### The run that does not

`world_hold` checks what `flight-core/src/mech.rs:424` asks of a simulator: "the hold never drives away". The
command of a position hold is made from the pose before the step and checked against the pose after it. A drone that
passes its hold within one step fails the check, the step is refused, and since a step is deterministic every later
one is refused as well: the world stands still, and `World::step` drops the error.

### Other places where code and text part ways

Seen while modelling, true of the models, and kept out of the runs, which are kept for what should hold:

- `flush` and `tick` write a staged setpoint onto the body without asking for a permit: one staged before a
  revoke drives after another handle's re-arm. `src/README.md:22` says the old permit "has no authority".
- A touchdown disarms without a revoke, so a sibling's flight permit stays current ("world touchdown already
  cleared the grant", `typestate.rs:752`).
- `enter_offboard` checks the permit in one lock and enables the motors in a later one: a revoke and a re-arm fit in
  between (`src/docs/civilization.md:246`, "no leftover typed handle can complete a physical-authority transition
  after epoch bump").
- A `Parked` handle bound before another's E-stop releases the stopped chassis in one call (`src/README.md:217`,
  "E-stop is not Parked; clear first"); and `clear_command` leaves the yaw rate, which turns the chassis then.
- Docking through a handle posts no event, so no epoch moves (`flight-core/src/marine.rs:159`, "Failsafe and dock revoke hull
  thrust authority"); `hold_station` and `resume` ask for no permit and overwrite a hull in failsafe by a state with
  thrust (`src/docs/civilization.md:195` keeps leftover phase changes as an open item).
- The companions' `enter_offboard` asks once and then reads heartbeats for a second; it sets offboard over a latch
  (`src/docs/remaining-spec.md:26` lists it among the calls that refuse). The typed handle is safe: `enable_actuators` refuses next.
- The companions' pump is not gated: `tick` goes on streaming the last setpoint after a failsafe. The documents say so.
- `with_spec` takes periods that do not divide a second. `Rate::from_period_ns` is no inverse of `period_ns` for them
  (`temporal.rs:357`), so every frame of such a rack counts as missed, however fast it computed.
- `Lab::act` posts revoking commands by stepping the body's kernel, which bumps no epoch (`src/README.md:22`, "the
  backend increments the epoch"). `act_through_attach` does not have this for the
  bodies of the catalogs (`AttachRevokes`). A body of another id, which a custom scene may have, takes no walk (`robot-lab/src/lab.rs:820`): what is
  asked of it through attach is posted as by `act`.
- `FleetPlant::trip_safety` returns at the first body that refuses: a drone that is already failed safe keeps the bodies behind it
  from being tripped (`node.rs:351`, "Trip every live catalog body"). The rack re-trips and goes on.
- The console's Park button queues `Park`, which is on no body's list of legal commands: it is always refused
  (`flight-demo/src/main.rs:4` offers it).
- Commands that the surface lists as legal can be refused by a walk through attach for a heartbeat that went stale
  (`src/README.md:251`); a log of plain `act` calls may not replay, since replay goes through attach.

### Bounds

- `EpochMax` is `u32::MAX` in the code, 2 to 4 in the runs. Saturation is modelled, at the bound. From there on the
  scheme gives no guarantee, and properties about permits are conditional on `Unsaturated`. A state
  constraint with the same condition stops exploration at the saturated states: they are checked, not
  continued. Two revocations are what it takes for a permit of the first epoch to meet a plant re-armed
  in a later one; three and four let another handle's permit be revoked as well.
- `Lease = 1`: a lease is live, expires, and is renewed. A longer one passes through the same two conditions.
- `Handle`: two aerial handles (one that is left behind and one that goes on), three of the ground and marine
  ones, whose state is smaller: the one that stops, the one left behind, the one that releases. Handles are
  interchangeable in these specifications and no property names one, so symmetry is sound; no run with a liveness
  property uses it.
- `Repertoire` in `aerial_threads` is attach, arm, acquire, command, disarm: the calls that check a
  permit and act on it in later locks, and those that end and renew what they checked.
- `Revokes_on`, `Injected`, `Revokes`: the revoke events someone else injects. A disarm leaves the plant ready to be armed again,
  a disconnect makes it unready, a failsafe latches it.
- `companions`: loops of one round (the code's go round ten times, twenty, or for as long as a timeout lasts), drains of one frame (64), a socket of one frame, ages that
  are fresh or at their limit. A heartbeat can still be read at every point of every call and a frame waits through any call. The
  theorems on the first three properties have none of these bounds.
- `hitl_rack`: the drone with a rover and with a hull; periods that divide a second, that do not, and that are shorter
  than their budget; computations in and out of budget; two datagrams in flight, which are enough to be late, lost,
  repeated and out of order, and two reads for the sixteen of the code.
- `plants`: every catalog but the second world of four bodies. Nothing else is bounded.
- `scenarios`: five steps of 100 ms, so that the last samples lie beyond the deadline of 250 ms; delays of 150, 249 and 250 ms.
- `lab`: experiments on the bodies an agent moves, one or two at a time; a bare lab of one body per domain. A body's gate,
  its walk and its part of the log are its own. `WAY`, the ticks a hull makes way, is 2.
- `console`: two requests, each any of those there are, and two scenarios of one body each: a request races the worker and another
  request; a third adds the same races again.
- `world_hold`: one drone, steps of 20 ms.

### Fairness

The sessions, racks, plants and harnesses assume none and claim no liveness: an application makes their calls, and a vehicle that is
never commanded is no fault of theirs.

- **Companions.** Weak fairness of `Proceeds`: a call that has begun runs on a thread of its own and waits for nothing
  but sleeps. Weak fairness of `Tick`: who flies offboard ticks, as `tick`'s contract asks. Strong fairness of
  `SendsHeartbeat`: of the heartbeats an autopilot keeps sending not all are lost. Nothing is assumed of poses, of the autopilot's decisions or of the application.
- **Lab.** An experiment goes on until it ends: `research` is a loop that waits for nobody, so one of its steps is
  enabled until then, and weak fairness of the loop is that steps of its own come again and again. Whoever disturbs is under none.
- **Console.** The worker never waits, and a handler that has begun waits for a lock that nobody keeps: both go on. Nobody
  need make a request.

## Proofs

Proved for every value of the constants, assuming what the modules' `ASSUME`s say: `EpochMax \in Nat \ {0}`, `Lease \in Nat`,
`Repertoire \subseteq CallName`, that what is injected is a revoke event, that the companions' bounds are numbers,
that clocks have a resolution, that scenes are made of the bodies the catalogs know (`ScenesAssumption`), that an
experiment's agent is one there is (`ExperimentsAssumption`), and that every catalog of a rack or a plant has
the drone, without which neither is made. `StepSound` has its
assumptions on the world's constants in its statement.

- **The aerial kernel** (`AerialProofs`): types, `check_invariants`, `NoLiveAfterRevoke`,
  `PermitsMatchPlant` (what `attach` reads grants a permit exactly when the plant is armed and not in failsafe),
  `LatchClearsDisarmed`, and the refinement of `AerialAuthority`. The inductive invariant is
  `KernelInductive`. `check_invariants` is inductive by itself, but allows a vehicle that is armed in a Ready or a boot phase, which `attach`
  would wrap as an unpowered handle: `PermitsMatchPlant` also needs to know which phases can be armed (`ArmedPhases`).
- **Aerial handles, a call at a time** (`AerialProofs`): types, `EpochOrder`, `LostPermitsStale`, `CurrentMeansLive`,
  `TypedAuthority`, `SetpointsPermitted`, `LeftoversCannotAdvance`, for any number of handles. `InvariantSession` puts two things together.
  *Coherence*: plant and shadows are in states their kernel can be in, and permits are ordered: authority is lost only by an event that also
  revokes (`LossRevokes`), a revocation moves the epoch past every permit there is, and permits are issued at the current epoch.
  *Agreement*: a current permit that no touchdown has lowered is held over a live plant, by a handle whose shadow and kind say so too.
  Coherence is kept by each step. Agreement is not, since a call changes plant, shadow, permit and kind in different steps: it is shown call by call, for
  every call there is. Calls are sequences of steps put together by functions, so both are carried over them by an induction (see *Induction* below).
- **Aerial handles under threads** (same module): types, `EpochOrder`, `LostPermitsStale`, `StaleCallsHarmless`. `InvariantThreads` adds to coherence
  what a call in progress relies on: a call that began with a dead permit has left only steps that stage, renew and power nothing, or has a
  check ahead of those that do. Agreement is *not* kept under threads, see *Other places*.
- **Ground and marine handles** (`GroundSessionProofs`, `MarineSessionProofs`): types, `LostPermitsStale`,
  `CurrentMeansClear`, `SetpointsPermitted`, and the hull's `StoppedIsIdle`. Every action has one of three *shapes*: it leaves epoch and permits,
  it issues one permit of the current epoch, or it revokes. For each shape `EpochOrder` and
  `CurrentMeansClear` are preserved once. The types are worth a theorem here: the code trusts each
  handle's copy as the body's next state, and asserts the kernel's invariants of `step`'s results only.
  `CurrentMeansClear` does not follow from the types: it needs that a body gets *into* a stop only
  with a revocation, although it gets out of one by being overwritten. Types, `LostPermitsStale` and the hull's
  `SetpointsPermitted` are proved and no longer checked by a run.
- **Companions** (`CompanionProofs`): `LiveHandleMeansAuthority`, `LostCallsLeaveNoSetpoint`, `ArmStreamsThisSession`, for either
  autopilot and any length of loops, drains, sockets and ages. `LiveInductive` adds to the first what a call in progress may rely on: it
  keeps its stage; who is typed as armed is armed or refused; a setpoint that was allowed when it was called has its
  permit still, or the gate is shut. The second is an action property of the same invariant. `StreamsInductive`: once a
  pose has been read, or the handle is past preflight, nothing of an earlier connection is left.
- **Walks** (`WalkProofs`): what attaching to a body in any state its kernel can be in, and taking it through a walk of typed calls, can leave
  behind, half way refusals included. A body that is down is in none of the kinds an ordinary walk starts from (`DownIs`, `OrdinaryIs`); a
  failsafe fells whatever body it meets (`FellTaken`), and a felled body can be recovered (`RecoverTaken`). A walk that is not for granting leaves a body no
  authority it had not, and takes authority only together with the command (`TameWalk`); one that is for granting stages no
  velocity either (`GrantWalk`); a stopping walk leaves no body live, and no live body refuses it (`StopWalk`).
- **The plants** (`PlantsProofs`): `Stoppable`, `DisarmedMeansDead`, `VelocityDies`, for every catalog with a drone, any events injected and any
  order of calls. `InvariantPlants`: bodies are in states their kernels can be in; what is staged or commanded as a velocity was
  given to a body the plant has not stopped since (`VelocityDies` speaks of live bodies only, and is not kept by a call that grants a body whose
  command, or staged setpoint, is left over); a plant that is not armed has a dead drone; and of two hulls the second is
  not live without the first (`Abreast`). The last is the core of `Stoppable`: a walk over a fleet stops at the first body that refuses, the first hull refuses a
  stopping walk only when it is dead, and then there is no live hull behind it to be missed (`HullsStop`). That it is kept has to be shown of every walk
  over the hulls, those that are refused half way included (`HullsAbreast`).
- **The rack** (`HitlRackProofs`): `TrippedStaysDown`, `MissStopsFleet`, `DrivenByThisFrame`, `HoldSurvivesIdle`, for every fleet, every
  command, any number of datagrams and any periods. `InvariantRack`: bodies are in states their kernels can be in, a
  body that was failed safe is down until it is recovered, after a missed deadline nothing in the fleet is commanded, and a body that holds has no
  velocity staged. The legs of a walk over the fleet are taken in whatever order `SetToSeq` gives them, so what
  they do is shown of any sequence of legs. That the failsafe of a miss stops at no body is the core of it: the walk stops at the first that refuses, so
  none may. `StaleStays`, `DeadlineImpliesBound`, `RateAdmitsPeriod` are about the evidence it times itself by: what is too old stays too old, at every resolution and
  through every saturation; the typed deadline of a command implies the kernel's bound on its age; a rate admits what fits the period it was made from, of a second or
  less (a slower loop has the rate 0, which admits nothing).
- **The lab** (`LabProofs`, on the lemmas of `WalkProofs`): `AttachRevokes`, `RefusedLeavesBody`, for every policy of the repertoire, every scene and
  whatever the agents, bare calls, writes, chains, other handles and injected events do between. `LabKnown` is the inductive invariant: bodies are in states their
  kernels can be in, a drone in failsafe is commanded nothing, and a permit is current only for a body that is up. The last is what `AttachRevokes` needs: a
  permit on a body that is down would meet no walk (`ordinary` walks start from bodies that are up), the command would be posted as a bare event, and the session's epoch would
  stay. `RefusedLeavesBody` needs the types only, but of all that a call is made of: that of the events a command posts only the first can be
  refused, or the one after a heartbeat (`TidyBounces`); that a takeoff, once its body is attached, runs to its end (`TakeoffRuns`); that a recovery the
  command cannot finish is undone (`RecoverBounces`). It is not true of walks in general, of which `WalkProofs` says what they leave half way.
  `ReplayReproduces`: a fresh lab that is given the log keeps up, call by call, because what a command is logged as is taken by a body in the same state.
  That needs `Replays`: a call that is past its gate was let through on the bodies as they are (`LetThrough`; nobody unlogged has moved them since); an agent that
  looks, decides or calls has given no command yet (`Alone`); and the calls an agent decides on are calls the fresh lab can be given (`Called`: the rover is never asked
  for `Failsafe`, which a walk posts and the gate of a replay refuses). The last is shown of each agent there is (`DecisionsSound`).
  `ProbesBounce`: `ProbesBarred` adds that, while nobody else moves the bodies, an agent returns something only in a turn in which it calls nothing, so its
  commands meet the very bodies it has seen (`Unmoved`), and those refuse all of it: a body that is not granted, or at rest, refuses its probe (`ProbeBounces`,
  `RestingUngranted`), of every agent's decision (`DecisionsFutile`). The illegal catalog meets bodies as they were spawned (`Untouched`, `CatalogBounces`);
  the hold on a drone failed safe is refused by a drone in any state (`FailsafeHoldBounces`).
- **The machine-hardware surface** (same module): `PreviewAgrees`, `ReferenceTrue`. Both relate tables written by hand in two crates: the commands a device's
  reference lists against those the driver takes, the limits it prints against those the preview applies, the channels it lists against those a read answers.
- **The console** (same module): `ScriptYields`, and `CommandsKept`, which is stronger than what the run checks of it: no command is lost, nor
  given twice, at any moment. `ConsoleInductive` adds that, while the script is on, no command on its way (in the queue, in the drained batch, in
  a handler that has withdrawn the script and not queued yet) is still asked for.
- **Harnesses and the world step** (`AerialProofs`): what the Kani harnesses assert of the three kernels, for every legal state and event
  (`HarnessesHold`), and of mechanics, for
  every integer (`MechanicsHarnessesHold`); they try a few floats. `StepSound`: a world of one body refuses a step for its hold alone, and
  never the step of a body that holds no pose or cannot drive itself to it; the other properties that `try_step` evaluates
  follow from how the step is made. With `world_hold` this says where a lone body can get stuck.

*Induction.* The prover cannot use the library's induction theorems, whose hypotheses are about an operator. What the steps of a call, the events of a
walk and the legs over a fleet do is nevertheless shown for every length: `SetInduction` says that a set of numbers that holds 0 and the successor of
each of its members holds all of them (from the well-foundedness of `<`), and the fold's invariant is put into such a set. It
works for folds by recursive functions, given as `f[i] = ...` over `0..n`.

Only model-checked: all of `scenarios`, and liveness. The scenarios fold a script of faults over a vehicle and a monitor at a time; `WorldSession`, on
which they run, is proved about in the other modules.

Out of the prover's reach, and left to TLC wherever they come up: liveness and `ENABLED`. No module uses a
`RECURSIVE` operator: what steps and legs do is folded by recursive functions.

## Not modelled, in the modelled parts

- Raw calls on the backend through `backend_mut`, which bypass the typestate by design.
- `update_nav`: the attitude filter. That it posts `EstimatorInvalid` is one of the events that can be injected.
- Handles of several bodies in one session: each body has its own state and epoch.
- In `Lab`: bodies of other ids than the catalogs' four; a walk that an event is injected into half way, since a walk is one step there
  (`AerialThreads` takes an aerial body's calls apart, lock by lock). `PreviewAgrees` compares two tables on one observation;
  that the bodies may have moved between preview, gate and call is the subject of `RefusedLeavesBody` and `AttachRevokes`.
- The three commands to the environment among `research_probe`'s legal ones, which move no body.
- Numbers: attitude and quaternions, horizontal motion in `WorldStep`, wind, waves and hydrodynamics, `thrust_scale`, the damping
  of a docked hull, values that are not finite (but in the guards that look for them), rounding of `f32`.
- Kani's harnesses on quaternions, and the one that compares two tables generated from one source.
- The console's routes that only read, and its research route, which runs a lab of its own.
- The sweeps, scores and bags of the experiment runner, `differential_*` comparisons, the parsers of logs, MCP's transport.
- The live SITL tests of the companions, which need an autopilot; the autopilot here is whatever its frames allow.
- Encodings: MAVLink bytes, the rack's frames, px4_msgs, JSON.
- The message an error carries; whether a call is refused, and what it did before, is modelled.

Not modelled at all: `nav.rs` but for its event, `plan.rs`, `host.rs`, the point-mass backends (`NullBackend`,
`SimBackend`), units, frames, geometry, vectors and sensors: stateless, or arithmetic over the reals.

## Plan

1. **Proofs.** The traces of `Scenarios`, with an invariant that relates the monitor's samples to the vehicle's phase.
2. **World step.** Two bodies in a run of `WorldStep`: that a contact which is resolved leaves no overlap that
   the next step refuses; `StepSound` for worlds of several bodies.
3. **Lab under threads.** `Lab`'s walks are one step each; with `AerialCalls`' steps in their place the
   gate could be raced in the middle of a walk.
4. **Larger fleets** in `hitl_rack` and `lab`, once their state is smaller.
