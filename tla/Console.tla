------------------------------- MODULE Console -------------------------------
(***************************************************************************)
(* flight-demo: a server over one lab.  A worker runs the lab; handlers    *)
(* of requests run beside it and reach it through what they share: a queue *)
(* of commands, the scenario and the seed to open, two flags, and the last *)
(* observation.  Nothing covers two of them at once, so the steps of       *)
(* handlers and of the worker interleave between one access and the next.  *)
(*                                                                         *)
(* Each handler serves at most one request.  The clock of a lab is early,  *)
(* late enough for the script, or past the end of a scripted run.          *)
(***************************************************************************)
EXTENDS Surface, FiniteSets

CONSTANTS
    Handlers,   \* the tasks that serve requests
    Catalog,    \* the bodies of each scenario
    Seeds, FIRST,   \* the seeds labs are opened with, and the one at the start
    Buttons,    \* the commands with a route of their own, and the bodies they are for
    Writes      \* the requests to the machine-hardware surface

VARIABLES
    scenario, seed, reset, scripted, queue, observed,   \* App
    worker,     \* where run_lab is, and what it holds
    lab,        \* the lab it runs: what it was opened as, its bodies, its clock
    handler,    \* where each handler is, and what it holds
    yielded,    \* history: the lab took a command, and nobody asked for the script since
    served      \* history: how many commands were queued, and how many were given

shared == <<scenario, seed, reset, scripted, queue>>
cvars == <<shared, observed, worker, lab, handler, yielded, served>>

Scenarios == DOMAIN Catalog
EARLY == 0
SCRIPT == 1
OVER == 2

Opened(name, s) ==
    [scenario |-> name, seed |-> s, bodies |-> [id \in Catalog[name] |-> Spawned(id)], t |-> EARLY]

-----------------------------------------------------------------------------
(* A command that is queued is asked for until the script is asked for     *)
(* after it: a request to open or to reset overrules it.                   *)

Queued(id, cmd) == [id |-> id, cmd |-> cmd, asked |-> TRUE]

Waiting == [at |-> "idle"]
Done == [at |-> "done"]
At(h, stage) == handler[h].at = stage

Go(h, state) == handler' = [handler EXCEPT ![h] = state]

Overruled(act) == [act EXCEPT !.asked = FALSE]
Withdrawn(acts) == [i \in DOMAIN acts |-> Overruled(acts[i])]
\* The script is on again, and handler h goes on.
Overrule(h, state) ==
    /\ scripted' = TRUE /\ yielded' = FALSE
    /\ queue' = Withdrawn(queue)
    /\ worker' = IF worker.at = "tick" THEN [worker EXCEPT !.acts = Withdrawn(@)] ELSE worker
    /\ handler' = [k \in Handlers |->
                     CASE k = h -> state
                       [] k # h /\ At(k, "push") -> [handler[k] EXCEPT !.act = Overruled(@)]
                       [] OTHER -> handler[k]]

-----------------------------------------------------------------------------
(* The handlers. *)

\* The script yields to a command that is about to be queued.
yield(h) ==
    /\ At(h, "yield")
    /\ scripted' = FALSE
    /\ Go(h, [at |-> "push", act |-> handler[h].act])
    /\ UNCHANGED <<scenario, seed, reset, queue, observed, worker, lab, yielded, served>>

push(h) ==
    /\ At(h, "push")
    /\ queue' = Append(queue, handler[h].act)
    /\ served' = [served EXCEPT !.queued = @ + 1]
    /\ Go(h, Done)
    /\ UNCHANGED <<scenario, seed, reset, scripted, observed, worker, lab, yielded>>

\* Fault: the script is not told of the command of a button.
QueueOnly(h) ==
    /\ At(h, "idle")
    /\ \E id \in DOMAIN Buttons : \E cmd \in Buttons[id] :
         Go(h, [at |-> "push", act |-> Queued(id, cmd)])
    /\ UNCHANGED <<shared, observed, worker, lab, yielded, served>>

queue_robot(h) ==
    /\ At(h, "idle")
    /\ \E id \in DOMAIN Buttons : \E cmd \in Buttons[id] :
         Go(h, [at |-> "yield", act |-> Queued(id, cmd)])
    /\ UNCHANGED <<shared, observed, worker, lab, yielded, served>>

\* The write is previewed on the last observation; if it is refused, nothing is
\* queued and the script goes on.
mhs_write(h) ==
    /\ At(h, "idle")
    /\ \E req \in Writes :
         Go(h, IF preview_write(observed, req) = "ok"
                 THEN [at |-> "yield", act |-> Queued(req.device, req.channel)] ELSE Done)
    /\ UNCHANGED <<shared, observed, worker, lab, yielded, served>>

begin_reset(h) ==
    /\ At(h, "idle")
    /\ reset' = TRUE
    /\ Go(h, [at |-> "script"])
    /\ UNCHANGED <<scenario, seed, scripted, queue, observed, worker, lab, yielded, served>>
end_reset(h) ==
    /\ At(h, "script")
    /\ Overrule(h, Done)
    /\ UNCHANGED <<scenario, seed, reset, observed, lab, served>>

open_scenario(h) ==
    /\ At(h, "idle")
    /\ \E name \in Scenarios, s \in Seeds :
         scenario' = name /\ Go(h, [at |-> "seed", seed |-> s])
    /\ UNCHANGED <<seed, reset, scripted, queue, observed, worker, lab, yielded, served>>
open_seed(h) ==
    /\ At(h, "seed")
    /\ seed' = handler[h].seed
    /\ Go(h, [at |-> "rescript"])
    /\ UNCHANGED <<scenario, reset, scripted, queue, observed, worker, lab, yielded, served>>
open_scripted(h) ==
    /\ At(h, "rescript")
    /\ Overrule(h, [at |-> "reopen"])
    /\ UNCHANGED <<scenario, seed, reset, observed, lab, served>>
open_reset(h) ==
    /\ At(h, "reopen")
    /\ reset' = TRUE
    /\ Go(h, Done)
    /\ UNCHANGED <<scenario, seed, scripted, queue, observed, worker, lab, yielded, served>>

begun(h) == queue_robot(h) \/ mhs_write(h) \/ begin_reset(h) \/ open_scenario(h)
continued(h) ==
    \/ yield(h) \/ push(h) \/ end_reset(h)
    \/ open_seed(h) \/ open_scripted(h) \/ open_reset(h)

-----------------------------------------------------------------------------
(* The worker. *)

\* The calls of the script on a body, in turn; what fails is passed over.
Scripted(b, late, high) ==
    LET calls == script(b, late, high)
        after[i \in 0..Len(calls)] ==
            IF i = 0 THEN {b}
            ELSE {try_attach(a, agent_walks(a, calls[i])).body : a \in after[i - 1]}
    IN  CHOOSE a \in after[Len(calls)] : TRUE

\* act_through_attach, by a name that may be of no body of the lab.
Acted(bodies, act) ==
    IF act.id \in DOMAIN bodies /\ ensure_tool_or_attach_grant(bodies[act.id], act.cmd)
      THEN [bodies EXCEPT ![act.id] = Through(@, act.cmd).body]
      ELSE bodies
ActedAll(bodies, acts) ==
    LET after[i \in 0..Len(acts)] ==
            IF i = 0 THEN {bodies} ELSE {Acted(bs, acts[i]) : bs \in after[i - 1]}
    IN  CHOOSE bs \in after[Len(acts)] : TRUE

start ==
    /\ worker.at = "start"
    /\ reset' = FALSE
    /\ worker' = [at |-> "name"]
    /\ UNCHANGED <<scenario, seed, scripted, queue, observed, lab, handler, yielded, served>>

read_scenario ==
    /\ worker.at = "name"
    /\ worker' = [at |-> "seed", name |-> scenario]
    /\ UNCHANGED <<shared, observed, lab, handler, yielded, served>>

\* Fault: the flag is cleared once the lab is open.
ClearsLate ==
    /\ worker.at = "seed"
    /\ lab' = Opened(worker.name, seed) /\ observed' = lab'.bodies
    /\ reset' = FALSE
    /\ worker' = [at |-> "top"] /\ yielded' = FALSE
    /\ UNCHANGED <<scenario, seed, scripted, queue, handler, served>>

open_lab ==
    /\ worker.at = "seed"
    /\ lab' = Opened(worker.name, seed) /\ observed' = lab'.bodies
    /\ worker' = [at |-> "top"] /\ yielded' = FALSE
    /\ UNCHANGED <<shared, handler, served>>

check_reset ==
    /\ worker.at = "top"
    /\ worker' = [at |-> IF reset THEN "start" ELSE "drain"]
    /\ UNCHANGED <<shared, observed, lab, handler, yielded, served>>

\* Fault: a reset is looked for once the queue is drained.
DrainsFirst ==
    /\ worker.at = "drain"
    /\ worker' = IF reset THEN [at |-> "start"] ELSE [at |-> "tick", acts |-> queue]
    /\ queue' = <<>>
    /\ UNCHANGED <<scenario, seed, reset, scripted, observed, lab, handler, yielded, served>>

drain ==
    /\ worker.at = "drain"
    /\ worker' = [at |-> "tick", acts |-> queue]
    /\ queue' = <<>>
    /\ UNCHANGED <<scenario, seed, reset, scripted, observed, lab, handler, yielded, served>>

\* The script, if it is on and the lab is old enough; the commands; a step, which
\* the world may refuse; and the observation.
tick ==
    /\ worker.at = "tick"
    /\ \E late \in BOOLEAN, refused \in BOOLEAN, t \in {lab.t, lab.t + 1} \cap {EARLY, SCRIPT, OVER} :
       \E bs \in {IF scripted /\ lab.t >= SCRIPT
                    THEN [id \in DOMAIN lab.bodies |-> Scripted(lab.bodies[id], late, late)]
                    ELSE lab.bodies} :
       \E acted \in {ActedAll(bs, worker.acts)} :
         lab' = [lab EXCEPT !.t = IF refused THEN @ ELSE t,
                            !.bodies = IF refused THEN acted
                                       ELSE [id \in DOMAIN acted |-> Stepped(acted[id], FALSE)]]
    /\ observed' = lab'.bodies
    /\ yielded' = (yielded \/ \E i \in DOMAIN worker.acts : worker.acts[i].asked)
    /\ served' = [served EXCEPT !.given = @ + Len(worker.acts)]
    /\ worker' = [at |-> "rest"]
    /\ UNCHANGED <<shared, handler>>

\* A scripted run that is over starts again.
rest ==
    /\ worker.at = "rest"
    /\ worker' = [at |-> IF lab.t = OVER /\ scripted THEN "start" ELSE "top"]
    /\ UNCHANGED <<shared, observed, lab, handler, yielded, served>>

run_lab == start \/ read_scenario \/ open_lab \/ check_reset \/ drain \/ tick \/ rest

-----------------------------------------------------------------------------
ConsoleInit ==
    /\ scenario = "coastal" /\ seed = FIRST
    /\ reset = FALSE /\ scripted = TRUE /\ queue = <<>>
    /\ lab = Opened(scenario, seed) /\ observed = lab.bodies
    /\ worker = [at |-> "start"]
    /\ handler = [h \in Handlers |-> Waiting]
    /\ yielded = FALSE /\ served = [queued |-> 0, given |-> 0]

ConsoleNext == run_lab \/ \E h \in Handlers : begun(h) \/ continued(h)

\* The runtime polls every task that can go on: the worker never waits, so it
\* goes on for ever, and a handler that has begun waits for a lock nobody keeps.
ConsoleSpec ==
    /\ ConsoleInit /\ [][ConsoleNext]_cvars
    /\ []<><<TRUE>>_worker
    /\ \A h \in Handlers : WF_handler(continued(h))

-----------------------------------------------------------------------------
\* The script drives no lab that has taken a command of an operator, unless a
\* reset or an open that came after the command asked for the script again
\* (src/docs/remaining-spec.md:231, "the demo sets scripted=false before queuing
\* operator hold"): whatever the worker has drained meanwhile.
ScriptYields == yielded => ~scripted

\* A command the server said it queued is given to a lab, whatever is opened and
\* reset between (action, queue_robot and mhs_write against run_lab).
CommandsGiven == <>[](served.given = served.queued)

\* Once requests end, the lab that runs is the one the console holds: the flag of
\* an open is not lost to a worker that is restarting (open against run_lab).
LastOpenRuns == <>[](lab.scenario = scenario /\ lab.seed = seed)
=============================================================================
