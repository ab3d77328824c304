---------------------------- MODULE AerialThreads ----------------------------
(***************************************************************************)
(* The calls of AerialSession taken apart: made from different threads.    *)
(* WorldSession is an Arc<Mutex<Plant>> that every backend clones, and no  *)
(* call holds the mutex from one step to the next, so the steps of calls   *)
(* on different handles interleave.  A handle itself is exclusive: its     *)
(* methods take self or &mut self.                                         *)
(***************************************************************************)
EXTENDS AerialSession

CONSTANT
    Repertoire   \* the calls made, by name

ASSUME RepertoireAssumption == Repertoire \subseteq CallName

VARIABLES
    todo,   \* handle -> the steps its running call still has to take
    into,   \* handle -> the typestate that call compiles to
    stale   \* history: handle -> its permit was stale as that call began

threads == <<body, veh, todo, into, stale>>

EpochStale(h) == veh[h].permit.held /\ veh[h].permit.epoch # body.epoch

ThreadsInit ==
    /\ Init
    /\ todo = [h \in Handle |-> <<>>]
    /\ into = [h \in Handle |-> "same"]
    /\ stale = [h \in Handle |-> FALSE]

Idle(h) == todo[h] = <<>>

\* A thread calls a method of its handle.
Begin(h) ==
    /\ Idle(h)
    /\ \E name \in Repertoire :
         LET c == Named(name, veh[h]) IN
         /\ veh[h].kind \in c.from
         /\ todo' = [todo EXCEPT ![h] = c.does]
         /\ into' = [into EXCEPT ![h] = c.into]
    /\ stale' = [stale EXCEPT ![h] = EpochStale(h)]
    /\ UNCHANGED <<body, veh>>

\* The call takes its next step; it returns after its last one, or at an error.
Step(h) ==
    /\ ~Idle(h)
    /\ LET r == Run(World, h, Head(todo[h]))
           rest == Tail(todo[h])
       IN  /\ body' = r.body
           /\ veh' = IF r.ok /\ rest = <<>>
                       THEN [r.veh EXCEPT ![h].kind = Into(into[h], r.veh[h])]
                       ELSE r.veh
           /\ todo' = [todo EXCEPT ![h] = IF r.ok THEN rest ELSE <<>>]
    /\ UNCHANGED <<into, stale>>

\* A thread without a handle injects a revoke event.
Inject(e) == inject_revoke(e) /\ UNCHANGED <<todo, into, stale>>

ThreadsNext ==
    \/ \E h \in Handle : Begin(h) \/ Step(h)
    \/ \E e \in Revokes_on : Inject(e)

ThreadsSpec == ThreadsInit /\ [][ThreadsNext]_threads

-----------------------------------------------------------------------------
ThreadsTypeOK ==
    /\ TypeOK
    /\ todo \in [Handle -> Seq(StepOf)]
    /\ into \in [Handle -> Kind \cup {"same", "shadow"}]
    /\ stale \in [Handle -> BOOLEAN]

\* Steps that use the authority of the handle's permit.
UsesPermit(h) ==
    \/ Head(todo[h]).op \in {"stage", "reissue", "issue_bounded"}
    \/ body'.safety.actuators_enabled /\ ~body.safety.actuators_enabled

\* A call on a permit that was stale when it began is turned down, however the
\* plant changes while it runs: it stages no setpoint, renews no permit and
\* switches no motors on.  The race a revoke can win against the check of a
\* permit is at most one call long.
StaleCallsHarmless ==
    [][\A h \in Handle : stale[h] /\ Step(h) => ~UsesPermit(h)]_threads
=============================================================================
