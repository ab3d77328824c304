--------------------------------- MODULE Lab ---------------------------------
(***************************************************************************)
(* robot-lab's Lab: commands by name on the bodies of a world.  act posts  *)
(* the kernel events of a command; act_through_attach walks typed handles  *)
(* and posts the events only if no handle binds.  Both ask first whether   *)
(* the command is on the list of legal ones, in a critical section of its  *)
(* own; a write of the machine-hardware surface has asked that already of  *)
(* an observation made earlier.  Commands that succeed are logged, and the *)
(* log can be replayed on a fresh lab.                                     *)
(*                                                                         *)
(* Whoever shares the session walks bodies, injects events and keeps typed *)
(* handles in between.  A walk is one step here: the interleavings inside  *)
(* one are AerialThreads' subject.                                         *)
(***************************************************************************)
EXTENDS Surface

CONSTANTS
    Scenes,     \* the sets of bodies a lab is opened over
    Commands,   \* the commands its callers give
    Elsewhere,  \* the commands whose walks others make through the session
    Revokes,    \* the events others inject
    Cuttable    \* the bodies whose propulsion a step may cut

ASSUME ScenesAssumption == Scenes \subseteq SUBSET Id

VARIABLES
    body,       \* the bodies of the world
    leftover,   \* the permit of a typed handle somebody keeps, per body
    pending,    \* the call in progress
    report,     \* history: how the last call ended
    replay      \* history: the bodies of a fresh lab given the log so far

vars == <<body, leftover, pending, report, replay>>

Present == DOMAIN body
Unlogged == <<>>    \* no fresh lab is compared

-----------------------------------------------------------------------------
(* Replay: a fresh lab, given what is logged as it is logged and stepped   *)
(* when the lab is.                                                        *)

\* replay_until: a logged command is gated again, and an error ends the replay.
Again(r, cmd) ==
    CASE r.error # "none" -> r
      [] r.error = "none" /\ ensure_tool_or_attach_grant(r.body, cmd) -> Through(r.body, cmd)
      [] OTHER -> [r EXCEPT !.error = "NotLegal"]

Replayed(b, log) ==
    LET after[i \in 0..Len(log)] ==
            IF i = 0 THEN {[body |-> b, error |-> "none"]}
                     ELSE {Again(r, log[i]) : r \in after[i - 1]}
    IN  CHOOSE v \in {IF r.error = "none" THEN r.body ELSE b : r \in after[Len(log)]} : TRUE

\* The fresh lab r, after what is logged for a body.
Logged(r, id, log) ==
    IF r = Unlogged \/ log = <<>> THEN r
    ELSE [r EXCEPT ![id] = Replayed(@, log)]

-----------------------------------------------------------------------------
(* The permits of typed handles, and the events that end them. *)

grants(b) ==
    CASE Domain(b.id) = "aerial" -> Air!grants_actuation(Kind(b))
      [] Domain(b.id) = "ground" -> Land!grants_actuation(Kind(b))
      [] Domain(b.id) = "marine" -> Sea!grants_actuation(Kind(b))

event_revokes(id, e) ==
    CASE Domain(id) = "aerial" -> Air!event_revokes_authority(e)
      [] Domain(id) = "ground" -> Land!ground_event_revokes_authority(e)
      [] Domain(id) = "marine" -> Sea!marine_event_revokes_authority(e)
revokes(id, posts) == \E i \in DOMAIN posts : event_revokes(id, posts[i])

\* The session posts these events, and bumps the epoch of the body.
Bumped(permits, id, posts) ==
    [permits EXCEPT ![id] = IF revokes(id, posts) /\ @ # "none" THEN "stale" ELSE @]
\* The lab posts them itself, and does not: a permit that was current still is.
Kept(permits, id, posts, api) ==
    [permits EXCEPT ![id] = IF revokes(id, posts) /\ @ = "current" THEN api ELSE @]

-----------------------------------------------------------------------------
(* A call: preview (a write only), gate, apply. *)

NoCall == [stage |-> "none"]
Call(stage, api, id, cmd) == [stage |-> stage, api |-> api, id |-> id, cmd |-> cmd]
Returned(outcome) == report' = outcome /\ pending' = NoCall

gate(api, id, cmd) ==
    LET allowed == IF api = "act" THEN ensure_tool(body[id], cmd)
                                  ELSE ensure_tool_or_attach_grant(body[id], cmd) IN
    /\ IF id \in Present /\ allowed
         THEN pending' = Call("gated", api, id, cmd) /\ report' = "none"
         ELSE Returned("refused")
    /\ UNCHANGED <<body, leftover, replay>>

\* act, act_through_attach
begin(api, id, cmd) == pending = NoCall /\ gate(api, id, cmd)

\* Driver::write previews its request against an observation; the call it then
\* makes is gated on the bodies as they are.  A command to the environment
\* touches no body.
to_action(req) ==
    Call("previewed", "write",
         IF req.channel \in ENV THEN CHOOSE id \in Present : TRUE ELSE req.device, req.channel)
preview(req) ==
    /\ pending = NoCall
    /\ IF preview_write(body, req) = "ok"
         THEN pending' = to_action(req) /\ report' = "none"
         ELSE Returned("refused")
    /\ UNCHANGED <<body, leftover, replay>>
write == pending.stage = "previewed" /\ gate("write", pending.id, pending.cmd)

\* The events of a command, posted by the lab.
json(id, cmd, api) ==
    \E r \in {apply_action(body[id], cmd)} :
    /\ body' = [body EXCEPT ![id] = r.body]
    /\ IF r.error = "none"
         THEN /\ leftover' =
                   Kept(leftover, id, IF cmd \in ENV THEN <<>> ELSE events(body[id])[cmd], api)
              /\ Returned("ok")
              /\ replay' = IF api = "act" THEN Unlogged ELSE Logged(replay, id, <<cmd>>)
         ELSE Returned("refused") /\ UNCHANGED <<leftover, replay>>

\* A walk of a command, which is logged.
walk(id, ws, log) == \E r \in {try_attach(body[id], ws)} :
    /\ body' = [body EXCEPT ![id] = r.body]
    /\ IF r.error = "none" THEN /\ leftover' = Bumped(leftover, id, Bound(body[id], ws).posts)
                                /\ replay' = Logged(replay, id, log)
                           ELSE UNCHANGED <<leftover, replay>>

apply ==
    LET id == pending.id  cmd == pending.cmd  ws == walks(body[id], cmd) IN
    /\ pending.stage = "gated"
    /\ IF pending.api = "act" THEN json(id, cmd, "act")
       ELSE IF Binding(body[id], ws) = {} THEN json(id, cmd, "attach")
       ELSE /\ walk(id, ws, logs(body[id], cmd))
            /\ Returned(IF try_attach(body[id], ws).error = "none" THEN "ok" ELSE "refused")

-----------------------------------------------------------------------------
(* What else moves the bodies. *)

Others == report' = "none" /\ replay' = Unlogged /\ UNCHANGED pending

\* A walk through the session, and a handle that is bound and kept.
elsewhere(id, cmd) ==
    LET ws == walks(body[id], cmd) IN
    \E r \in {try_attach(body[id], ws)} :
    /\ body' = [body EXCEPT ![id] = r.body]
    /\ leftover' = IF r.error = "none" THEN Bumped(leftover, id, Bound(body[id], ws).posts)
                                       ELSE leftover
    /\ Others

inject(e) ==
    LET r == inject_revoke(body["drone"], e) IN
    /\ "drone" \in Present
    /\ body' = [body EXCEPT !["drone"] = r.body]
    /\ leftover' = IF r.error = "none" THEN Bumped(leftover, "drone", <<e>>) ELSE leftover
    /\ Others

bind(id) ==
    /\ grants(body[id])
    /\ leftover' = [leftover EXCEPT ![id] = "current"]
    /\ report' = "none"
    /\ UNCHANGED <<body, pending, replay>>

\* A step that is refused leaves every body as it was.
step ==
    /\ pending = NoCall
    /\ \E cut \in SUBSET (Cuttable \cap Present) :
         LET Step(bs) == [id \in Present |-> Stepped(bs[id], id \in cut)] IN
         /\ body' = Step(body)
         /\ replay' = IF replay = Unlogged THEN replay ELSE Step(replay)
    /\ report' = "none"
    /\ UNCHANGED <<leftover, pending>>

-----------------------------------------------------------------------------
Init ==
    \E scene \in Scenes :
      /\ body = [id \in scene |-> Spawned(id)]
      /\ leftover = [id \in scene |-> "none"]
      /\ pending = NoCall /\ report = "none"
      /\ replay = body

called == write \/ apply
asked ==
    \E id \in Present, cmd \in Commands :
      \/ \E api \in {"act", "attach"} : begin(api, id, cmd)
      \/ \E device \in {id, "env"}, numbers \in {"within", "large"} :
           preview(Request(device, cmd, numbers))
others ==
    \/ \E e \in Revokes : inject(e)
    \/ \E id \in Present, cmd \in Elsewhere : elsewhere(id, cmd)

Next == called \/ asked \/ others \/ step \/ \E id \in Present : bind(id)

Spec == Init /\ [][Next]_vars

-----------------------------------------------------------------------------
\* The log of a lab that only calls through attach have moved, given to a fresh
\* lab that is stepped when the lab was, leaves every body as it is in the lab:
\* a takeoff from the ground and a recovery of a vehicle in failsafe are logged
\* as the commands that got them done (lab.rs, push_log and replay_until).
ReplayReproduces == replay = Unlogged \/ replay = body

\* A call that is refused leaves the bodies as they were, save for a heartbeat
\* that it freshened: a gate that let it through on a body that has moved since,
\* or a first event that the kernel took, is no excuse (lab.rs act,
\* act_through_attach; apply.rs apply_action_world).
Unfresh(b) ==
    IF Domain(b.id) = "aerial" THEN [b EXCEPT !.safety.offboard_heartbeat_fresh = FALSE] ELSE b
Refuses == report # report' /\ report' = "refused"
RefusedLeavesBody ==
    [][Refuses => \A id \in Present : Unfresh(body'[id]) = Unfresh(body[id])]_vars

\* A call through attach that ends the permits of a body in the kernel ends them
\* in the session too: a handle kept from before is refused (lab.rs
\* act_through_attach: a command that revokes is walked, never posted).
AttachRevokes == \A id \in Present : leftover[id] # "attach"

\* The reference and the preview of the machine-hardware surface, on the bodies
\* as they are: ReferenceTrueOf, PreviewAgreesOf (Surface).
ReferenceTrue == ReferenceTrueOf(body)
PreviewAgrees == PreviewAgreesOf(body)
=============================================================================
