--------------------------- MODULE AerialAuthority ---------------------------
(***************************************************************************)
(* What the aerial kernel promises, without its phases: authority over the *)
(* motors is idle, live or latched off by a failsafe.  It becomes live     *)
(* only from idle, so a failsafe can never hand it straight back, and the  *)
(* motors can be powered up only while it is live.                         *)
(***************************************************************************)
VARIABLES mode, powered

Init == mode = "idle" /\ powered = FALSE

Arm == mode = "idle" /\ mode' = "live" /\ UNCHANGED powered

Power == mode = "live" /\ powered' = TRUE /\ UNCHANGED mode

\* The motors may be cut in any mode, also while latched.
Cut == powered' = FALSE /\ UNCHANGED mode

\* Latching a live vehicle leaves the motors as they are: it may be flying.
Latch == mode' = "latched" /\ UNCHANGED powered

Release == mode' = "idle" /\ powered' = FALSE

Next == Arm \/ Power \/ Cut \/ Latch \/ Release

Spec == Init /\ [][Next]_<<mode, powered>>
=============================================================================
