------------------------------- MODULE Permits -------------------------------
(***************************************************************************)
(* The permits of the ground and marine vehicles: bound to an epoch of the *)
(* body, without a lease.                                                  *)
(*                                                                         *)
(* A setpoint is reduced to the standing of the permit it was staged       *)
(* under: "now", or "lost" once the body's authority has been revoked      *)
(* since.  Standings are history: the code has nothing like them, only the *)
(* epoch that is meant to stand for them.                                  *)
(***************************************************************************)
EXTENDS Integers

CONSTANT EpochMax    \* u32::MAX, where saturating_add stops

ASSUME EpochMaxAssumption == EpochMax \in Nat \ {0}

Standing == {"now", "lost"}
Staged   == Standing \cup {"none"}
Permit   == [held : BOOLEAN, epoch : 0..EpochMax, standing : Standing]
NoPermit == [held |-> FALSE, epoch |-> 0, standing |-> "lost"]

\* What is staged once authority is lost.
Lost(tag) == IF tag = "none" THEN "none" ELSE "lost"

bump_authority(epoch) == IF epoch < EpochMax THEN epoch + 1 ELSE epoch

issue(epoch) == [held |-> TRUE, epoch |-> epoch, standing |-> "now"]

\* World::try_step may commit, with the propulsion live or cut, or refuse the
\* successor.
StepOutcome == {"granted", "cut", "refused"}
=============================================================================
