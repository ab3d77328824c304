--------------------------- MODULE MCGroundSession ---------------------------
(* Interchangeable handles on one chassis. *)
EXTENDS GroundSession, TLC

Handles == Permutations(Handle)
=============================================================================
