--------------------------- MODULE MCAerialSession ---------------------------
(* Two interchangeable handles on one body. *)
EXTENDS AerialSession, TLC

Handles == Permutations(Handle)
=============================================================================
