--------------------------- MODULE MCAerialThreads ---------------------------
(* Two interchangeable handles, each called from its own thread. *)
EXTENDS AerialThreads, TLC

Handles == Permutations(Handle)
=============================================================================
