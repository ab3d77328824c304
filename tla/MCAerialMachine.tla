---------------------------- MODULE MCAerialMachine ----------------------------
(* AerialMachine, and the harnesses that start the kernels anywhere else.    *)
EXTENDS AerialMachine, Harnesses

\* The harnesses assume check_invariants of the state they start from, and so
\* cover whatever the kernel reaches; from there, and from every other state
\* that a plant may report to a handle, each event of the three kernels is
\* admitted and answered as they assert.
HarnessesCover == kernel \in Legal /\ KernelHarnesses
=============================================================================
