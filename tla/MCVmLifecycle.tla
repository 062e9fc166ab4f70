--------------------------- MODULE MCVmLifecycle ---------------------------
(* Instances of VmLifecycle for TLC.                                       *)
EXTENDS VmLifecycle, TLC

CONSTANTS v1, v2, p1, p2, p3, a1, a2

\* v1 is a detached sandbox of `bux serve`, v2 a `bux run --rm` VM.
MCVms == {v1, v2}
MCAutoRemove == {v2}
MCDetach == {v1}

Symmetry == Permutations(Pids)

=============================================================================
