------------------------------ MODULE DataParts ------------------------------
(* The qcow2 library and the compiler of the system call filter, side by side: *)
(* their constants with what is assumed of them, their variables and what each *)
(* promises.                                                                   *)
EXTENDS Naturals, Sequences

CONSTANTS
    ClusterSize, MaxClusters,                           \* Qcow2
    JumpSpan, MaxLen, MaxNr                             \* Seccomp

VARIABLES
    chain, qpc, vc, next, image,
    allowlist, prog, data, acc, insn, verdict

Q == INSTANCE Qcow2
S == INSTANCE Seccomp

\* A cluster holds at least one entry of a table.
ASSUME Qcow2Assumption == ClusterSize \in Nat /\ ClusterSize >= 8 /\ MaxClusters \in Nat
ASSUME SeccompAssumption == JumpSpan \in Nat \ {0} /\ MaxNr \in Nat

-----------------------------------------------------------------------------
\* A flattened disk reads as the chain it replaces, except where a cluster has
\* the zero flag (bux-qcow2 ops.rs).
FlattenPreserves == Q!FlattenPreserves

\* The refcounts of a flattened image and of a new overlay whose L1 table fits
\* its cluster count exactly the clusters in use (bux-qcow2 ops.rs).
RefcountsExact == Q!RefcountsExact

\* The compiled filter allows the native calls of a list whose offsets fit and
\* kills the others (seccomp filter.rs).
FilterVerdict == S!FilterVerdict

=============================================================================
