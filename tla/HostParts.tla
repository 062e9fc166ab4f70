------------------------------ MODULE HostParts ------------------------------
(* Four components of the host, side by side: the command line, the worker's   *)
(* socket, the payload store and the base disks.  Their constants with what is *)
(* assumed of them, their variables and what each promises.                    *)
EXTENDS Naturals, Sequences

CONSTANTS
    Commands, Vms,                                      \* Cli
    Workers, DataDirs, Inodes,                          \* Listen
    Nobody,                                             \* both: nobody holds the lock
    Procs, Attempts, MaxDamage,                         \* Payload
    Builders, MaxInodes                                 \* BaseDisk

VARIABLES
    vmrow, vmdisk, vmshim, rtlock, cmd,
    sockname, dirlock, worker, stolen, crossed,
    store, staging, flock, proc_at, damaged,
    installed, files, tmp, base, staged, builder, muddled

C == INSTANCE Cli
W == INSTANCE Listen
P == INSTANCE Payload
B == INSTANCE BaseDisk

\* A command is neither the absent parent of a shim nor one of its fates.
ASSUME CliAssumption == Commands \cap {Nobody, "left", "killed"} = {}
\* 0 stands for a name that is not there.
ASSUME ListenAssumption == 0 \notin Inodes
ASSUME PayloadAssumption == P!Free \notin Procs /\ Attempts \in Nat

-----------------------------------------------------------------------------
\* A command that leaves by itself leaves no VM running attached to it (cli
\* run.rs).
AttachedEnds == C!AttachedEnds

\* A worker that ends never takes away the socket name of another that serves,
\* unless one started between its look at the path and its use (listen.rs).
SocketKept == W!SocketKept

\* What a process resolved from the payload store stays whole while nobody
\* but ensure_blocking touches the store (payload.rs).
PayloadStays == P!PayloadStays

\* A base disk under its final name is whole and has the agent it is named
\* for, unless two threads built it at once or the agent was replaced under the
\* one that did (disk/mod.rs, guest.rs).
BaseWhole == B!BaseWhole

=============================================================================
