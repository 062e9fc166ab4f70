------------------------------- MODULE VmMounts -------------------------------
(* The mounts of a VM, under names of its own for the modules that put them    *)
(* beside other components: what is assumed of the constants and what is       *)
(* promised.                                                                   *)
EXTENDS Naturals, Sequences

CONSTANTS
    Spelling, BindPaths, GuestPaths, HostTree, Denied,
    DataRoots, MaxMounts, NameLimit, TagLimit

VARIABLES host, resolved, vmstate, shim, devices, guestfs, attached

M == INSTANCE Mounts

\* The data directory is an absolute path, and the configuration of a shim, a
\* file written under a new name when the shim is spawned, is no directory that
\* a bind found before.
ASSUME MountsAssumption ==
    /\ \A d \in DataRoots : d \in Seq(STRING) /\ d # <<>> /\ d[1] = "/"
    /\ DOMAIN Spelling \subseteq STRING
    /\ \A p \in DOMAIN HostTree : HostTree[p] \in Seq(STRING)
    /\ \A p \in DOMAIN HostTree, d \in DataRoots :
            ~M!IsOrUnder(HostTree[p], d \o <<"socks", "vm.json">>)

-----------------------------------------------------------------------------
\* A guest that serves finds at each requested path the directory and mode
\* asked for, no jail keeps the shim from what its configuration names, and
\* named volumes stay attached, unless a later mount covers the path, two
\* volumes share a tag, or bubblewrap hides the data directory or is stacked
\* on Landlock (volumes.rs, bux-jail, guest mounts.rs).
MountsAsRequested == M!MountsAsRequested

=============================================================================
