------------------------------- MODULE Mounts -------------------------------
(* A VM's mounts on their way from the request to the guest: resolved to host *)
(* directories and virtio-fs tags (volumes.rs), opened by a shim that may only *)
(* reach what its jail leaves it (bux-jail, bux-landlock), and mounted by the  *)
(* agent by tag (guest mounts.rs).                                             *)
(*                                                                             *)
(* A path is the sequence of its components, "/" first when it is absolute.    *)
(* Removal of volumes by other requests is in Worker, the order of the spawn   *)
(* and what a failure leaves in Launch, the agent's other steps in GuestBoot.  *)
EXTENDS Naturals, Sequences, Functions

CONSTANTS
    Spelling,       \* names requested for volumes: the characters of each
    BindPaths,      \* host paths requested for binds
    GuestPaths,     \* guest paths requested
    HostTree,       \* host directories: the canonical path of each
    Denied,         \* sensitive_prefixes()
    DataRoots,      \* where the data directory may be
    MaxMounts, NameLimit, TagLimit   \* bounds: mounts of a VM; 128; 32

VARIABLES
    host,       \* the data directory, the root's form, the jail
    resolved,   \* the ResolvedVolumes
    vmstate,    \* the host's side of the VM
    shim,       \* the shim, then its guest
    devices,    \* virtio-fs devices of the VM
    guestfs,    \* mounts made by the agent, in order
    attached    \* vm_volumes: guest path by volume name

mountVars == <<host, resolved, vmstate, shim, devices, guestfs, attached>>

Root == <<"/">>
IsOrUnder(path, prefix) ==
    path = prefix \/ (Len(prefix) <= Len(path) /\ SubSeq(path, 1, Len(prefix)) = prefix)
Parent(path) == SubSeq(path, 1, Len(path) - 1)
\* Of the mounts over a path the last one decides.
LastOver(path, mounts) ==
    CHOOSE i \in DOMAIN mounts :
        /\ IsOrUnder(path, mounts[i].at)
        /\ \A k \in DOMAIN mounts : IsOrUnder(path, mounts[k].at) => k <= i

-----------------------------------------------------------------------------
(* Resolution of a request.                                                  *)

Letters == {"a", "b"}

ValidVolumeName(n) ==
    LET s == Spelling[n]
    IN  /\ Len(s) \in 1 .. NameLimit
        /\ \A i \in DOMAIN s : s[i] \in Letters \cup {"-", "_", "."}
        /\ \A i \in 1 .. Len(s) - 1 : ~(s[i] = "." /\ s[i + 1] = ".")

ValidGuestPath(g) ==
    /\ g # <<>> /\ g[1] = "/"
    /\ \A i \in DOMAIN g : g[i] # ".."
    /\ \E i \in DOMAIN g : g[i] \notin {"/", "."}

ValidResolvedPath(p, allow) ==
    p # Root /\ (allow \/ \A d \in Denied : ~IsOrUnder(p, d))

ValidBindPath(p, allow) ==
    /\ p # <<>> /\ p[1] = "/"
    /\ \A i \in DOMAIN p : p[i] # ".."
    /\ p \in DOMAIN HostTree
    /\ ValidResolvedPath(HostTree[p], allow)

SanitizeTag(n) ==
    LET s == Spelling[n]
    IN  [i \in 1 .. (IF Len(s) > TagLimit THEN TagLimit ELSE Len(s)) |->
            IF s[i] \in Letters \cup {"-", "_"} THEN s[i] ELSE "_"]

BindTagUnnumbered(idx) == [prefix |-> "vol", idx |-> 0, name |-> <<>>]
BindTag(idx) == [prefix |-> "vol", idx |-> idx, name |-> <<>>]
NamedTag(n) == [prefix |-> "vol_", idx |-> 0, name |-> SanitizeTag(n)]

\* The volume "." is the directory of all volumes.
VolumePath(n) ==
    host.data \o (IF Spelling[n] = <<".">> THEN <<"volumes">> ELSE <<"volumes", n>>)

\* hostPath:guestPath[:opts], as the command line gives a bind.
ReadOnlyOpts(opts) == \E o \in opts : o \in {"ro", "RO"}

Requests ==
    [source : {"bind"}, path : BindPaths, at : GuestPaths,
     opts : {{}, {"z"}, {"z", "RO"}}, allow : BOOLEAN]
    \cup
    [source : {"named"}, path : DOMAIN Spelling, at : GuestPaths,
     opts : {{}, {"ro"}}, allow : {FALSE}]

Acceptable(m) ==
    /\ ValidGuestPath(m.at)
    /\ IF m.source = "bind"
         THEN ValidBindPath(m.path, m.allow)
         ELSE /\ ValidVolumeName(m.path)
              /\ ValidResolvedPath(VolumePath(m.path), m.allow)

\* The agent's mount point: "." components name the same directory.
MountPoint(g) == SelectSeq(g, LAMBDA c : c # ".")

ResolveOne(idx, m) ==
    [source |-> m.source, name |-> IF m.source = "named" THEN m.path ELSE "",
     at |-> MountPoint(m.at),
     ro |-> ReadOnlyOpts(m.opts),
     dir |-> IF m.source = "bind" THEN HostTree[m.path] ELSE VolumePath(m.path),
     tag |-> IF m.source = "bind" THEN BindTag(idx) ELSE NamedTag(m.path)]

-----------------------------------------------------------------------------
(* What the jail lets the shim reach.                                        *)

Disk == host.data \o <<"disks", "vms", "vm.qcow2">>
Rootfs == host.data \o <<"rootfs">>
BackingChain == IF host.root = "disk" THEN {host.data \o <<"disks", "bases", "b.raw">>} ELSE {}
SocksDir == host.data \o <<"socks">>
ConfigPath == SocksDir \o <<"vm.json">>
ShimPath == <<"/", "home", "u", "bux", "bux-shim">>

RootPath == IF host.root = "disk" THEN Disk ELSE Rootfs
ReadonlyPaths == BackingChain \cup {Parent(b) : b \in BackingChain}
VirtiofsPaths == [i \in DOMAIN resolved |-> resolved[i].dir]

\* Landlock: rights hold for everything beneath a path.
WithParents(paths) == paths \cup {Parent(p) : p \in paths}
LandlockRead ==
    {<<"/", "usr">>, <<"/", "etc">>, <<"/", "opt">>, <<"/", "proc">>, <<"/", "dev">>}
    \cup WithParents({ShimPath, ConfigPath}) \cup WithParents(ReadonlyPaths)
LandlockWrite ==
    {<<"/", "tmp">>, <<"/", "var", "tmp">>, SocksDir} \cup Range(VirtiofsPaths)
    \cup (IF host.root = "disk" THEN WithParents({Disk}) ELSE {Rootfs})
LandlockGrants(p, write) ==
    \E r \in LandlockWrite \cup (IF write THEN {} ELSE LandlockRead) : IsOrUnder(p, r)

\* bubblewrap: binds and tmpfs mounts, in order.
Binds(kind, paths) == [i \in DOMAIN paths |-> [kind |-> kind, at |-> paths[i]]]
BwrapMounts ==
    Binds("ro", <<Root>>) \o Binds("tmpfs", <<<<"/", "tmp">>, <<"/", "dev", "shm">>>>)
    \o Binds("rw", <<RootPath, SocksDir>> \o VirtiofsPaths)
    \o Binds("ro", <<ConfigPath>>)
BwrapGrants(p, write) ==
    BwrapMounts[LastOver(p, BwrapMounts)].kind \in (IF write THEN {"rw"} ELSE {"ro", "rw"})

\* Seatbelt: deny by default, allow subtrees.
SeatbeltRead ==
    {<<"/", "usr", "lib">>, Parent(ShimPath), ConfigPath} \cup ReadonlyPaths
SeatbeltWrite ==
    {<<"/", "tmp">>, <<"/", "var", "tmp">>, SocksDir, RootPath} \cup Range(VirtiofsPaths)
SeatbeltGrants(p, write) ==
    \E r \in SeatbeltWrite \cup (IF write THEN {} ELSE SeatbeltRead) : IsOrUnder(p, r)

Jails == [sandbox : {"noop", "bwrap"}, landlock : BOOLEAN]
         \cup [sandbox : {"seatbelt"}, landlock : {FALSE}]

\* The child enters its Landlock domain before it becomes bwrap, and the kernel
\* lets nothing in such a domain mount, which is what bwrap starts with.
Stacked == host.jail.sandbox = "bwrap" /\ host.jail.landlock

Grants(p, write) ==
    /\ host.jail.landlock => LandlockGrants(p, write)
    /\ host.jail.sandbox = "bwrap" => BwrapGrants(p, write)
    /\ host.jail.sandbox = "seatbelt" => SeatbeltGrants(p, write)

-----------------------------------------------------------------------------
(* The host: resolve_mounts, spawn, link_vm; later stop, start, remove.      *)

Init ==
    /\ host = [data |-> Root, root |-> "disk",
               jail |-> [sandbox |-> "noop", landlock |-> FALSE]]
    /\ resolved = <<>> /\ devices = <<>> /\ guestfs = <<>>
    /\ vmstate = "none" /\ shim = "none"
    /\ attached = <<>>

Request ==
    /\ vmstate = "none"
    /\ \E d \in DataRoots, r \in {"disk", "dir"}, j \in Jails :
            host' = [data |-> d, root |-> r, jail |-> j]
    /\ vmstate' = "resolving"
    /\ UNCHANGED <<resolved, shim, devices, guestfs, attached>>

Resolve ==
    /\ vmstate = "resolving" /\ Len(resolved) < MaxMounts
    /\ \E m \in Requests :
        \/ /\ Acceptable(m)
           /\ resolved' = Append(resolved, ResolveOne(Len(resolved), m))
           /\ UNCHANGED vmstate
        \/ /\ ~Acceptable(m)
           /\ vmstate' = "failed"
           /\ UNCHANGED resolved
    /\ UNCHANGED <<host, shim, devices, guestfs, attached>>

\* The shim is started with the configuration, the row is written.
Spawn ==
    /\ vmstate = "resolving"
    /\ vmstate' = "spawned" /\ shim' = "starting"
    /\ UNCHANGED <<host, resolved, devices, guestfs, attached>>

\* INSERT OR REPLACE under the key (vm, volume).
LinkVm ==
    LET Named(n) == {i \in DOMAIN resolved :
                        resolved[i].source = "named" /\ resolved[i].name = n}
        Linked == {resolved[i].name : i \in {k \in DOMAIN resolved :
                                                resolved[k].source = "named"}}
        LastOf(n) == CHOOSE i \in Named(n) : \A k \in Named(n) : k <= i
    IN  /\ vmstate = "spawned"
        /\ vmstate' = "running"
        /\ attached' = [n \in Linked |-> resolved[LastOf(n)].at]
        /\ UNCHANGED <<host, resolved, shim, devices, guestfs>>

Stop ==
    /\ vmstate = "running" /\ shim # "none"
    /\ shim' = "none" /\ devices' = <<>> /\ guestfs' = <<>>
    /\ UNCHANGED <<host, resolved, vmstate, attached>>

\* A start takes the mounts of the stored configuration.
Restart ==
    /\ vmstate = "running" /\ shim = "none"
    /\ shim' = "starting"
    /\ UNCHANGED <<host, resolved, vmstate, devices, guestfs, attached>>

UnlinkVm ==
    /\ vmstate = "running" /\ shim = "none"
    /\ vmstate' = "removed" /\ attached' = <<>>
    /\ UNCHANGED <<host, resolved, shim, devices, guestfs>>

-----------------------------------------------------------------------------
(* The shim and the guest.                                                   *)

\* bwrap, if it is asked for, sets up its mounts; the shim reads its configuration.
ShimStart ==
    /\ shim = "starting"
    /\ shim' = IF ~Stacked /\ Grants(ShimPath, FALSE) /\ Grants(ConfigPath, FALSE)
                 THEN "applying" ELSE "refused"
    /\ UNCHANGED <<host, resolved, vmstate, devices, guestfs, attached>>

AddVirtiofsShare ==
    LET i == Len(devices) + 1
    IN  /\ shim = "applying" /\ i \in DOMAIN resolved
        /\ devices' = Append(devices, [tag |-> resolved[i].tag, dir |-> resolved[i].dir,
                                       ro |-> resolved[i].ro])
        /\ UNCHANGED <<host, resolved, vmstate, shim, guestfs, attached>>

\* libkrun opens the root, its backing chain and the shares.
StartEnter ==
    /\ shim = "applying" /\ Len(devices) = Len(resolved)
    /\ shim' = IF /\ Grants(RootPath, TRUE) /\ Grants(SocksDir, TRUE)
                  /\ \A b \in BackingChain : Grants(b, FALSE)
                  /\ \A i \in DOMAIN devices : Grants(devices[i].dir, ~devices[i].ro)
                 THEN "booting" ELSE "refused"
    /\ UNCHANGED <<host, resolved, vmstate, devices, guestfs, attached>>

\* Of devices with one tag, the guest's kernel may give any.
MountVirtiofsVolume ==
    LET i == Len(guestfs) + 1
    IN  /\ shim = "booting" /\ i \in DOMAIN resolved
        /\ \E d \in Range(devices) :
            /\ d.tag = resolved[i].tag
            /\ guestfs' = Append(guestfs, [at |-> resolved[i].at, dir |-> d.dir, ro |-> d.ro])
        /\ UNCHANGED <<host, resolved, vmstate, shim, devices, attached>>

Serve ==
    /\ shim = "booting" /\ Len(guestfs) = Len(resolved)
    /\ shim' = "serving"
    /\ UNCHANGED <<host, resolved, vmstate, devices, guestfs, attached>>

Next ==
    \/ Request \/ Resolve \/ Spawn \/ LinkVm \/ Stop \/ Restart \/ UnlinkVm
    \/ ShimStart \/ AddVirtiofsShare \/ StartEnter \/ MountVirtiofsVolume \/ Serve
Spec == Init /\ [][Next]_mountVars

-----------------------------------------------------------------------------
(* What may go wrong by design: a later mount over an earlier one; volumes    *)
(* whose names give one tag, or one volume asked for in two modes; a data      *)
(* directory that bubblewrap's empty /tmp or /dev/shm hides; bubblewrap under  *)
(* Landlock, which Linux has by default where both are there.                  *)

Covered(i) == \E k \in i + 1 .. Len(resolved) : IsOrUnder(resolved[i].at, resolved[k].at)
Confused(i) ==
    \E k \in DOMAIN resolved \ {i} :
        /\ resolved[i].source = "named" /\ resolved[k].source = "named"
        /\ SanitizeTag(resolved[i].name) = SanitizeTag(resolved[k].name)
        /\ resolved[i].name # resolved[k].name \/ resolved[i].ro # resolved[k].ro
Hidden ==
    /\ host.jail.sandbox = "bwrap"
    /\ \E t \in {<<"/", "tmp">>, <<"/", "dev", "shm">>} : IsOrUnder(host.data, t)
ShutOut == Hidden \/ Stacked

\* What the guest finds at a path.
Seen(path) == guestfs[LastOver(path, guestfs)]

\* A guest that serves finds at each requested path the directory and the mode
\* that were asked for, the shim's jail never keeps it from what its
\* configuration names, and every named volume of a VM stays attached to it
\* (volumes.rs, landlock_setup.rs, bwrap.rs, seatbelt.rs, guest mounts.rs),
\* unless one of the cases above applies.
MountsAsRequested ==
    /\ shim = "refused" => ShutOut
    /\ shim = "serving" =>
        \A i \in DOMAIN resolved : Covered(i) \/ Confused(i) \/
            /\ Seen(resolved[i].at).dir = resolved[i].dir
            /\ Seen(resolved[i].at).ro = resolved[i].ro
    /\ vmstate = "running" =>
        \A i \in DOMAIN resolved :
            resolved[i].source = "named" => resolved[i].name \in DOMAIN attached

=============================================================================
